---------------------------- MODULE AnalysisStore ----------------------------
(***************************************************************************)
(* What an analysis store promises its callers, whatever it is made of.    *)
(* src/analysis/query/index.ts declares the interface and                  *)
(* src/analysis/.spec/laws/foundation.ts states the two promises: a        *)
(* validated generation becomes current atomically and only over the       *)
(* generation it was built from, and a reader keeps exactly the generation *)
(* it opened until it is disposed.                                         *)
(*                                                                         *)
(* A version is one committed generation: its place in the sequence of its *)
(* universe and its value.  Two versions may have the same value, because  *)
(* a generation identity hashes what was analysed and not when.            *)
(***************************************************************************)
EXTENDS Naturals, FiniteSets

CONSTANTS Universe, \* project universes
          Handle,   \* readers and snapshot sets held by callers
          Value     \* what a generation identity identifies

VARIABLES versions, \* versions[u]: the versions a caller can still open
          head,     \* head[u]: sequence of the current version, 0 for none
          pins,     \* pins[h]: the versions handle h holds; {} when closed
          open      \* FALSE once the store is disposed

vars == <<versions, head, pins, open>>

Version == [sequence : Nat \ {0}, value : Value]
Pin == [universe : Universe, sequence : Nat \ {0}, value : Value]

PinOf(u, v) == [universe |-> u, sequence |-> v.sequence, value |-> v.value]

Init ==
  /\ versions = [u \in Universe |-> {}]
  /\ head = [u \in Universe |-> 0]
  /\ pins = [h \in Handle |-> {}]
  /\ open = TRUE

(***************************************************************************)
(* A store may forget versions at any operation, but never a current one   *)
(* while its universe is kept, never one a handle holds, and never a       *)
(* universe one of whose versions a handle holds.                          *)
(***************************************************************************)
Keeps(before, current, holds) ==
  \A u \in Universe :
    /\ versions'[u] \subseteq before[u]
    /\ \A v \in before[u] :
         (\E h \in Handle : PinOf(u, v) \in holds[h]) => v \in versions'[u]
    /\ \/ head'[u] = current[u]
       \/ head'[u] = 0 /\ versions'[u] = {}
    /\ head'[u] # 0 => \E v \in versions'[u] : v.sequence = head'[u]

\* A generation built from the current one, value for value, replaces it.
Commit(u, value) ==
  /\ open /\ open' = TRUE
  /\ LET next == [sequence |-> head[u] + 1, value |-> value]
     IN /\ Keeps([versions EXCEPT ![u] = @ \union {next}],
                 [head EXCEPT ![u] = next.sequence], pins)
        /\ head'[u] = next.sequence
  /\ UNCHANGED pins

\* A handle pins versions the store has, at most one of each universe.
Open(h, taken) ==
  /\ open /\ pins[h] = {}
  /\ \A p \in taken : [sequence |-> p.sequence, value |-> p.value] \in versions[p.universe]
  /\ \A p, q \in taken : p.universe = q.universe => p = q
  /\ pins' = [pins EXCEPT ![h] = taken]
  /\ UNCHANGED <<versions, head, open>>

\* Handles let go of some of what they hold; all those of a store that goes do at once.
Release(kept) ==
  /\ pins' = kept /\ kept # pins
  /\ \A h \in Handle : kept[h] \subseteq pins[h]
  /\ UNCHANGED open
  /\ IF open THEN Keeps(versions, head, kept) ELSE UNCHANGED <<versions, head>>

Dispose ==
  /\ open /\ open' = FALSE
  /\ versions' = [u \in Universe |-> {}]
  /\ head' = [u \in Universe |-> 0]
  /\ UNCHANGED pins

Next ==
  \/ \E u \in Universe, value \in Value : Commit(u, value)
  \/ \E h \in Handle : Open(h, pins'[h])
  \/ Release(pins')
  \/ Dispose

Spec == Init /\ [][Next]_vars

=============================================================================
