--------------------------- MODULE FactTransactions ---------------------------
(***************************************************************************)
(* Fact transactions and their admission by a store.                       *)
(*                                                                         *)
(* A shard is a key with a payload; a payload declares facts and names the *)
(* facts its derivations read.  A transaction carries the complete next    *)
(* manifest and a delta of upserted and deleted shards to reach it.  The   *)
(* in-memory store (src/analysis/internal/state.ts) builds the next        *)
(* generation and checks all of it; the SQLite store                       *)
(* (src/analysis/sqlite/materialization/validate.ts) never reads the       *)
(* shards a delta leaves alone and checks only what the delta can break.   *)
(***************************************************************************)
CONSTANTS Key, Payload, Fact,
          Declares,      \* Declares[p]: facts of a shard with payload p
          Derives        \* Derives[p]: facts named as derivation inputs by p

ASSUME FactAssumption ==
  /\ Declares \in [Payload -> SUBSET Fact]
  /\ Derives \in [Payload -> SUBSET Fact]

PartialFunctions(S, T) == UNION {[D -> T] : D \in SUBSET S}

\* The shards of a generation.
Contents == PartialFunctions(Key, Payload)

Nothing == [k \in {} |-> k]

\* What a transaction submits: the complete next manifest and the delta to it.
Transaction == [manifest : Contents, upserts : Contents, deletes : SUBSET Key]

\* The part of validateFactTransaction that reads the transaction alone.
SelfConsistent(tx) ==
  /\ \A k \in DOMAIN tx.upserts :
       /\ k \in DOMAIN tx.manifest
       /\ tx.manifest[k] = tx.upserts[k]
       /\ k \notin tx.deletes
  /\ tx.deletes \intersect DOMAIN tx.manifest = {}

Submitted == {tx \in Transaction : SelfConsistent(tx)}

Materialized(shards, tx) ==
  [k \in (DOMAIN shards \ tx.deletes) \union DOMAIN tx.upserts |->
     IF k \in DOMAIN tx.upserts THEN tx.upserts[k] ELSE shards[k]]

\* Fact identities are unique across shards and every derivation input is one of them.
FactsClosed(shards) ==
  /\ \A j, k \in DOMAIN shards :
       j # k => Declares[shards[j]] \intersect Declares[shards[k]] = {}
  /\ \A k \in DOMAIN shards : \A f \in Derives[shards[k]] :
       \E j \in DOMAIN shards : f \in Declares[shards[j]]

DeclaredBy(shards, keys) == UNION {Declares[shards[k]] : k \in keys}

(***************************************************************************)
(* validateFactClosure: the upserts among themselves, the upserts against  *)
(* the shards left alone, and the shards left alone against the facts that *)
(* go away.  Before the first generation `shards` is empty and only the    *)
(* first two say anything, like the early return of the code.              *)
(***************************************************************************)
DeltaClosed(shards, tx) ==
  LET replaced == tx.deletes \union DOMAIN tx.upserts
      kept == DOMAIN shards \ replaced
      entering == DeclaredBy(tx.upserts, DOMAIN tx.upserts)
      available == DeclaredBy(shards, kept)
      removed == DeclaredBy(shards, DOMAIN shards \intersect replaced) \ entering
  IN /\ \A j, k \in DOMAIN tx.upserts :
          j # k => Declares[tx.upserts[j]] \intersect Declares[tx.upserts[k]] = {}
     /\ entering \intersect available = {}
     /\ \A k \in DOMAIN tx.upserts : Derives[tx.upserts[k]] \subseteq entering \union available
     /\ \A k \in kept : Derives[shards[k]] \intersect removed = {}

=============================================================================
