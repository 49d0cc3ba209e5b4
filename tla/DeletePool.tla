----------------------------- MODULE DeletePool -----------------------------
(***************************************************************************)
(* The pool that deletes retired objects from storage                      *)
(* (src/olos/src/runtime/retention.ts): at most Concurrency workers share  *)
(* one queue across their awaits.  A worker stores the outcome of its      *)
(* delete and takes the next object without an await in between, so that   *)
(* is one step.  A pool is a value here; whoever runs one keeps it in its  *)
(* own state.                                                              *)
(***************************************************************************)
EXTENDS Integers, Sequences, FiniteSetsExt

CONSTANT Concurrency  \* deletes in flight at once

ASSUME PoolAssumption == Concurrency \in Nat \ {0}

Outcomes == {"none", "deleted", "failed"}

\* Every worker takes an object at once; there are no more of them than
\* objects.
Started(objects) ==
  LET workers == Min({Concurrency, Len(objects)})
  IN  [objects  |-> objects,
       next     |-> workers + 1,
       working  |-> 1 .. workers,
       outcomes |-> [i \in DOMAIN objects |-> "none"]]

\* Fault: a failed delete throws, which ends its worker.
SettledUnlessThrown(pool, i, outcome) ==
  LET more == pool.next <= Len(pool.objects) /\ outcome = "deleted"
  IN  [pool EXCEPT
        !.outcomes[i] = IF outcome = "deleted" THEN outcome ELSE @,
        !.working = (@ \ {i}) \cup (IF more THEN {pool.next} ELSE {}),
        !.next = IF more THEN @ + 1 ELSE @]

\* The outcome, caught if it is an error, goes to the place of its object in
\* the input.
Settled(pool, i, outcome) ==
  LET more == pool.next <= Len(pool.objects)
  IN  [pool EXCEPT
        !.outcomes[i] = outcome,
        !.working = (@ \ {i}) \cup (IF more THEN {pool.next} ELSE {}),
        !.next = IF more THEN @ + 1 ELSE @]

\* All workers have ended.
Finished(pool) == pool.working = {}

\* Every object is queued, in flight or settled, and the pool ends only when
\* nothing is left: a failure is isolated to its object.
Accounts(pool) ==
  /\ Cardinality(pool.working) <= Concurrency
  /\ \A i \in DOMAIN pool.objects :
       (pool.outcomes[i] = "none") <=> (i \in pool.working \/ i >= pool.next)
  /\ Finished(pool) => \A i \in DOMAIN pool.objects : pool.outcomes[i] # "none"

=============================================================================
