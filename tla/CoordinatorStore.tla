-------------------------- MODULE CoordinatorStore --------------------------
(***************************************************************************)
(* Handlers that share one stored session without a lock.  Each loads a    *)
(* snapshot, computes the next state from it while others run, and saves   *)
(* with the etag it loaded; a lost race is retried on the winner's         *)
(* snapshot (src/olos/src/protocol/mutate-coordinator-store.ts over the    *)
(* serialized and sqlite backends).                                        *)
(*                                                                         *)
(* A handler may die at any point, its client then gets no answer, and a   *)
(* write already handed to the backend may still be executed later.  A     *)
(* client that got no answer, or a conflict, may send the same request     *)
(* again, through any handler.                                             *)
(***************************************************************************)
EXTENDS SessionRequests

CONSTANTS
  Handlers,
  NoRequest,    \* what a handler serves that serves nothing
  MaxAttempts,  \* maxAttempts of the retry loop
  MaxCalls      \* bound: calls begun in a behaviour

ASSUME StoreAssumption ==
  /\ MaxAttempts \in Nat \ {0}
  /\ MaxCalls \in Nat
  /\ NoRequest \notin Requests

VARIABLES
  record,   \* the stored record: etag and state
  orphans,  \* writes in flight whose handler has died
  pc,       \* per handler: where it is in its call
  request,  \* per handler: the request it serves, or served last
  base,     \* per handler: the snapshot its current attempt works on
  start,    \* per handler: the etag its call loaded first
  attempt,  \* per handler: the number of the attempt
  answer,   \* per handler: the answer to its last call
  calls     \* calls begun so far

stored == <<record, orphans>>

handling == <<pc, request, base, start, attempt, answer>>

vars == <<stored, handling, calls>>

Statuses ==
  {"none", "saved", "idempotent", "rejected", "not_found", "conflict"}

\* The code's etags are decimal strings from "1" on; 0 is a missing record.
NoRecord == [etag |-> 0, log |-> <<>>]

NoAnswer == [status |-> "none", at |-> 0]

Busy == {"mutating", "saving", "saved", "lost"}

----------------------------------------------------------------------------
(***************************************************************************)
(* The backend.                                                            *)
(***************************************************************************)

\* Fault: the etag is compared only when a record is inserted.
EtagMatchesOnInsert(expected) == expected # 0 \/ record.etag = 0

\* One atomic statement compares the etag and replaces the record.  The cursor
\* view that manifest reads use is part of what it writes, derived from it.
EtagMatches(expected) == record.etag = expected

Store(next) == record' = next

\* saveRecord derives the next etag from the one the caller expects.
Written(snapshot, r) ==
  [etag |-> snapshot.etag + 1, log |-> Append(snapshot.log, r)]

----------------------------------------------------------------------------
(***************************************************************************)
(* The handlers.                                                           *)
(***************************************************************************)

Init ==
  /\ record = NoRecord
  /\ orphans = {}
  /\ pc = [h \in Handlers |-> "idle"]
  /\ request = [h \in Handlers |-> NoRequest]
  /\ base = [h \in Handlers |-> NoRecord]
  /\ start = [h \in Handlers |-> 0]
  /\ attempt = [h \in Handlers |-> 1]
  /\ answer = [h \in Handlers |-> NoAnswer]
  /\ calls = 0

\* A call arrives and its handler loads the snapshot.
Load(h, r) ==
  /\ pc[h] \in {"idle", "answered"}
  /\ calls < MaxCalls
  /\ calls' = calls + 1
  /\ pc' = [pc EXCEPT ![h] = "mutating"]
  /\ request' = [request EXCEPT ![h] = r]
  /\ base' = [base EXCEPT ![h] = record]
  /\ start' = [start EXCEPT ![h] = record.etag]
  /\ attempt' = [attempt EXCEPT ![h] = 1]
  /\ answer' = [answer EXCEPT ![h] = NoAnswer]
  /\ UNCHANGED stored

\* The call returns and its locals go.
Reply(h, status, at) ==
  /\ pc' = [pc EXCEPT ![h] = "answered"]
  /\ answer' = [answer EXCEPT ![h] = [status |-> status, at |-> at]]
  /\ base' = [base EXCEPT ![h] = NoRecord]
  /\ attempt' = [attempt EXCEPT ![h] = 1]
  /\ UNCHANGED <<stored, request, start, calls>>

\* The mutation, which may await, ends in a decision: a terminal answer is
\* given without a save, anything else goes to the backend.
Settle(h) ==
  /\ pc[h] = "mutating"
  /\ Decide(base[h].log, request[h]) # "save"
  /\ Reply(h, Decide(base[h].log, request[h]), base[h].etag)

Save(h) ==
  /\ pc[h] = "mutating"
  /\ Decide(base[h].log, request[h]) = "save"
  /\ pc' = [pc EXCEPT ![h] = "saving"]
  /\ UNCHANGED <<stored, request, base, start, attempt, answer, calls>>

\* The backend executes the write of a handler that waits for the outcome.
Execute(h) ==
  /\ pc[h] = "saving"
  /\ \/ /\ EtagMatches(base[h].etag)
        /\ Store(Written(base[h], request[h]))
        /\ pc' = [pc EXCEPT ![h] = "saved"]
     \/ /\ ~EtagMatches(base[h].etag)
        /\ pc' = [pc EXCEPT ![h] = "lost"]
        /\ UNCHANGED record
  /\ UNCHANGED <<orphans, request, base, start, attempt, answer, calls>>

ExecuteOrphan(w) ==
  /\ orphans' = orphans \ {w}
  /\ \/ EtagMatches(w.etag - 1) /\ Store(w)
     \/ ~EtagMatches(w.etag - 1) /\ UNCHANGED record
  /\ UNCHANGED <<handling, calls>>

ReplySaved(h) ==
  /\ pc[h] = "saved"
  /\ Reply(h, "saved", base[h].etag + 1)

\* Fault: the last attempt is not granted.
AttemptsLeftButOne(h) == request[h] \notin Creates /\ attempt[h] < MaxAttempts - 1

\* Fault: one attempt more than allowed.
AttemptsLeftPlusOne(h) == request[h] \notin Creates /\ attempt[h] <= MaxAttempts

\* A creation does not retry.
AttemptsLeft(h) == request[h] \notin Creates /\ attempt[h] < MaxAttempts

\* The conflicting record is read in a statement of its own (sqlite), so it
\* may be newer than the one that won.
Retry(h) ==
  /\ pc[h] = "lost"
  /\ AttemptsLeft(h)
  /\ pc' = [pc EXCEPT ![h] = "mutating"]
  /\ base' = [base EXCEPT ![h] = record]
  /\ attempt' = [attempt EXCEPT ![h] = @ + 1]
  /\ UNCHANGED <<stored, request, start, answer, calls>>

\* Fault: exhaustion is noticed one attempt too late.
ExhaustBeyond(h) ==
  /\ pc[h] = "lost"
  /\ attempt[h] > MaxAttempts
  /\ Reply(h, "conflict", record.etag)

Exhaust(h) ==
  /\ pc[h] = "lost"
  /\ ~AttemptsLeft(h)
  /\ Reply(h, "conflict", record.etag)

\* The handler dies; a write under way is out of its hands.
Crash(h) ==
  /\ pc[h] \in Busy
  /\ pc' = [pc EXCEPT ![h] = "idle"]
  /\ orphans' = orphans \cup
       (IF pc[h] = "saving" THEN {Written(base[h], request[h])} ELSE {})
  /\ request' = [request EXCEPT ![h] = NoRequest]
  /\ base' = [base EXCEPT ![h] = NoRecord]
  /\ start' = [start EXCEPT ![h] = 0]
  /\ attempt' = [attempt EXCEPT ![h] = 1]
  /\ UNCHANGED <<record, answer, calls>>

Work(h) ==
  Settle(h) \/ Save(h) \/ Execute(h) \/ ReplySaved(h) \/ Retry(h) \/ Exhaust(h)

Next ==
  \/ \E h \in Handlers, r \in Requests : Load(h, r)
  \/ \E h \in Handlers : Work(h) \/ Crash(h)
  \/ \E w \in orphans : ExecuteOrphan(w)

Spec == Init /\ [][Next]_vars

\* A handler that is alive goes on, and the backend executes its write.
FairSpec == Spec /\ \A h \in Handlers : WF_vars(Work(h))

----------------------------------------------------------------------------
(***************************************************************************)
(* Properties.                                                             *)
(***************************************************************************)

\* The types; no call takes more attempts than it is allowed.
TypeOK ==
  /\ record \in [etag : Nat, log : Seq(Requests)]
  /\ \A w \in orphans : w \in [etag : Nat \ {0}, log : Seq(Requests)]
  /\ pc \in [Handlers -> Busy \cup {"idle", "answered"}]
  /\ request \in [Handlers -> Requests \cup {NoRequest}]
  /\ base \in [Handlers -> [etag : Nat, log : Seq(Requests)]]
  /\ start \in [Handlers -> Nat]
  /\ attempt \in [Handlers -> 1 .. MaxAttempts]
  /\ answer \in [Handlers -> [status : Statuses, at : Nat]]
  /\ calls \in 0 .. MaxCalls

\* Equal etags mean equal states: every snapshot a handler works on is a
\* prefix of the history of the stored record, of the length its etag says.
SnapshotsArePrefixes ==
  /\ record.etag = Len(record.log)
  /\ \A h \in Handlers :
       /\ base[h].etag = Len(base[h].log)
       /\ base[h].etag <= record.etag
       /\ \A i \in 1 .. base[h].etag : base[h].log[i] = record.log[i]

\* No lost update: what a client was told is saved is in the stored history,
\* at the place that the etag of the answer names, ever after.
SavedIsDurable ==
  \A h \in Handlers :
    pc[h] = "answered" /\ answer[h].status = "saved" =>
      /\ answer[h].at \in DOMAIN record.log
      /\ record.log[answer[h].at] = request[h]

\* Retries of clients, handlers racing each other and writes that outlive
\* their handler never commit a slot twice.
SlotCommittedOnce ==
  \A i, j \in DOMAIN record.log :
    /\ record.log[i] \in Commits
    /\ record.log[j] \in Commits
    /\ record.log[i].slot = record.log[j].slot
    => i = j

\* A conflict is only reported to a call that was overtaken by as many other
\* saves as it was allowed attempts.
ConflictMeansOvertaken ==
  \A h \in Handlers :
    /\ pc[h] = "answered"
    /\ answer[h].status = "conflict"
    /\ request[h] \notin Creates
    => answer[h].at - start[h] >= MaxAttempts

\* Every call ends, however the others interfere: it is answered or its
\* handler dies.
Settles == \A h \in Handlers : pc[h] \in Busy ~> pc[h] \notin Busy

----------------------------------------------------------------------------
(***************************************************************************)
(* To its callers the store is a SessionLog.                               *)
(***************************************************************************)

\* What is seen of a call, from where its handler is in it.
CallOf(where, r, since, reply) ==
  IF where = "idle" THEN [phase |-> "quiet"]
  ELSE IF where = "answered"
       THEN [phase |-> "answered", request |-> r,
             status |-> reply.status, at |-> reply.at]
       ELSE [phase |-> "pending", request |-> r, since |-> since]

Log == INSTANCE SessionLog WITH
  Callers <- Handlers,
  Patience <- MaxAttempts,
  log <- record.log,
  call <- [h \in Handlers |-> CallOf(pc[h], request[h], start[h], answer[h])]

\* The optimistic loop is linearizable: every request takes effect at once,
\* on the latest state, between its call and its answer.
ImplementsSessionLog == Log!Spec

=============================================================================
