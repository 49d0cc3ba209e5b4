---------------------- MODULE CoordinatorStoreProofs ------------------------
(***************************************************************************)
(* The optimistic loop loses no update, for any number of handlers, calls  *)
(* and attempts.  SInv is the inductive invariant.  A compare-and-swap on  *)
(* the etag only protects the state if equal etags mean equal states; that *)
(* holds of snapshots held by handlers and of writes in flight because all *)
(* of them are prefixes of the stored history (Histories).  The second     *)
(* part shows that the loop implements SessionLog: each call takes effect  *)
(* at the moment at which the backend executes its save.                   *)
(***************************************************************************)
EXTENDS CoordinatorStore, SequenceTheorems, TLAPS

Prefix(s, t) ==
  /\ Len(s) <= Len(t)
  /\ \A i \in 1 .. Len(s) : s[i] = t[i]

\* What is in flight was derived from a prefix of the stored history.
Histories ==
  /\ record.etag = Len(record.log)
  /\ \A h \in Handlers :
       base[h].etag = Len(base[h].log) /\ Prefix(base[h].log, record.log)
  /\ \A w \in orphans : \E s \in Seq(Requests), r \in Requests :
       /\ w = [etag |-> Len(s) + 1, log |-> Append(s, r)]
       /\ Prefix(s, record.log)
       /\ Decide(s, r) = "save"

\* What a handler knows at each point of its call.
Progress ==
  \A h \in Handlers :
    /\ pc[h] = "saving" => Decide(base[h].log, request[h]) = "save"
    /\ pc[h] \in Busy => request[h] \in Requests
    /\ pc[h] \in Busy => base[h].etag >= start[h] + attempt[h] - 1
    /\ pc[h] = "lost" => record.etag > base[h].etag
    /\ pc[h] = "saved" => /\ record.etag > base[h].etag
                          /\ record.log[base[h].etag + 1] = request[h]

SInv ==
  /\ TypeOK
  /\ Histories
  /\ Progress
  /\ SavedIsDurable
  /\ SlotCommittedOnce
  /\ ConflictMeansOvertaken

----------------------------------------------------------------------------
(***************************************************************************)
(* Histories.                                                              *)
(***************************************************************************)

\* A prefix of full length is the whole history.
LEMMA WholePrefix ==
  ASSUME NEW R, NEW s \in Seq(R), NEW t \in Seq(R), Prefix(s, t), Len(s) = Len(t)
  PROVE  s = t
BY SeqEqual DEF Prefix

\* A history that grows keeps its prefixes.
LEMMA PrefixGrows ==
  ASSUME NEW R, NEW s \in Seq(R), NEW t \in Seq(R), NEW r \in R, Prefix(s, t)
  PROVE  Prefix(s, Append(t, r))
BY DEF Prefix

\* A history is a prefix of itself.
LEMMA PrefixRefl ==
  ASSUME NEW R, NEW s \in Seq(R)
  PROVE  Prefix(s, s)
BY DEF Prefix

\* Only a commit of a slot not yet committed is decided to be saved.
LEMMA SavedSlotIsNew ==
  ASSUME NEW log \in Seq(Requests), NEW r \in Commits, Decide(log, r) = "save",
         NEW i \in DOMAIN log, log[i] \in Commits
  PROVE  log[i].slot # r.slot
<1>1. log # <<>>
  OBVIOUS
<1>2. r \notin Creates /\ r \notin Touches
  BY RequestsAssumption DEF RequestsAssumption
<1>3. log[i] \in Entries(log) \cap Commits
  BY DEF Entries
<1> QED
  BY <1>1, <1>2, <1>3 DEF Decide

\* Settling a creation is the only decision that reports a conflict.
LEMMA OnlyCreationsConflict ==
  ASSUME NEW log \in Seq(Requests), NEW r \in Requests
  PROVE  /\ Decide(log, r) \in {"save", "idempotent", "rejected", "not_found", "conflict"}
         /\ Decide(log, r) = "conflict" => r \in Creates
BY DEF Decide, Requests

\* A write that finds the etag it was derived from extends the stored
\* history by its own request.
LEMMA StoreAppends ==
  ASSUME SInv, NEW s \in Seq(Requests), NEW r \in Requests, Prefix(s, record.log),
         EtagMatches(Len(s)),
         Store([etag |-> Len(s) + 1, log |-> Append(s, r)])
  PROVE  /\ s = record.log
         /\ record' = [etag |-> record.etag + 1, log |-> Append(record.log, r)]
<1>1. record.log \in Seq(Requests) /\ Len(s) = Len(record.log)
  BY DEF SInv, TypeOK, Histories, EtagMatches
<1>2. s = record.log
  BY <1>1, WholePrefix
<1> QED
  BY <1>1, <1>2 DEF Store, SInv, Histories

\* What a save does to everything that does not depend on program counters.
LEMMA SaveKeeps ==
  ASSUME SInv, NEW r \in Requests, Decide(record.log, r) = "save",
         record' = [etag |-> record.etag + 1, log |-> Append(record.log, r)],
         orphans' \subseteq orphans, base' = base
  PROVE  /\ record' \in [etag : Nat, log : Seq(Requests)]
         /\ Histories'
         /\ SlotCommittedOnce'
         /\ Prefix(record.log, record'.log)
<1>1. /\ record.log \in Seq(Requests) /\ record.etag \in Nat
      /\ record.etag = Len(record.log)
  BY DEF SInv, TypeOK, Histories
<1>2. /\ record' \in [etag : Nat, log : Seq(Requests)]
      /\ record'.log = Append(record.log, r)
      /\ record'.etag = Len(record'.log)
  BY <1>1
<1>4. \A s \in Seq(Requests) : Prefix(s, record.log) => Prefix(s, record'.log)
  BY <1>1, <1>2, PrefixGrows
<1>5. Histories'
  <2>1. \A h \in Handlers : base'[h].etag = Len(base'[h].log)
                              /\ Prefix(base'[h].log, record'.log)
    BY <1>4 DEF SInv, TypeOK, Histories
  <2>2. \A w \in orphans' : \E s \in Seq(Requests), q \in Requests :
          /\ w = [etag |-> Len(s) + 1, log |-> Append(s, q)]
          /\ Prefix(s, record'.log)
          /\ Decide(s, q) = "save"
    BY <1>4 DEF SInv, Histories
  <2> QED
    BY <1>2, <2>1, <2>2 DEF Histories
<1>6. SlotCommittedOnce'
  <2> SUFFICES ASSUME NEW i \in DOMAIN record'.log, NEW j \in DOMAIN record'.log,
                      record'.log[i] \in Commits, record'.log[j] \in Commits,
                      record'.log[i].slot = record'.log[j].slot,
                      i # j
               PROVE  FALSE
    BY DEF SlotCommittedOnce
  <2> DEFINE n == Len(record.log)
  <2>1. /\ i \in 1 .. n + 1 /\ j \in 1 .. n + 1
        /\ \A k \in 1 .. n : record'.log[k] = record.log[k]
        /\ record'.log[n + 1] = r
        /\ DOMAIN record.log = 1 .. n
        /\ n \in Nat
    BY <1>1, <1>2
  <2>2. CASE i \in 1 .. n /\ j \in 1 .. n
    BY <2>1, <2>2 DEF SInv, SlotCommittedOnce
  <2>3. CASE i = n + 1
    <3>1. j \in 1 .. n
      BY <2>1, <2>3
    <3> QED
      BY <1>1, <2>1, <2>3, <3>1, SavedSlotIsNew
  <2>4. CASE j = n + 1
    <3>1. i \in 1 .. n
      BY <2>1, <2>4
    <3> QED
      BY <1>1, <2>1, <2>4, <3>1, SavedSlotIsNew
  <2> QED
    BY <2>1, <2>2, <2>3, <2>4
<1>7. Prefix(record.log, record'.log)
  BY <1>1, <1>2, PrefixGrows, PrefixRefl
<1> QED
  BY <1>2, <1>5, <1>6, <1>7

----------------------------------------------------------------------------
(***************************************************************************)
(* SInv is inductive: one lemma per action.                                *)
(***************************************************************************)

\* The store starts without a record, its handlers idle.
LEMMA InitSInv == Init => SInv
<1> SUFFICES ASSUME Init PROVE SInv
  OBVIOUS
<1>1. /\ <<>> \in Seq(Requests) /\ Len(<<>>) = 0
      /\ Entries(<<>>) = {} /\ DOMAIN <<>> = {}
  BY DEF Entries
<1>2. TypeOK
  BY <1>1, StoreAssumption
    DEF StoreAssumption, Init, TypeOK, NoRecord, NoAnswer, Statuses
<1>3. Histories /\ Progress
  BY <1>1 DEF Init, Histories, Progress, NoRecord, Prefix, Busy
<1>4. SavedIsDurable /\ SlotCommittedOnce /\ ConflictMeansOvertaken
  BY <1>1 DEF Init, SavedIsDurable, SlotCommittedOnce,
              ConflictMeansOvertaken, NoRecord
<1> QED
  BY <1>2, <1>3, <1>4 DEF SInv

\* Load: the snapshot is the whole history.
LEMMA LoadSInv ==
  ASSUME SInv, NEW h \in Handlers, NEW r \in Requests, Load(h, r)
  PROVE  SInv'
<1>1. /\ UNCHANGED <<record, orphans>>
      /\ record \in [etag : Nat, log : Seq(Requests)]
      /\ record.etag = Len(record.log)
      /\ 1 \in 1 .. MaxAttempts
  BY StoreAssumption DEF StoreAssumption, SInv, TypeOK, Histories, Load, stored
<1>2. TypeOK'
  BY <1>1, StoreAssumption
    DEF StoreAssumption, SInv, TypeOK, Load, Busy, Statuses, NoAnswer
<1>3. Histories'
  BY <1>1, PrefixRefl DEF SInv, TypeOK, Histories, Load
<1>4. Progress'
  BY <1>1 DEF SInv, TypeOK, Progress, Load
<1>5. SavedIsDurable' /\ ConflictMeansOvertaken'
  BY <1>1 DEF SInv, TypeOK, SavedIsDurable, ConflictMeansOvertaken, Load
<1>6. SlotCommittedOnce'
  BY <1>1 DEF SInv, SlotCommittedOnce
<1> QED
  BY <1>2, <1>3, <1>4, <1>5, <1>6 DEF SInv

\* A handler may drop its snapshot.
LEMMA ClearedSnapshots ==
  ASSUME SInv, UNCHANGED record,
         \A k \in Handlers : base'[k] = base[k] \/ base'[k] = NoRecord
  PROVE  /\ record'.etag = Len(record'.log)
         /\ \A k \in Handlers :
              base'[k].etag = Len(base'[k].log) /\ Prefix(base'[k].log, record'.log)
<1>1. Len(<<>>) = 0 /\ Prefix(<<>>, record.log)
  BY DEF SInv, TypeOK, Prefix
<1>2. /\ record.etag = Len(record.log)
      /\ \A k \in Handlers :
           base[k].etag = Len(base[k].log) /\ Prefix(base[k].log, record.log)
  BY DEF SInv, Histories
<1>3. ASSUME NEW k \in Handlers
      PROVE  base'[k].etag = Len(base'[k].log) /\ Prefix(base'[k].log, record.log)
  <2>1. CASE base'[k] = base[k]
    BY <1>2, <2>1
  <2>2. CASE base'[k] = NoRecord
    BY <1>1, <2>2 DEF NoRecord
  <2> QED
    BY <2>1, <2>2
<1> QED
  BY <1>2, <1>3

\* A call may be answered with anything that holds of the stored history.
LEMMA ReplySInv ==
  ASSUME SInv, NEW h \in Handlers, NEW status \in Statuses, NEW at \in Nat,
         pc[h] \in Busy, Reply(h, status, at),
         status = "saved" =>
           at \in DOMAIN record.log /\ record.log[at] = request[h],
         status = "conflict" /\ request[h] \notin Creates =>
           at - start[h] >= MaxAttempts
  PROVE  SInv'
<1>1. /\ UNCHANGED <<record, orphans, request, start, calls>>
      /\ 1 \in 1 .. MaxAttempts
      /\ <<>> \in Seq(Requests)
  BY StoreAssumption DEF StoreAssumption, Reply, stored
<1>2. TypeOK'
  <2>1. NoRecord \in [etag : Nat, log : Seq(Requests)]
    BY <1>1 DEF NoRecord
  <2>2. [status |-> status, at |-> at] \in [status : Statuses, at : Nat]
    OBVIOUS
  <2>3. /\ pc' = [pc EXCEPT ![h] = "answered"]
        /\ answer' = [answer EXCEPT ![h] = [status |-> status, at |-> at]]
        /\ base' = [base EXCEPT ![h] = NoRecord]
        /\ attempt' = [attempt EXCEPT ![h] = 1]
    BY DEF Reply
  <2>4. /\ pc' \in [Handlers -> Busy \cup {"idle", "answered"}]
        /\ attempt' \in [Handlers -> 1 .. MaxAttempts]
    BY <1>1, <2>3 DEF SInv, TypeOK
  <2>5. base' \in [Handlers -> [etag : Nat, log : Seq(Requests)]]
    BY <2>1, <2>3 DEF SInv, TypeOK
  <2>6. answer' \in [Handlers -> [status : Statuses, at : Nat]]
    BY <2>2, <2>3 DEF SInv, TypeOK
  <2> QED
    BY <1>1, <2>4, <2>5, <2>6 DEF SInv, TypeOK
<1>3. Histories'
  <2>1. \A k \in Handlers : base'[k] = base[k] \/ base'[k] = NoRecord
    BY DEF SInv, TypeOK, Reply
  <2> QED
    BY <1>1, <2>1, ClearedSnapshots DEF SInv, Histories
<1>4. Progress'
  BY <1>1 DEF SInv, TypeOK, Progress, Reply, Busy
<1>5. SavedIsDurable' /\ ConflictMeansOvertaken'
  BY <1>1 DEF SInv, TypeOK, SavedIsDurable, ConflictMeansOvertaken, Reply
<1>6. SlotCommittedOnce'
  BY <1>1 DEF SInv, SlotCommittedOnce
<1> QED
  BY <1>2, <1>3, <1>4, <1>5, <1>6 DEF SInv

\* Settle: an answer without a save is never that something was saved.
LEMMA SettleSInv ==
  ASSUME SInv, NEW h \in Handlers, Settle(h)
  PROVE  SInv'
<1> DEFINE status == Decide(base[h].log, request[h])
<1>1. /\ pc[h] \in Busy /\ request[h] \in Requests
      /\ base[h].log \in Seq(Requests) /\ base[h].etag \in Nat
  BY DEF SInv, TypeOK, Progress, Settle, Busy
<1>2. /\ status \in Statuses \ {"saved"}
      /\ status = "conflict" => request[h] \in Creates
      /\ Reply(h, status, base[h].etag)
  BY <1>1, OnlyCreationsConflict DEF Settle, Statuses
<1> HIDE DEF status
<1> QED
  BY <1>1, <1>2, ReplySInv

\* ReplySaved: the etag of the answer is where the request was put.
LEMMA ReplySavedSInv ==
  ASSUME SInv, NEW h \in Handlers, ReplySaved(h)
  PROVE  SInv'
<1>1. /\ pc[h] \in Busy
      /\ base[h].etag + 1 \in DOMAIN record.log
      /\ record.log[base[h].etag + 1] = request[h]
      /\ base[h].etag + 1 \in Nat
  <2>1. pc[h] = "saved" /\ pc[h] \in Busy
    BY DEF ReplySaved, Busy
  <2>2. base[h].etag \in Nat /\ record.log \in Seq(Requests)
    BY DEF SInv, TypeOK
  <2>3. /\ record.etag > base[h].etag
        /\ record.log[base[h].etag + 1] = request[h]
    BY <2>1 DEF SInv, Progress
  <2>4. record.etag = Len(record.log) /\ record.etag \in Nat
    BY <2>2 DEF SInv, Histories
  <2> QED
    BY <2>1, <2>2, <2>3, <2>4
<1>2. Reply(h, "saved", base[h].etag + 1) /\ "saved" \in Statuses
  BY DEF ReplySaved, Statuses
<1> QED
  BY <1>1, <1>2, ReplySInv

\* Exhaust: every attempt lost to at least one other save.
LEMMA ExhaustSInv ==
  ASSUME SInv, NEW h \in Handlers, Exhaust(h)
  PROVE  SInv'
<1>1. /\ pc[h] \in Busy /\ record.etag \in Nat
      /\ request[h] \notin Creates => record.etag - start[h] >= MaxAttempts
  BY StoreAssumption
    DEF StoreAssumption, SInv, TypeOK, Progress, Exhaust, AttemptsLeft, Busy
<1>2. Reply(h, "conflict", record.etag) /\ "conflict" \in Statuses
  BY DEF Exhaust, Statuses
<1> QED
  BY <1>1, <1>2, ReplySInv

\* Save: the request is to be saved on the snapshot it was decided on.
LEMMA SaveSInv ==
  ASSUME SInv, NEW h \in Handlers, Save(h)
  PROVE  SInv'
<1>1. /\ UNCHANGED <<record, orphans, request, base, start, attempt,
                     answer, calls>>
      /\ pc' = [pc EXCEPT ![h] = "saving"]
  BY DEF Save, stored
<1>2. TypeOK' /\ Histories' /\ Progress'
  BY <1>1 DEF SInv, TypeOK, Histories, Progress, Save, Busy
<1>3. (SavedIsDurable /\ ConflictMeansOvertaken /\ SlotCommittedOnce)'
  BY <1>1 DEF SInv, TypeOK, SavedIsDurable, ConflictMeansOvertaken,
              SlotCommittedOnce
<1> QED
  BY <1>2, <1>3 DEF SInv

\* The winner's snapshot is newer than the one that lost.
LEMMA RetrySInv ==
  ASSUME SInv, NEW h \in Handlers, Retry(h)
  PROVE  SInv'
<1>1. /\ UNCHANGED <<record, orphans, request, start, answer, calls>>
      /\ pc' = [pc EXCEPT ![h] = "mutating"]
      /\ base' = [base EXCEPT ![h] = record]
      /\ attempt' = [attempt EXCEPT ![h] = attempt[h] + 1]
      /\ pc[h] = "lost" /\ attempt[h] < MaxAttempts
  BY DEF Retry, AttemptsLeft, stored
<1>2. TypeOK'
  BY <1>1, StoreAssumption DEF StoreAssumption, SInv, TypeOK, Busy
<1>3. Histories'
  BY <1>1, PrefixRefl DEF SInv, TypeOK, Histories
<1>4. Progress'
  BY <1>1 DEF SInv, TypeOK, Progress, Busy
<1>5. (SavedIsDurable /\ ConflictMeansOvertaken /\ SlotCommittedOnce)'
  BY <1>1 DEF SInv, TypeOK, SavedIsDurable, ConflictMeansOvertaken,
              SlotCommittedOnce
<1> QED
  BY <1>2, <1>3, <1>4, <1>5 DEF SInv

\* The request of a handler whose write got through stays where it was put,
\* and a write that lost stays lost.
LEMMA SavedStaysSaved ==
  ASSUME SInv, NEW k \in Handlers, record'.etag = record.etag + 1,
         \A i \in 1 .. record.etag : record'.log[i] = record.log[i]
  PROVE  /\ pc[k] = "lost" => record'.etag > base[k].etag
         /\ pc[k] = "saved" => /\ record'.etag > base[k].etag
                               /\ record'.log[base[k].etag + 1] = request[k]
<1>1. base[k].etag \in Nat /\ record.etag \in Nat
  BY DEF SInv, TypeOK
<1>2. /\ pc[k] = "lost" => record.etag > base[k].etag
      /\ pc[k] = "saved" => /\ record.etag > base[k].etag
                            /\ record.log[base[k].etag + 1] = request[k]
  BY DEF SInv, Progress
<1> QED
  BY <1>1, <1>2

\* The interesting step: the compare-and-swap succeeds on the very history
\* the write was derived from, and whoever loaded an earlier one will lose.
LEMMA ExecuteSInv ==
  ASSUME SInv, NEW h \in Handlers, Execute(h)
  PROVE  SInv'
<1>1. /\ UNCHANGED <<orphans, request, base, start, attempt, answer, calls>>
      /\ pc[h] = "saving" /\ h \in DOMAIN pc
      /\ request[h] \in Requests
      /\ base[h].log \in Seq(Requests)
      /\ base[h].etag = Len(base[h].log)
      /\ Prefix(base[h].log, record.log)
      /\ Decide(base[h].log, request[h]) = "save"
      /\ record.log \in Seq(Requests)
      /\ record.etag = Len(record.log)
  BY DEF SInv, TypeOK, Histories, Progress, Execute, Busy
<1>2. CASE /\ EtagMatches(base[h].etag)
           /\ Store(Written(base[h], request[h]))
           /\ pc' = [pc EXCEPT ![h] = "saved"]
  <2>1. /\ base[h].log = record.log
        /\ record' = [etag |-> record.etag + 1,
                      log |-> Append(record.log, request[h])]
    BY <1>1, <1>2, StoreAppends DEF Written
  <2>2. /\ record' \in [etag : Nat, log : Seq(Requests)]
        /\ Histories' /\ SlotCommittedOnce'
        /\ Prefix(record.log, record'.log)
    BY <1>1, <2>1, SaveKeeps
  <2>3. TypeOK'
    BY <1>1, <1>2, <2>2 DEF SInv, TypeOK, Busy
  <2>4. /\ record'.etag = record.etag + 1
        /\ record'.log[record.etag + 1] = request[h]
        /\ \A i \in 1 .. record.etag : record'.log[i] = record.log[i]
        /\ DOMAIN record.log = 1 .. record.etag
        /\ DOMAIN record'.log = 1 .. record.etag + 1
        /\ record.etag \in Nat
    BY <1>1, <2>1
  <2>5. Progress'
    <3> SUFFICES ASSUME NEW k \in Handlers
                 PROVE  /\ pc'[k] = "saving" => Decide(base[k].log, request[k]) = "save"
                        /\ pc'[k] \in Busy => request[k] \in Requests
                        /\ pc'[k] \in Busy => base[k].etag >= start[k] + attempt[k] - 1
                        /\ pc'[k] = "lost" => record'.etag > base[k].etag
                        /\ pc'[k] = "saved" =>
                             /\ record'.etag > base[k].etag
                             /\ record'.log[base[k].etag + 1] = request[k]
      BY <1>1 DEF Progress
    <3>1. CASE k = h
      BY <1>1, <1>2, <2>1, <2>4, <3>1 DEF SInv, TypeOK, Histories, Progress, Busy
    <3>2. CASE k # h
      <4>1. pc'[k] = pc[k]
        BY <1>2, <3>2 DEF SInv, TypeOK
      <4>2. /\ pc[k] = "saving" => Decide(base[k].log, request[k]) = "save"
            /\ pc[k] \in Busy => request[k] \in Requests
            /\ pc[k] \in Busy => base[k].etag >= start[k] + attempt[k] - 1
        BY DEF SInv, Progress
      <4> QED
        BY <2>4, <4>1, <4>2, SavedStaysSaved
    <3> QED
      BY <3>1, <3>2
  <2>6. \A k \in Handlers : pc'[k] = "answered" => pc[k] = "answered"
    BY <1>2 DEF SInv, TypeOK
  <2>7. SavedIsDurable'
    BY <1>1, <2>4, <2>6 DEF SInv, SavedIsDurable
  <2>8. ConflictMeansOvertaken'
    BY <1>1, <2>6 DEF SInv, ConflictMeansOvertaken
  <2> QED
    BY <2>2, <2>3, <2>5, <2>7, <2>8 DEF SInv
<1>3. CASE /\ ~EtagMatches(base[h].etag)
           /\ pc' = [pc EXCEPT ![h] = "lost"]
           /\ UNCHANGED record
  <2>1. record.etag > base[h].etag
    BY <1>1, <1>3 DEF EtagMatches, Prefix
  <2>2. TypeOK' /\ Histories' /\ Progress'
    BY <1>1, <1>3, <2>1 DEF SInv, TypeOK, Histories, Progress, Busy
  <2>3. (SavedIsDurable /\ ConflictMeansOvertaken /\ SlotCommittedOnce)'
    BY <1>1, <1>3 DEF SInv, TypeOK, SavedIsDurable, ConflictMeansOvertaken,
                      SlotCommittedOnce
  <2> QED
    BY <2>2, <2>3 DEF SInv
<1> QED
  BY <1>2, <1>3 DEF Execute

\* A write that outlived its handler is as harmless as one that did not.
LEMMA ExecuteOrphanSInv ==
  ASSUME SInv, NEW w \in orphans, ExecuteOrphan(w)
  PROVE  SInv'
<1>1. /\ UNCHANGED <<pc, request, base, start, attempt, answer, calls>>
      /\ orphans' \subseteq orphans
  BY DEF ExecuteOrphan, handling
<1>2. PICK s \in Seq(Requests), r \in Requests :
        /\ w = [etag |-> Len(s) + 1, log |-> Append(s, r)]
        /\ Prefix(s, record.log)
        /\ Decide(s, r) = "save"
  BY DEF SInv, Histories
<1>3. CASE EtagMatches(w.etag - 1) /\ Store(w)
  <2>0. w.etag - 1 = Len(s)
    BY <1>2
  <2>1. /\ s = record.log
        /\ record' = [etag |-> record.etag + 1, log |-> Append(record.log, r)]
    BY <1>2, <1>3, <2>0, StoreAppends
  <2>2. /\ record' \in [etag : Nat, log : Seq(Requests)]
        /\ Histories' /\ SlotCommittedOnce'
    BY <1>1, <1>2, <2>1, SaveKeeps
  <2>3. /\ record'.etag = record.etag + 1
        /\ \A i \in 1 .. record.etag : record'.log[i] = record.log[i]
        /\ DOMAIN record.log = 1 .. record.etag
        /\ DOMAIN record'.log = 1 .. record.etag + 1
        /\ record.etag \in Nat
    BY <2>1 DEF SInv, TypeOK, Histories
  <2>4. TypeOK'
    BY <1>1, <2>2 DEF SInv, TypeOK
  <2>5. Progress'
    <3>1. ASSUME NEW k \in Handlers
          PROVE  /\ pc[k] = "lost" => record'.etag > base[k].etag
                 /\ pc[k] = "saved" =>
                      /\ record'.etag > base[k].etag
                      /\ record'.log[base[k].etag + 1] = request[k]
      BY <2>3, SavedStaysSaved
    <3> QED
      BY <1>1, <3>1 DEF SInv, Progress
  <2>6. SavedIsDurable'
    BY <1>1, <2>3 DEF SInv, SavedIsDurable
  <2>7. ConflictMeansOvertaken'
    BY <1>1 DEF SInv, ConflictMeansOvertaken
  <2> QED
    BY <2>2, <2>4, <2>5, <2>6, <2>7 DEF SInv
<1>4. CASE UNCHANGED record
  <2>1. TypeOK' /\ Histories' /\ Progress'
    BY <1>1, <1>4 DEF SInv, TypeOK, Histories, Progress
  <2>2. (SavedIsDurable /\ ConflictMeansOvertaken /\ SlotCommittedOnce)'
    BY <1>1, <1>4 DEF SInv, SavedIsDurable, ConflictMeansOvertaken,
                      SlotCommittedOnce
  <2> QED
    BY <2>1, <2>2 DEF SInv
<1> QED
  BY <1>3, <1>4 DEF ExecuteOrphan

\* Crash: a write under way was derived from a prefix of the history.
LEMMA CrashSInv ==
  ASSUME SInv, NEW h \in Handlers, Crash(h)
  PROVE  SInv'
<1>1. /\ UNCHANGED <<record, answer, calls>>
      /\ pc' = [pc EXCEPT ![h] = "idle"]
      /\ request' = [request EXCEPT ![h] = NoRequest]
      /\ base' = [base EXCEPT ![h] = NoRecord]
      /\ start' = [start EXCEPT ![h] = 0]
      /\ attempt' = [attempt EXCEPT ![h] = 1]
      /\ 1 \in 1 .. MaxAttempts
      /\ NoRecord \in [etag : Nat, log : Seq(Requests)]
      /\ NoRecord.etag = 0 /\ NoRecord.log = <<>>
  BY StoreAssumption DEF StoreAssumption, Crash, NoRecord
<1>2. \A w \in orphans' : w \in orphans \/
        /\ pc[h] = "saving"
        /\ w = [etag |-> Len(base[h].log) + 1,
                log |-> Append(base[h].log, request[h])]
        /\ base[h].log \in Seq(Requests) /\ request[h] \in Requests
        /\ Prefix(base[h].log, record.log)
        /\ Decide(base[h].log, request[h]) = "save"
  <2>1. CASE pc[h] = "saving"
    <3>1. /\ base[h].log \in Seq(Requests) /\ request[h] \in Requests
          /\ base[h].etag = Len(base[h].log)
          /\ Prefix(base[h].log, record.log)
          /\ Decide(base[h].log, request[h]) = "save"
      BY <2>1 DEF SInv, TypeOK, Histories, Progress, Busy
    <3>2. orphans' = orphans \cup {Written(base[h], request[h])}
      BY <2>1 DEF Crash
    <3> QED
      BY <2>1, <3>1, <3>2 DEF Written
  <2>2. CASE pc[h] # "saving"
    BY <2>2 DEF Crash
  <2> QED
    BY <2>1, <2>2
<1>3. TypeOK'
  <2>1. ASSUME NEW s \in Seq(Requests), NEW r \in Requests
        PROVE  [etag |-> Len(s) + 1, log |-> Append(s, r)]
                 \in [etag : Nat \ {0}, log : Seq(Requests)]
    OBVIOUS
  <2>2. \A w \in orphans : w \in [etag : Nat \ {0}, log : Seq(Requests)]
    BY DEF SInv, TypeOK
  <2>3. \A w \in orphans' : w \in [etag : Nat \ {0}, log : Seq(Requests)]
    BY <1>2, <2>1, <2>2
  <2> QED
    BY <1>1, <2>3 DEF SInv, TypeOK, Busy
<1>4. Histories'
  <2>1. \A w \in orphans' : \E s \in Seq(Requests), r \in Requests :
          /\ w = [etag |-> Len(s) + 1, log |-> Append(s, r)]
          /\ Prefix(s, record.log)
          /\ Decide(s, r) = "save"
    BY <1>2 DEF SInv, Histories
  <2>2. \A k \in Handlers : base'[k] = base[k] \/ base'[k] = NoRecord
    BY <1>1 DEF SInv, TypeOK
  <2>3. /\ record'.etag = Len(record'.log)
        /\ \A k \in Handlers :
             base'[k].etag = Len(base'[k].log) /\ Prefix(base'[k].log, record'.log)
    BY <1>1, <2>2, ClearedSnapshots
  <2> QED
    BY <1>1, <2>1, <2>3 DEF Histories
<1>5. Progress'
  BY <1>1 DEF SInv, TypeOK, Progress, Busy
<1>6. (SavedIsDurable /\ ConflictMeansOvertaken /\ SlotCommittedOnce)'
  BY <1>1 DEF SInv, TypeOK, SavedIsDurable, ConflictMeansOvertaken,
              SlotCommittedOnce
<1> QED
  BY <1>3, <1>4, <1>5, <1>6 DEF SInv

\* Every step preserves SInv.
LEMMA NextSInv == SInv /\ [Next]_vars => SInv'
<1> SUFFICES ASSUME SInv, [Next]_vars PROVE SInv'
  OBVIOUS
<1>1. CASE UNCHANGED vars
  BY <1>1 DEF vars, stored, handling, SInv, TypeOK, Histories, Progress,
              SavedIsDurable, SlotCommittedOnce,
              ConflictMeansOvertaken
<1>2. ASSUME NEW h \in Handlers, NEW r \in Requests, Load(h, r) PROVE SInv'
  BY <1>2, LoadSInv
<1>3. ASSUME NEW h \in Handlers, Work(h) PROVE SInv'
  BY <1>3, SettleSInv, SaveSInv, ExecuteSInv, ReplySavedSInv, RetrySInv,
     ExhaustSInv DEF Work
<1>4. ASSUME NEW h \in Handlers, Crash(h) PROVE SInv'
  BY <1>4, CrashSInv
<1>5. ASSUME NEW w \in orphans, ExecuteOrphan(w) PROVE SInv'
  BY <1>5, ExecuteOrphanSInv
<1> QED
  BY <1>1, <1>2, <1>3, <1>4, <1>5 DEF Next

----------------------------------------------------------------------------
(***************************************************************************)
(* The theorems.                                                           *)
(***************************************************************************)

\* SInv holds in every reachable state.
THEOREM StoreInvariance == Spec => []SInv
BY InitSInv, NextSInv, PTL DEF Spec

\* Types, and no call gets more attempts than it is allowed.
THEOREM StoreTypeCorrect == Spec => []TypeOK
BY StoreInvariance, PTL DEF SInv

\* Equal etags mean equal states, for whoever holds a snapshot.
THEOREM SnapshotsArePrefixesAlways == Spec => []SnapshotsArePrefixes
<1>1. SInv => SnapshotsArePrefixes
  BY DEF SInv, TypeOK, Histories, SnapshotsArePrefixes, Prefix
<1> QED
  BY <1>1, StoreInvariance, PTL

\* An update that was answered as saved is never lost.
THEOREM NoLostUpdate == Spec => []SavedIsDurable
BY StoreInvariance, PTL DEF SInv

\* A slot is committed at most once, whoever retries, crashes or races.
THEOREM AtMostOneCommitPerSlot == Spec => []SlotCommittedOnce
BY StoreInvariance, PTL DEF SInv

\* A call is only given up when others got through at every attempt.
THEOREM ConflictOnlyWhenOvertaken == Spec => []ConflictMeansOvertaken
BY StoreInvariance, PTL DEF SInv

----------------------------------------------------------------------------
(***************************************************************************)
(* To its callers the optimistic loop is a SessionLog: every step of the   *)
(* handlers and of the backend is one of the log or is not seen.  A write  *)
(* takes effect when the backend executes it, dead handler or not; an      *)
(* answer without a save is about the snapshot that was loaded, which is   *)
(* what the log was at some moment of the call.                            *)
(***************************************************************************)

Call == [h \in Handlers |-> CallOf(pc[h], request[h], start[h], answer[h])]

\* No two calls are told of the same entry.
EntriesOwned ==
  \A h, k \in Handlers :
    h # k /\ pc[h] = "saved" =>
      /\ pc[k] = "saved" => base[k].etag # base[h].etag
      /\ pc[k] = "answered" /\ answer[k].status = "saved" =>
           answer[k].at # base[h].etag + 1

RInv == SInv /\ EntriesOwned

----------------------------------------------------------------------------
(***************************************************************************)
(* RInv is inductive.                                                      *)
(***************************************************************************)

\* Only a write that got through makes a new owner, of the newest entry.
LEMMA NextOwned == RInv /\ [Next]_vars => EntriesOwned'
<1> SUFFICES ASSUME RInv, [Next]_vars PROVE EntriesOwned'
  OBVIOUS
<1> USE DEF RInv
<1>1. CASE UNCHANGED vars
  BY <1>1 DEF vars, handling, EntriesOwned
<1>2. ASSUME NEW h \in Handlers, NEW r \in Requests, Load(h, r)
      PROVE  EntriesOwned'
  BY <1>2 DEF SInv, TypeOK, Load, EntriesOwned
<1>3. ASSUME NEW h \in Handlers, Settle(h) \/ Exhaust(h)
      PROVE  EntriesOwned'
  <2>1. PICK status \in Statuses \ {"saved"}, at \in Nat : Reply(h, status, at)
    <3>1. CASE Settle(h)
      <4>1. base[h].log \in Seq(Requests) /\ request[h] \in Requests
            /\ base[h].etag \in Nat
        BY <3>1 DEF SInv, TypeOK, Progress, Settle, Busy
      <4> QED
        BY <3>1, <4>1, OnlyCreationsConflict DEF Settle, Statuses
    <3>2. CASE Exhaust(h)
      BY <3>2 DEF SInv, TypeOK, Exhaust, Statuses
    <3> QED
      BY <1>3, <3>1, <3>2
  <2> QED
    BY <2>1 DEF SInv, TypeOK, Reply, EntriesOwned
<1>4. ASSUME NEW h \in Handlers, Save(h) \/ Retry(h) \/ Crash(h)
      PROVE  EntriesOwned'
  <2>1. /\ pc'[h] \notin {"saved", "answered"}
        /\ UNCHANGED answer
        /\ \A k \in Handlers \ {h} : pc'[k] = pc[k] /\ base'[k] = base[k]
    <3>1. CASE Save(h)
      BY <3>1 DEF SInv, TypeOK, Save
    <3>2. CASE Retry(h)
      BY <3>2 DEF SInv, TypeOK, Retry
    <3>3. CASE Crash(h)
      BY <3>3 DEF SInv, TypeOK, Crash
    <3> QED
      BY <1>4, <3>1, <3>2, <3>3
  <2> QED
    BY <2>1 DEF EntriesOwned
<1>5. ASSUME NEW h \in Handlers, Execute(h)
      PROVE  EntriesOwned'
  <2>1. CASE EtagMatches(base[h].etag) /\ pc' = [pc EXCEPT ![h] = "saved"]
    <3>1. ASSUME NEW k \in Handlers, k # h
          PROVE  /\ pc[k] = "saved" => base[k].etag # base[h].etag
                 /\ pc[k] = "answered" /\ answer[k].status = "saved" =>
                      answer[k].at # base[h].etag + 1
      <4>1. base[h].etag = record.etag /\ record.etag \in Nat
            /\ base[k].etag \in Nat /\ record.etag = Len(record.log)
            /\ record.log \in Seq(Requests)
        BY <2>1 DEF SInv, TypeOK, Histories, EtagMatches
      <4>2. pc[k] = "saved" => record.etag > base[k].etag
        BY DEF SInv, Progress
      <4>3. pc[k] = "answered" /\ answer[k].status = "saved" =>
              answer[k].at \in DOMAIN record.log
        BY DEF SInv, SavedIsDurable
      <4> QED
        BY <4>1, <4>2, <4>3
    <3> QED
      BY <1>5, <2>1, <3>1 DEF SInv, TypeOK, Execute, EntriesOwned
  <2>2. CASE pc' = [pc EXCEPT ![h] = "lost"]
    BY <1>5, <2>2 DEF SInv, TypeOK, Execute, EntriesOwned
  <2> QED
    BY <1>5, <2>1, <2>2 DEF Execute
<1>6. ASSUME NEW h \in Handlers, ReplySaved(h)
      PROVE  EntriesOwned'
  <2>1. /\ pc[h] = "saved" /\ pc'[h] = "answered"
        /\ answer'[h].at = base[h].etag + 1
        /\ \A k \in Handlers \ {h} :
             pc'[k] = pc[k] /\ base'[k] = base[k] /\ answer'[k] = answer[k]
    BY <1>6 DEF SInv, TypeOK, ReplySaved, Reply
  <2>2. \A k \in Handlers : base[k].etag \in Nat
    BY DEF SInv, TypeOK
  <2> QED
    BY <2>1, <2>2 DEF EntriesOwned
<1>7. ASSUME NEW w \in orphans, ExecuteOrphan(w)
      PROVE  EntriesOwned'
  BY <1>7 DEF ExecuteOrphan, handling, EntriesOwned
<1> QED
  BY <1>1, <1>2, <1>3, <1>4, <1>5, <1>6, <1>7 DEF Next, Work

\* RInv holds in every reachable state.
LEMMA OwnershipInvariance == Spec => []RInv
<1>1. Init => RInv
  BY InitSInv DEF Init, RInv, EntriesOwned
<1>2. RInv /\ [Next]_vars => RInv'
  BY NextSInv, NextOwned DEF RInv
<1> QED
  BY <1>1, <1>2, PTL DEF Spec

----------------------------------------------------------------------------
(***************************************************************************)
(* The steps.                                                              *)
(***************************************************************************)

\* What a handler does is seen of its own call only.
LEMMA OnlyOwnCallChanges ==
  ASSUME SInv, NEW h \in Handlers, NEW seen,
         \A k \in Handlers \ {h} :
           CallOf(pc[k], request[k], start[k], answer[k])'
             = CallOf(pc[k], request[k], start[k], answer[k]),
         CallOf(pc[h], request[h], start[h], answer[h])' = seen
  PROVE  Call' = [Call EXCEPT ![h] = seen]
BY DEF Call

\* A handler in the middle of its call is seen as a pending call.
LEMMA BusyIsPending ==
  ASSUME NEW where \in Busy, NEW r, NEW since, NEW reply
  PROVE  CallOf(where, r, since, reply) = Log!Pending(r, since)
BY DEF CallOf, Busy, Log!Pending

\* Load: the call begins with the log of that moment.
LEMMA LoadInvokes ==
  ASSUME RInv, NEW h \in Handlers, NEW r \in Requests, Load(h, r)
  PROVE  Log!Invoke(h, r)
<1>1. /\ record.etag = Len(record.log) /\ UNCHANGED record
      /\ pc[h] \in {"idle", "answered"}
      /\ pc' = [pc EXCEPT ![h] = "mutating"]
      /\ request' = [request EXCEPT ![h] = r]
      /\ start' = [start EXCEPT ![h] = record.etag]
      /\ answer' = [answer EXCEPT ![h] = NoAnswer]
  BY DEF RInv, SInv, Histories, Load, stored
<1>2. CallOf(pc[h], request[h], start[h], answer[h])'
        = Log!Pending(r, Len(record.log))
  BY <1>1, BusyIsPending DEF RInv, SInv, TypeOK, Busy
<1>3. \A k \in Handlers \ {h} :
        CallOf(pc[k], request[k], start[k], answer[k])'
          = CallOf(pc[k], request[k], start[k], answer[k])
  BY <1>1 DEF RInv, SInv, TypeOK
<1>4. Call' = [Call EXCEPT ![h] = Log!Pending(r, Len(record.log))]
  BY <1>2, <1>3, OnlyOwnCallChanges DEF RInv
<1>5. Call[h].phase # "pending"
  BY <1>1 DEF Call, CallOf
<1> QED
  BY <1>1, <1>4, <1>5 DEF Log!Invoke, Call

\* What an answer is seen as.
LEMMA ReplyAnswers ==
  ASSUME RInv, NEW h \in Handlers, NEW status \in Statuses, NEW at \in Nat,
         pc[h] \in Busy, Reply(h, status, at)
  PROVE  /\ Call[h] = Log!Pending(request[h], start[h])
         /\ Call' = [Call EXCEPT ![h] = Log!Answered(@.request, status, at)]
         /\ UNCHANGED record
<1>1. Call[h] = Log!Pending(request[h], start[h])
  BY BusyIsPending DEF Call
<1>2. /\ UNCHANGED record /\ UNCHANGED request /\ UNCHANGED start
      /\ pc' = [pc EXCEPT ![h] = "answered"]
      /\ answer' = [answer EXCEPT ![h] = [status |-> status, at |-> at]]
  BY DEF Reply, stored
<1>3. CallOf(pc[h], request[h], start[h], answer[h])'
        = Log!Answered(request[h], status, at)
  BY <1>2 DEF RInv, SInv, TypeOK, CallOf, Log!Answered
<1>4. \A k \in Handlers \ {h} :
        CallOf(pc[k], request[k], start[k], answer[k])'
          = CallOf(pc[k], request[k], start[k], answer[k])
  BY <1>2 DEF RInv, SInv, TypeOK
<1>5. Call' = [Call EXCEPT ![h] = Log!Answered(request[h], status, at)]
  BY <1>3, <1>4, OnlyOwnCallChanges DEF RInv
<1>6. Call[h].request = request[h]
  BY <1>1 DEF Log!Pending
<1> QED
  BY <1>1, <1>2, <1>5, <1>6

\* A prefix of a history is what the history was at its length.
LEMMA PrefixIsSubSeq ==
  ASSUME NEW R, NEW s \in Seq(R), NEW t \in Seq(R), Prefix(s, t)
  PROVE  SubSeq(t, 1, Len(s)) = s
<1>1. /\ SubSeq(t, 1, Len(s)) \in Seq(R)
      /\ Len(SubSeq(t, 1, Len(s))) = Len(s)
      /\ \A i \in 1 .. Len(s) : SubSeq(t, 1, Len(s))[i] = t[i]
  BY DEF Prefix
<1> QED
  BY <1>1, SeqEqual DEF Prefix

\* The log's callers are decided about as the handlers decide.
LEMMA SameDecision == \A log, r : Log!Decide(log, r) = Decide(log, r)
BY DEF Decide, Log!Decide, Commits, Log!Commits, Entries, Log!Entries

\* Settle: the answer is about the log as it was when the snapshot was taken.
LEMMA SettleAnswers ==
  ASSUME RInv, NEW h \in Handlers, Settle(h)
  PROVE  \E at \in 0 .. Len(record.log) : Log!AnswerUnsaved(h, at)
<1> DEFINE at == base[h].etag
           status == Decide(base[h].log, request[h])
<1>1. /\ pc[h] \in Busy /\ request[h] \in Requests
      /\ base[h].log \in Seq(Requests) /\ record.log \in Seq(Requests)
      /\ at \in Nat /\ start[h] \in Nat /\ attempt[h] \in Nat \ {0}
      /\ at = Len(base[h].log) /\ Prefix(base[h].log, record.log)
      /\ at >= start[h] + attempt[h] - 1
      /\ status # "save" /\ Reply(h, status, at)
  BY StoreAssumption DEF StoreAssumption, RInv, SInv, TypeOK, Histories,
     Progress, Settle, Busy
<1>2. status \in Statuses
  BY <1>1, OnlyCreationsConflict DEF Statuses
<1>3. at \in 0 .. Len(record.log) /\ start[h] <= at
  BY <1>1 DEF Prefix
<1>4. Decide(SubSeq(record.log, 1, at), request[h]) = status
  BY <1>1, PrefixIsSubSeq
<1> HIDE DEF at, status
<1>5. /\ Call[h] = Log!Pending(request[h], start[h])
      /\ Call' = [Call EXCEPT ![h] = Log!Answered(@.request, status, at)]
      /\ UNCHANGED record
  BY <1>1, <1>2, ReplyAnswers
<1>6. /\ Call[h].phase = "pending" /\ Call[h].since = start[h]
      /\ Call[h].request = request[h]
  BY <1>5 DEF Log!Pending
<1>7. Log!AnswerUnsaved(h, at)
  BY <1>1, <1>3, <1>4, <1>5, <1>6, SameDecision DEF Log!AnswerUnsaved, Call
<1> QED
  BY <1>3, <1>7

\* ReplySaved: the entry was put there during the call and nobody else was
\* told of it.
LEMMA ReplySavedAnswers ==
  ASSUME RInv, NEW h \in Handlers, ReplySaved(h)
  PROVE  \E at \in 1 .. Len(record.log) : Log!AnswerSaved(h, at)
<1> DEFINE at == base[h].etag + 1
<1>1. /\ pc[h] = "saved" /\ pc[h] \in Busy
      /\ record.log \in Seq(Requests) /\ record.etag = Len(record.log)
      /\ base[h].etag \in Nat /\ record.etag \in Nat
      /\ start[h] \in Nat /\ attempt[h] \in Nat \ {0}
      /\ base[h].etag >= start[h] + attempt[h] - 1
      /\ record.etag > base[h].etag /\ record.log[at] = request[h]
      /\ Reply(h, "saved", at)
  BY StoreAssumption DEF StoreAssumption, RInv, SInv, TypeOK, Histories,
     Progress, ReplySaved, Busy
<1>2. at \in 1 .. Len(record.log) /\ start[h] < at /\ at \in Nat
  BY <1>1
<1>3. \A k \in Handlers : Call[k] # Log!Answered(request[h], "saved", at)
  <2> SUFFICES ASSUME NEW k \in Handlers,
                      Call[k] = Log!Answered(request[h], "saved", at)
               PROVE  FALSE
    OBVIOUS
  <2>1. /\ Call[k].phase = "answered" /\ Call[k].status = "saved"
        /\ Call[k].at = at
    BY DEF Log!Answered
  <2>2. pc[k] = "answered"
    BY <2>1 DEF Call, CallOf
  <2>3. answer[k].status = "saved" /\ answer[k].at = at
    BY <2>1, <2>2 DEF Call, CallOf
  <2> QED
    BY <1>1, <2>2, <2>3 DEF RInv, EntriesOwned
<1>4. record.log[at] = request[h]
  BY <1>1
<1>5. "saved" \in Statuses
  BY DEF Statuses
<1>6. Reply(h, "saved", at)
  BY <1>1
<1> HIDE DEF at
<1>7. /\ Call[h] = Log!Pending(request[h], start[h])
      /\ Call' = [Call EXCEPT ![h] = Log!Answered(@.request, "saved", at)]
      /\ UNCHANGED record
  BY <1>1, <1>2, <1>5, <1>6, ReplyAnswers
<1>8. /\ Call[h].phase = "pending" /\ Call[h].since = start[h]
      /\ Call[h].request = request[h]
  BY <1>7 DEF Log!Pending
<1>9. Log!AnswerSaved(h, at)
  BY <1>2, <1>3, <1>4, <1>7, <1>8 DEF Log!AnswerSaved, Call
<1> QED
  BY <1>2, <1>9

\* Exhaust: a creation loses to another creation, and anything else was
\* overtaken at each of its attempts.
LEMMA ExhaustAnswers ==
  ASSUME RInv, NEW h \in Handlers, Exhaust(h)
  PROVE  \E at \in 0 .. Len(record.log) :
           Log!AnswerUnsaved(h, at) \/ Log!GiveUp(h, at)
<1> DEFINE at == Len(record.log)
<1>1. /\ pc[h] \in Busy /\ request[h] \in Requests
      /\ record.log \in Seq(Requests) /\ record.etag = at
      /\ at \in Nat /\ start[h] \in Nat /\ base[h].etag \in Nat
      /\ attempt[h] \in Nat \ {0} /\ MaxAttempts \in Nat
      /\ base[h].etag >= start[h] + attempt[h] - 1
      /\ at > base[h].etag
      /\ request[h] \notin Creates => attempt[h] >= MaxAttempts
      /\ Reply(h, "conflict", at)
  BY StoreAssumption DEF StoreAssumption, RInv, SInv, TypeOK, Histories,
     Progress, Exhaust, AttemptsLeft, Busy
<1>2. /\ at \in 0 .. Len(record.log) /\ start[h] <= at
      /\ request[h] \notin Creates => at - start[h] >= MaxAttempts
      /\ record.log # <<>>
  BY <1>1
<1>3. Decide(record.log, request[h]) = "conflict" \/ request[h] \notin Creates
  BY <1>2, RequestsAssumption DEF RequestsAssumption, Decide
<1>4. SubSeq(record.log, 1, at) = record.log
  BY <1>1, PrefixRefl, PrefixIsSubSeq
<1>5. "conflict" \in Statuses
  BY DEF Statuses
<1> HIDE DEF at
<1>6. /\ Call[h] = Log!Pending(request[h], start[h])
      /\ Call' = [Call EXCEPT ![h] = Log!Answered(@.request, "conflict", at)]
      /\ UNCHANGED record
  BY <1>1, <1>5, ReplyAnswers
<1>7. /\ Call[h].phase = "pending" /\ Call[h].since = start[h]
      /\ Call[h].request = request[h]
  BY <1>6 DEF Log!Pending
<1>8. CASE request[h] \in Creates
  <2>1. Log!AnswerUnsaved(h, at)
    BY <1>2, <1>3, <1>4, <1>6, <1>7, <1>8, SameDecision
      DEF Log!AnswerUnsaved, Call
  <2> QED
    BY <1>2, <2>1
<1>9. CASE request[h] \notin Creates
  <2>1. Log!GiveUp(h, at)
    BY <1>2, <1>6, <1>7, <1>9 DEF Log!GiveUp, Call
  <2> QED
    BY <1>2, <2>1
<1> QED
  BY <1>8, <1>9

\* What the backend makes of a write is a request that takes effect, or
\* nothing.
LEMMA ExecuteTakesEffect ==
  ASSUME RInv, NEW h \in Handlers, Execute(h)
  PROVE  \/ \E r \in Requests : Log!TakeEffect(r)
         \/ UNCHANGED <<record.log, Call>>
<1>1. /\ pc[h] = "saving" /\ request[h] \in Requests
      /\ base[h].log \in Seq(Requests)
      /\ base[h].etag = Len(base[h].log)
      /\ Prefix(base[h].log, record.log)
      /\ Decide(base[h].log, request[h]) = "save"
      /\ UNCHANGED request /\ UNCHANGED start /\ UNCHANGED answer
  BY DEF RInv, SInv, TypeOK, Histories, Progress, Execute, Busy
<1>2. \E where \in {"saved", "lost"} : pc' = [pc EXCEPT ![h] = where]
  BY DEF Execute
<1>3. UNCHANGED Call
  BY <1>1, <1>2 DEF RInv, SInv, TypeOK, Call, CallOf
<1>4. CASE EtagMatches(base[h].etag) /\ Store(Written(base[h], request[h]))
  <2>1. /\ base[h].log = record.log
        /\ record'.log = Append(record.log, request[h])
    BY <1>1, <1>4, StoreAppends DEF Written, RInv
  <2>2. Log!TakeEffect(request[h])
    BY <1>1, <1>3, <2>1, SameDecision DEF Log!TakeEffect, Call
  <2> QED
    BY <1>1, <2>2
<1>5. CASE UNCHANGED record
  BY <1>3, <1>5
<1> QED
  BY <1>4, <1>5 DEF Execute

LEMMA ExecuteOrphanTakesEffect ==
  ASSUME RInv, NEW w \in orphans, ExecuteOrphan(w)
  PROVE  \/ \E r \in Requests : Log!TakeEffect(r)
         \/ UNCHANGED <<record.log, Call>>
<1>1. UNCHANGED Call
  BY DEF ExecuteOrphan, handling, Call
<1>2. PICK s \in Seq(Requests), r \in Requests :
        /\ w = [etag |-> Len(s) + 1, log |-> Append(s, r)]
        /\ Prefix(s, record.log)
        /\ Decide(s, r) = "save"
  BY DEF RInv, SInv, Histories
<1>3. CASE EtagMatches(w.etag - 1) /\ Store(w)
  <2>1. w.etag - 1 = Len(s)
    BY <1>2
  <2>2. s = record.log /\ record'.log = Append(record.log, r)
    BY <1>2, <1>3, <2>1, StoreAppends DEF RInv
  <2>3. Log!TakeEffect(r)
    BY <1>1, <1>2, <2>2, SameDecision DEF Log!TakeEffect, Call
  <2> QED
    BY <2>3
<1>4. CASE UNCHANGED record
  BY <1>1, <1>4
<1> QED
  BY <1>3, <1>4 DEF ExecuteOrphan

\* Between two awaits of a call, and when it starts over, nothing is seen.
LEMMA SaveRetryUnseen ==
  ASSUME RInv, NEW h \in Handlers, Save(h) \/ Retry(h)
  PROVE  UNCHANGED <<record.log, Call>>
<1>1. /\ pc[h] \in Busy /\ \E where \in Busy : pc' = [pc EXCEPT ![h] = where]
      /\ UNCHANGED record /\ UNCHANGED request
      /\ UNCHANGED start /\ UNCHANGED answer
  BY DEF Save, Retry, Busy, stored
<1> QED
  BY <1>1 DEF RInv, SInv, TypeOK, Call, CallOf, Busy

\* A crash is seen as a caller that has left.
LEMMA CrashLeaves ==
  ASSUME RInv, NEW h \in Handlers, Crash(h)
  PROVE  Log!Leave(h)
<1>1. /\ UNCHANGED record /\ UNCHANGED answer
      /\ pc' = [pc EXCEPT ![h] = "idle"]
      /\ request' = [request EXCEPT ![h] = NoRequest]
      /\ start' = [start EXCEPT ![h] = 0]
  BY DEF Crash
<1>2. CallOf(pc[h], request[h], start[h], answer[h])' = Log!Quiet
  BY <1>1 DEF RInv, SInv, TypeOK, CallOf, Log!Quiet
<1>3. \A k \in Handlers \ {h} :
        CallOf(pc[k], request[k], start[k], answer[k])'
          = CallOf(pc[k], request[k], start[k], answer[k])
  BY <1>1 DEF RInv, SInv, TypeOK
<1>4. Call' = [Call EXCEPT ![h] = Log!Quiet]
  BY <1>2, <1>3, OnlyOwnCallChanges DEF RInv
<1> QED
  BY <1>1, <1>4 DEF Log!Leave, Call

----------------------------------------------------------------------------
(***************************************************************************)
(* The theorem.                                                            *)
(***************************************************************************)

\* Every step is one of the log or is not seen.
LEMMA StepRefines == RInv /\ [Next]_vars => [Log!Next]_<<record.log, Call>>
<1> SUFFICES ASSUME RInv, [Next]_vars
             PROVE  Log!Next \/ UNCHANGED <<record.log, Call>>
  OBVIOUS
<1>1. CASE UNCHANGED vars
  BY <1>1 DEF vars, stored, handling, Call
<1>2. ASSUME NEW h \in Handlers, NEW r \in Requests, Load(h, r)
      PROVE  Log!Next
  BY <1>2, LoadInvokes
    DEF Log!Next, Log!Requests, Log!Commits, Requests, Commits
<1>3. ASSUME NEW h \in Handlers, Work(h)
      PROVE  Log!Next \/ UNCHANGED <<record.log, Call>>
  <2>1. CASE Settle(h)
    BY <2>1, SettleAnswers DEF Log!Next
  <2>2. CASE Save(h) \/ Retry(h)
    BY <2>2, SaveRetryUnseen
  <2>3. CASE Execute(h)
    BY <2>3, ExecuteTakesEffect
      DEF Log!Next, Log!Requests, Log!Commits, Requests, Commits
  <2>4. CASE ReplySaved(h)
    BY <2>4, ReplySavedAnswers DEF Log!Next
  <2>5. CASE Exhaust(h)
    BY <2>5, ExhaustAnswers DEF Log!Next
  <2> QED
    BY <1>3, <2>1, <2>2, <2>3, <2>4, <2>5 DEF Work
<1>4. ASSUME NEW h \in Handlers, Crash(h)
      PROVE  Log!Next
  BY <1>4, CrashLeaves DEF Log!Next
<1>5. ASSUME NEW w \in orphans, ExecuteOrphan(w)
      PROVE  Log!Next \/ UNCHANGED <<record.log, Call>>
  BY <1>5, ExecuteOrphanTakesEffect
    DEF Log!Next, Log!Requests, Log!Commits, Requests, Commits
<1> QED
  BY <1>1, <1>2, <1>3, <1>4, <1>5 DEF Next

\* The optimistic loop is linearizable, for any number of handlers, calls and
\* attempts: every request takes effect at once, on the latest state, between
\* its call and its answer, and what one call is told of no other is told of.
THEOREM StoreIsLinearizable == Spec => ImplementsSessionLog
<1>1. Init => Log!Init
  BY DEF Init, Log!Init, Log!Quiet, NoRecord, CallOf
<1>2. RInv /\ [Next]_vars
        => [Log!Next]_<<record.log,
              [h \in Handlers |->
                 CallOf(pc[h], request[h], start[h], answer[h])]>>
  BY StepRefines DEF Call
<1> QED
  BY <1>1, <1>2, OwnershipInvariance, PTL
    DEF Spec, ImplementsSessionLog, Log!Spec

=============================================================================
