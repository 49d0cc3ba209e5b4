------------------------------ MODULE S3Proofs ------------------------------
(***************************************************************************)
(* The S3 binding of a session, for any number of handlers, grants, faults *)
(* and deletes.  Its steps are steps of the pipeline, so what is proved of *)
(* Coordinator holds of it; and no delete ever reaches an object that is   *)
(* recorded.  For that, S3Inv says where a key can be that will be deleted *)
(* later, perhaps much later: behind the window of its track, where        *)
(* nothing is recorded, no commit is accepted, and from where the window   *)
(* never returns.                                                          *)
(*                                                                         *)
(* The last part is about UploadGrants, for all slots, additional headers  *)
(* and uploads: why an object in the bucket is one slot's upload and no    *)
(* other's.                                                                *)
(***************************************************************************)
EXTENDS S3Pipeline, CoordinatorProofs, UploadGrants, SequenceTheorems

\* Keys of objects that lie wholly before what their track shows.
PassedKeys ==
  {k \in Keys :
     /\ k.kind # "init"
     /\ OnTrack(cursor.media, k.track) # {}
     /\ \A e \in OnTrack(cursor.media, k.track) : k.seq < e.at.seq}

\* What one commit retired, and what a pool deletes of it.
Batches(K) == {G \in SUBSET K : IsFiniteSet(G)}

Pools(K) ==
  {p \in [objects : Seq(K), next : Nat, working : SUBSET Nat,
          outcomes : Seq(Outcomes)] :
     /\ Len(p.outcomes) = Len(p.objects)
     /\ p.next \in 1 .. Len(p.objects) + 1
     /\ \A i \in p.working : i \in 1 .. Len(p.objects) /\ i < p.next
     /\ IsFiniteSet(p.working)
     /\ p.working = {} => p.next = Len(p.objects) + 1
     /\ Accounts(p)}

\* Whatever handlers have still to delete, they may delete.
DeletesBehind ==
  /\ retired \in [Handlers -> Seq(Batches(PassedKeys))]
  /\ pools \in [Handlers -> Seq(Pools(PassedKeys))]

\* A save that will go through commits an object that is in the bucket, at a
\* position that the window has not passed.
SavesStored ==
  \A h \in Handlers : pc[h] = "saving" /\ fresh[h] =>
    \E s \in slots :
      /\ s.id = job[h].slot
      /\ bucket[Key(s.at)] = s.id
      /\ ~IsLateSlot(s.at, cursor.media)

S3Inv ==
  /\ WInv
  /\ S3TypeOK
  /\ DeletesBehind
  /\ SavesStored
  /\ RecordedObjectsStored

----------------------------------------------------------------------------
(***************************************************************************)
(* Pools.                                                                  *)
(***************************************************************************)

\* A finite set can be put in order.
LEMMA SetInOrder ==
  ASSUME NEW K, NEW G \in Batches(K)
  PROVE  SetToSeq(G) \in Seq(K)
<1>1. IsFiniteSet(G) /\ G \subseteq K
  BY DEF Batches
<1>2. Cardinality(G) \in Nat /\ ExistsBijection(1 .. Cardinality(G), G)
  BY <1>1, FS_CardinalityType
<1>3. \E f \in [1 .. Cardinality(G) -> G] : IsInjective(f)
  BY <1>2 DEF ExistsBijection, Bijection, Injection
<1>4. SetToSeq(G) \in [1 .. Cardinality(G) -> G]
  BY <1>3 DEF SetToSeq
<1>5. SetToSeq(G) \in Seq(G)
  BY <1>2, <1>4, SeqDef
<1> QED
  BY <1>1, <1>5, SeqMonotonic

\* A pool starts with as many workers as it may have and needs.
LEMMA StartedIsPool ==
  ASSUME NEW K, NEW objects \in Seq(K)
  PROVE  Started(objects) \in Pools(K)
<1> DEFINE n == Len(objects)
           workers == Min({Concurrency, n})
           p == Started(objects)
<1>1. n \in Nat /\ DOMAIN objects = 1 .. n
  BY LenProperties
<1>2. Concurrency \in Nat \ {0}
  BY PoolAssumption DEF PoolAssumption
<1>3. /\ workers \in Nat /\ workers <= Concurrency /\ workers <= n
      /\ workers = 0 => n = 0
      /\ workers = Concurrency \/ workers = n
  <2>1. \E x \in {Concurrency, n} : \A y \in {Concurrency, n} : x <= y
    <3>1. Concurrency <= n \/ n <= Concurrency
      BY <1>1, <1>2
    <3>2. Concurrency <= Concurrency /\ n <= n
      BY <1>1, <1>2
    <3> QED
      BY <3>1, <3>2
  <2>2. workers \in {Concurrency, n} /\ \A y \in {Concurrency, n} : workers <= y
    BY <2>1 DEF Min
  <2> QED
    BY <1>1, <1>2, <2>2
<1> DEFINE none == [i \in 1 .. n |-> "none"]
<1>4. none \in Seq(Outcomes) /\ Len(none) = n
  <2>1. none \in [1 .. n -> Outcomes]
    BY DEF Outcomes
  <2>2. none \in Seq(Outcomes)
    BY <1>1, <2>1, SeqDef
  <2>3. DOMAIN none = 1 .. Len(none) /\ Len(none) \in Nat
    BY <2>2, LenProperties
  <2> QED
    BY <1>1, <2>2, <2>3
<1>5. p = [objects |-> objects, next |-> workers + 1,
           working |-> 1 .. workers, outcomes |-> none]
  BY <1>1 DEF Started
<1> HIDE DEF workers, none, p, n
<1>6. /\ p.objects = objects /\ p.next = workers + 1
      /\ p.working = 1 .. workers /\ p.outcomes = none
  BY <1>5
<1>7. IsFiniteSet(1 .. workers) /\ Cardinality(1 .. workers) = workers
  BY <1>3, FS_Interval
<1>0. p.working = {} => n = 0
  <2>1. ASSUME workers # 0 PROVE 1 \in p.working
    BY <1>3, <1>6, <2>1
  <2> QED
    BY <1>3, <2>1
<1>8. Accounts(p)
  <2>1. Cardinality(p.working) <= Concurrency
    BY <1>3, <1>6, <1>7
  <2>2. \A i \in DOMAIN p.objects :
          (p.outcomes[i] = "none") <=> (i \in p.working \/ i >= p.next)
    BY <1>1, <1>3, <1>6 DEF none
  <2>3. Finished(p) => \A i \in DOMAIN p.objects : p.outcomes[i] # "none"
    <3>1. n = 0 => DOMAIN p.objects = {}
      BY <1>1, <1>6
    <3> QED
      BY <1>0, <3>1 DEF Finished
  <2> QED
    BY <2>1, <2>2, <2>3 DEF Accounts
<1>9. p \in [objects : Seq(K), next : Nat, working : SUBSET Nat,
             outcomes : Seq(Outcomes)]
  BY <1>3, <1>4, <1>5
<1>10. Len(p.objects) = n /\ Len(p.outcomes) = n
  BY <1>4, <1>6 DEF n
<1>12. p.next \in 1 .. n + 1 /\ (n = 0 => p.next = n + 1)
  BY <1>1, <1>3, <1>6
<1>13. \A i \in p.working : i \in 1 .. n /\ i < p.next
  BY <1>1, <1>3, <1>6
<1>14. IsFiniteSet(p.working)
  BY <1>6, <1>7
<1>11. p \in Pools(K)
  BY <1>0, <1>8, <1>9, <1>10, <1>12, <1>13, <1>14 DEF Pools
<1> QED
  BY <1>11 DEF p

\* A worker that is done takes the next object, or leaves when there is none.
LEMMA SettledIsPool ==
  ASSUME NEW K, NEW p \in Pools(K), NEW i \in p.working,
         NEW outcome \in {"deleted", "failed"}
  PROVE  Settled(p, i, outcome) \in Pools(K)
<1> DEFINE n == Len(p.objects)
           more == p.next <= n
           q == Settled(p, i, outcome)
           rest == p.working \ {i}
           taken == IF more THEN {p.next} ELSE {}
<1>1. /\ p \in [objects : Seq(K), next : Nat, working : SUBSET Nat,
                outcomes : Seq(Outcomes)]
      /\ n \in Nat /\ Len(p.outcomes) = n /\ DOMAIN p.objects = 1 .. n
      /\ DOMAIN p.outcomes = 1 .. n
      /\ p.next \in 1 .. n + 1
      /\ \A j \in p.working : j \in 1 .. n /\ j < p.next
      /\ IsFiniteSet(p.working)
      /\ Accounts(p)
  BY LenProperties DEF Pools
<1>2. /\ q.objects = p.objects
      /\ q.outcomes = [p.outcomes EXCEPT ![i] = outcome]
      /\ q.working = rest \cup taken
      /\ q.next = IF more THEN p.next + 1 ELSE p.next
  BY <1>1 DEF Settled
<1>3. /\ q.outcomes \in Seq(Outcomes) /\ Len(q.outcomes) = n
      /\ \A j \in 1 .. n :
           q.outcomes[j] = IF j = i THEN outcome ELSE p.outcomes[j]
  BY <1>1, <1>2, ExceptSeq DEF Outcomes
<1>4. q \in [objects : Seq(K), next : Nat, working : SUBSET Nat,
             outcomes : Seq(Outcomes)]
  <2>1. rest \cup taken \in SUBSET Nat
    BY <1>1
  <2>2. (IF more THEN p.next + 1 ELSE p.next) \in Nat
    BY <1>1
  <2>3. [p.outcomes EXCEPT ![i] = outcome] \in Seq(Outcomes)
    BY <1>2, <1>3
  <2> HIDE DEF rest, taken, more, n
  <2> QED
    BY <1>1, <2>1, <2>2, <2>3 DEF Settled, rest, taken, more, n
<1> HIDE DEF q
<1>5. IsFiniteSet(q.working) /\ Cardinality(q.working) <= Concurrency
  <2>1. /\ IsFiniteSet(rest)
        /\ Cardinality(rest) = Cardinality(p.working) - 1
    BY <1>1, FS_RemoveElement
  <2>2. Cardinality(rest) \in Nat /\ Cardinality(p.working) \in Nat
    BY <1>1, <2>1, FS_CardinalityType
  <2>3. Cardinality(p.working) <= Concurrency /\ Concurrency \in Nat
    BY <1>1, PoolAssumption DEF Accounts, PoolAssumption
  <2>4. CASE ~more
    <3>1. q.working = rest
      BY <1>2, <2>4
    <3> HIDE DEF rest, more
    <3> QED
      BY <2>1, <2>2, <2>3, <3>1
  <2>5. CASE more
    <3>1. q.working = rest \cup {p.next}
      BY <1>2, <2>5
    <3> HIDE DEF rest, more
    <3>2. /\ IsFiniteSet(rest \cup {p.next})
          /\ \/ Cardinality(rest \cup {p.next}) = Cardinality(rest)
             \/ Cardinality(rest \cup {p.next}) = Cardinality(rest) + 1
      BY <2>1, FS_AddElement
    <3> QED
      BY <2>1, <2>2, <2>3, <3>1, <3>2
  <2> QED
    BY <2>4, <2>5
<1>6. /\ q.next \in 1 .. n + 1
      /\ \A j \in q.working : j \in 1 .. n /\ j < q.next
      /\ q.working = {} => q.next = n + 1
  BY <1>1, <1>2
<1>7. \A j \in 1 .. n :
        (q.outcomes[j] = "none") <=> (j \in q.working \/ j >= q.next)
  <2>1. \A j \in 1 .. n :
          (p.outcomes[j] = "none") <=> (j \in p.working \/ j >= p.next)
    BY <1>1 DEF Accounts
  <2> QED
    BY <1>1, <1>2, <1>3, <2>1
<1>8. Finished(q) => \A j \in 1 .. n : q.outcomes[j] # "none"
  BY <1>1, <1>6, <1>7 DEF Finished
<1>9. Accounts(q)
  BY <1>1, <1>2, <1>5, <1>7, <1>8 DEF Accounts
<1> QED
  BY <1>2, <1>3, <1>4, <1>5, <1>6, <1>9 DEF Pools, q

\* Every batch gets a pool of its own.
LEMMA BatchesHavePools ==
  ASSUME NEW K, NEW gone \in Seq(Batches(K))
  PROVE  PoolsFor(gone) \in Seq(Pools(K))
<1>1. Len(gone) \in Nat /\ DOMAIN gone = 1 .. Len(gone)
  BY LenProperties
<1>2. ASSUME NEW n \in 1 .. Len(gone)
      PROVE  Started(SetToSeq(gone[n])) \in Pools(K)
  <2>1. gone[n] \in Batches(K)
    BY ElementOfSeq
  <2> QED
    BY <2>1, SetInOrder, StartedIsPool
<1>3. PoolsFor(gone) \in [1 .. Len(gone) -> Pools(K)]
  BY <1>1, <1>2 DEF PoolsFor
<1> QED
  BY <1>1, <1>3, SeqDef

\* What may be deleted may be deleted when more may be.
LEMMA DeletesStay ==
  ASSUME NEW K, NEW L, K \subseteq L
  PROVE  /\ [Handlers -> Seq(Batches(K))] \subseteq [Handlers -> Seq(Batches(L))]
         /\ [Handlers -> Seq(Pools(K))] \subseteq [Handlers -> Seq(Pools(L))]
<1>1. Batches(K) \subseteq Batches(L)
  BY DEF Batches
<1>2. \A o \in Seq(K) : o \in Seq(L)
  BY SeqMonotonic
<1>3. Pools(K) \subseteq Pools(L)
  BY <1>2 DEF Pools
<1>4. \A r \in Seq(Batches(K)) : r \in Seq(Batches(L))
  BY <1>1, SeqMonotonic
<1>5. \A q \in Seq(Pools(K)) : q \in Seq(Pools(L))
  BY <1>3, SeqMonotonic
<1> QED
  BY <1>4, <1>5

\* A completion hands on what its commit retired: to its sweep, or to a pool.
LEMMA SettleHandsOn ==
  ASSUME NEW K, NEW h \in Handlers, NEW gone \in Batches(K), Settle(h, gone),
         retired \in [Handlers -> Seq(Batches(K))],
         pools \in [Handlers -> Seq(Pools(K))]
  PROVE  /\ retired' \in [Handlers -> Seq(Batches(K))]
         /\ pools' \in [Handlers -> Seq(Pools(K))]
<1> DEFINE some == IF gone = {} THEN <<>> ELSE <<gone>>
<1>1. some \in Seq(Batches(K))
  BY EmptySeq
<1>2. PoolsFor(some) \in Seq(Pools(K))
  BY <1>1, BatchesHavePools
<1>3. retired[h] \o some \in Seq(Batches(K))
  BY <1>1, ConcatProperties
<1>4. /\ retired' = [retired EXCEPT ![h] =
                      IF job[h].sweep THEN retired[h] \o some ELSE retired[h]]
      /\ pools' = [pools EXCEPT ![h] =
                      IF job[h].sweep THEN pools[h] ELSE PoolsFor(some)]
  BY DEF Settle
<1> HIDE DEF some
<1> QED
  BY <1>2, <1>3, <1>4

----------------------------------------------------------------------------
(***************************************************************************)
(* The pipeline underneath.                                                *)
(***************************************************************************)

\* What a step of the binding does to the session, the pipeline does.
LEMMA StepOfPipeline == [S3Next]_s3vars => [Next]_vars
<1> SUFFICES ASSUME [S3Next]_s3vars PROVE [Next]_vars
  OBVIOUS
<1>1. CASE UNCHANGED s3vars
  BY <1>1 DEF s3vars
<1>2. ASSUME NEW h \in Handlers, NEW max \in WindowSizes, NEW t \in Times,
             NEW tol \in LateTolerances, Save(h, max, t, tol)
      PROVE  Next
  BY <1>2 DEF Save, Next
<1>3. ASSUME NEW h \in Handlers, Complete(h)
      PROVE  Next \/ UNCHANGED vars
  BY <1>2, <1>3 DEF Complete, Observe, LoseRace
<1>4. ASSUME NEW h \in Handlers, Sweep(h) \/ Report(h) \/ Die(h)
      PROVE  UNCHANGED vars
  BY <1>4 DEF Sweep, StartSweep, EndSweep, SweepNext, Report, Die
<1>5. ASSUME NEW h \in Handlers,
             \/ \E id \in SlotIds, f \in Facts : ReceiveHint(h, id, f)
             \/ \E k \in Keys : ReceiveEvent(h, k)
             \/ \E n \in DOMAIN pools[h] :
                  \E i \in pools[h][n].working, o \in {"deleted", "failed"} :
                    Delete(h, n, i, o)
      PROVE  UNCHANGED vars
  BY <1>5 DEF ReceiveHint, ReceiveEvent, Delete
<1>6. ASSUME NEW h \in Handlers, NEW t \in Times, NEW tol \in LateTolerances,
             Retain(h, t, tol)
      PROVE  Next
  BY <1>6 DEF Retain, Next
<1>7. ASSUME NEW id \in SlotIds, NEW a \in Positions, NEW t \in Times,
             IssueGrant(id, a, t)
      PROVE  Next
  BY <1>7 DEF IssueGrant, Next
<1>8. ASSUME NEW g \in grants, Upload(g)
      PROVE  UNCHANGED vars
  BY <1>8 DEF Upload
<1>9. ASSUME NEW s \in slots, Revoke(s)
      PROVE  Next
  BY <1>9 DEF Revoke, Next
<1>10. ASSUME NEW next \in Closings, Transition(next)
       PROVE  Next
  BY <1>10, S3Assumption DEF Transition, Next, S3Assumption
<1> QED
  BY <1>1, <1>3, <1>4, <1>5, <1>6, <1>7, <1>8, <1>9, <1>10 DEF S3Next

\* The window never returns to what it has passed.
LEMMA PassedStays ==
  ASSUME WInv, WInv', [Next]_vars
  PROVE  PassedKeys \subseteq PassedKeys'
<1> DEFINE M == cursor.media
           N == cursor'.media
<1>1. M = N \/ (Live!TrimmedAtFront /\ Live!AppendedAtEdge)
  BY StepShowsLiveWindow DEF Live!Next, Live!Publish, Live!Close, Live!window
<1>2. M \subseteq Commits /\ N \subseteq Commits
  BY DEF WInv, IInv, TypeOK, Cursors
<1>3. \A k \in Keys : k.seq \in Nat
  BY CoordinatorAssumption DEF Keys, Key, Positions, CoordinatorAssumption
<1> SUFFICES ASSUME NEW k \in PassedKeys,
                    Live!TrimmedAtFront /\ Live!AppendedAtEdge
             PROVE  k \in PassedKeys'
  BY <1>1 DEF PassedKeys
<1>4. /\ k \in Keys /\ k.kind # "init"
      /\ OnTrack(M, k.track) # {}
      /\ \A e \in OnTrack(M, k.track) : k.seq < e.at.seq
  BY DEF PassedKeys
<1>5. PICK p \in M : p.at.track = k.track
  BY <1>4 DEF OnTrack
<1>6. OnTrack(N, k.track) # {}
  BY <1>5 DEF Live!TrimmedAtFront, Live!Track, OnTrack
<1>7. ASSUME NEW e \in OnTrack(N, k.track)
      PROVE  k.seq < e.at.seq
  <2>1. e \in N /\ e.at.track = k.track
    BY DEF OnTrack
  <2>2. CASE e \in M
    BY <1>4, <2>1, <2>2 DEF OnTrack
  <2>3. CASE e \notin M
    <3>1. p.at.seq < e.at.seq \/ p.at.seq = e.at.seq
      BY <1>5, <2>1, <2>3 DEF Live!AppendedAtEdge, Live!Track
    <3>2. k.seq < p.at.seq
      BY <1>4, <1>5 DEF OnTrack
    <3> QED
      BY <1>2, <1>3, <1>4, <2>1, <3>1, <3>2, SequenceNumbers
  <2> QED
    BY <2>2, <2>3
<1> QED
  BY <1>4, <1>6, <1>7 DEF PassedKeys

\* What pruning takes out of the record, the window has passed.
LEMMA GoneArePassed ==
  ASSUME NEW S, NEW C \in SUBSET Commits, IsFiniteSet(C), NEW I, NEW t,
         NEW tol, UniqueSlots(S), Matched(S, C, I),
         commits' = PrunedCommits(C, ObsoleteSlotIds(S, C, cursor', t, tol))
  PROVE  Gone(C) \in Batches(PassedKeys')
<1> DEFINE taken == C \ commits'
<1>1. ASSUME NEW c \in taken PROVE Key(c.at) \in PassedKeys'
  <2>1. c \in RetiredCommits(C, cursor')
    BY ObsoleteCommits DEF PrunedCommits
  <2>2. c.at.kind # "init"
    BY DEF Matched, CommitOf
  <2>3. Key(c.at) = c.at /\ Key(c.at) \in Keys
    BY <2>2 DEF Key, Keys, Commits
  <2> QED
    BY <2>1, <2>2, <2>3 DEF RetiredCommits, PassedKeys
<1>2. IsFiniteSet(taken)
  BY FS_Subset
<1>3. IsFiniteSet(Gone(C))
  <2> DEFINE f == [c \in taken |-> Key(c.at)]
  <2>1. f \in Surjection(taken, Gone(C))
    BY DEF Surjection, Gone
  <2> HIDE DEF f, taken
  <2> QED
    BY <1>2, <2>1, FS_Surjection
<1> QED
  BY <1>1, <1>3 DEF Batches, Gone

----------------------------------------------------------------------------
(***************************************************************************)
(* S3Inv is inductive.                                                     *)
(***************************************************************************)

\* Deletes stay behind the window: what is handed on was passed in the very
\* step that retired it, and what was handed on before stays passed.
LEMMA DeletesStayBehind ==
  ASSUME S3Inv, WInv', [S3Next]_s3vars
  PROVE  DeletesBehind'
<1> DEFINE K == PassedKeys'
           R == [Handlers -> Seq(Batches(K))]
           P == [Handlers -> Seq(Pools(K))]
<1>1. PassedKeys \subseteq K
  BY StepOfPipeline, PassedStays DEF S3Inv
<1>2. retired \in R /\ pools \in P
  BY <1>1, DeletesStay DEF S3Inv, DeletesBehind
<1>3. {} \in Batches(K)
  BY FS_EmptySet DEF Batches
<1>4. <<>> \in Seq(Batches(K)) /\ <<>> \in Seq(Pools(K))
  BY EmptySeq
<1> HIDE DEF K
<1> SUFFICES retired' \in R /\ pools' \in P
  BY DEF DeletesBehind, K
<1>5. CASE UNCHANGED <<retired, pools>>
  BY <1>2, <1>5
<1>6. ASSUME NEW h \in Handlers, Complete(h) PROVE retired' \in R /\ pools' \in P
  <2>1. ASSUME NEW max \in WindowSizes, NEW t \in Times,
               NEW tol \in LateTolerances, Save(h, max, t, tol)
        PROVE  retired' \in R /\ pools' \in P
    <3>1. PICK s \in slots : /\ CommitUpload(s, max, t, tol)
                             /\ Settle(h, Gone(RecordedMedia(s)))
      BY <2>1 DEF Save
    <3>2. CASE CommitHeld(s, max, t, tol)
      <4>1. Gone(RecordedMedia(s)) = {}
        BY <3>2 DEF CommitHeld, Gone
      <4> QED
        BY <1>2, <1>3, <3>1, <4>1, SettleHandsOn
    <3>3. CASE CommitAdvances(s, max, t, tol)
      <4> DEFINE S == MarkCommitted(s)
                 C == RecordedMedia(s)
                 I == RecordedInits(s)
      <4>1. /\ s.state = "issued"
            /\ commits' = PrunedCommits(C, ObsoleteSlotIds(S, C, cursor', t, tol))
        BY <3>3 DEF CommitAdvances, CommitAccepted
      <4>2. /\ C \in SUBSET Commits /\ IsFiniteSet(C)
            /\ UniqueSlots(S) /\ Matched(S, C, I)
        BY <4>1, RecordedFinite, MarkingMatches DEF S3Inv, WInv
      <4> HIDE DEF S, C, I
      <4>3. Gone(C) \in Batches(K)
        BY <4>1, <4>2, GoneArePassed DEF K
      <4> QED
        BY <1>2, <3>1, <4>3, SettleHandsOn DEF C
    <3> QED
      BY <3>1, <3>2, <3>3 DEF CommitUpload
  <2>2. ASSUME Settle(h, {}) PROVE retired' \in R /\ pools' \in P
    BY <1>2, <1>3, <2>2, SettleHandsOn
  <2>3. ASSUME NEW t \in Times, NEW tol \in LateTolerances, Observe(h, t, tol)
        PROVE  retired' \in R /\ pools' \in P
    BY <1>2, <2>2, <2>3 DEF Observe
  <2>4. ASSUME LoseRace(h) PROVE retired' \in R /\ pools' \in P
    BY <1>2, <2>2, <2>4 DEF LoseRace
  <2> QED
    BY <1>6, <2>1, <2>3, <2>4 DEF Complete
<1>7. ASSUME NEW h \in Handlers, NEW t \in Times, NEW tol \in LateTolerances,
             Retain(h, t, tol)
      PROVE  retired' \in R /\ pools' \in P
  <2>1. /\ Settle(h, Gone(commits)) /\ cursor' = cursor
        /\ commits' = PrunedCommits(commits,
                         ObsoleteSlotIds(slots, commits, cursor, t, tol))
    BY <1>7 DEF Retain, ApplyRetention
  <2>2. commits \in SUBSET Commits /\ IsFiniteSet(commits)
    BY DEF S3Inv, WInv, IInv, TypeOK
  <2>3. UniqueSlots(slots) /\ Matched(slots, commits, initCommits)
    BY IInvParts DEF S3Inv, WInv, IInv
  <2>4. Gone(commits) \in Batches(K)
    BY <2>1, <2>2, <2>3, GoneArePassed DEF K
  <2> QED
    BY <1>2, <2>1, <2>4, SettleHandsOn
<1>8. ASSUME NEW h \in Handlers, EndSweep(h)
      PROVE  retired' \in R /\ pools' \in P
  <2>1. PoolsFor(retired[h]) \in Seq(Pools(K))
    BY <1>2, BatchesHavePools
  <2> QED
    BY <1>2, <1>4, <1>8, <2>1 DEF EndSweep
<1>9. ASSUME NEW h \in Handlers, NEW n \in DOMAIN pools[h],
             NEW i \in pools[h][n].working, NEW o \in {"deleted", "failed"},
             Delete(h, n, i, o)
      PROVE  retired' \in R /\ pools' \in P
  <2>1. pools[h] \in Seq(Pools(K)) /\ n \in 1 .. Len(pools[h])
    BY <1>2, LenProperties
  <2>2. Settled(pools[h][n], i, o) \in Pools(K)
    BY <2>1, ElementOfSeq, SettledIsPool
  <2>3. [pools[h] EXCEPT ![n] = Settled(pools[h][n], i, o)] \in Seq(Pools(K))
    BY <2>1, <2>2, ExceptSeq
  <2>4. /\ retired' = retired
        /\ pools' = [pools EXCEPT ![h] =
                        [pools[h] EXCEPT ![n] = Settled(pools[h][n], i, o)]]
    BY <1>9 DEF Delete
  <2> QED
    BY <1>2, <2>3, <2>4
<1>10. ASSUME NEW h \in Handlers, Report(h) \/ Die(h)
       PROVE  retired' \in R /\ pools' \in P
  BY <1>2, <1>4, <1>10 DEF Report, Die
<1>11. ASSUME NEW h \in Handlers,
              \/ \E id \in SlotIds, f \in Facts : ReceiveHint(h, id, f)
              \/ \E k \in Keys : ReceiveEvent(h, k)
              \/ StartSweep(h)
              \/ \E id \in SlotIds : SweepNext(h, id)
       PROVE  UNCHANGED <<retired, pools>>
  BY <1>11 DEF ReceiveHint, ReceiveEvent, StartSweep, SweepNext
<1>12. CASE \/ \E id \in SlotIds, a \in Positions, t \in Times :
                 IssueGrant(id, a, t)
            \/ \E g \in grants : Upload(g)
            \/ \E s \in slots : Revoke(s)
            \/ \E next \in Closings : Transition(next)
  <2>1. UNCHANGED <<retired, pools>>
    BY <1>12 DEF IssueGrant, Upload, Revoke, Transition, work
  <2> QED
    BY <1>5, <2>1
<1>13. CASE UNCHANGED s3vars
  <2>1. UNCHANGED <<retired, pools>>
    BY <1>13 DEF s3vars, work
  <2> QED
    BY <1>5, <2>1
<1> QED
  BY <1>5, <1>6, <1>7, <1>8, <1>9, <1>10, <1>11, <1>12, <1>13
    DEF S3Next, Sweep

\* Every field that the binding adds keeps its type.
LEMMA TypesStay ==
  ASSUME S3Inv, WInv', DeletesBehind', [S3Next]_s3vars
  PROVE  S3TypeOK'
<1> DEFINE Jobs == [sweep : BOOLEAN, slot : SlotIds \cup {NoSlot},
                    facts : Facts \cup {"none"}, attempt : 1 .. MaxAttempts]
           Places == {"idle", "observing", "saving", "sweeping", "deleting"}
           Typed == /\ issues \in 0 .. MaxIssues
                    /\ bucket \in [Keys -> SlotIds \cup {NoSlot}]
                    /\ grants \subseteq Grants
                    /\ facts \in [SlotIds -> Facts \cup {"none"}]
                    /\ pc \in [Handlers -> Places]
                    /\ job \in [Handlers -> Jobs]
                    /\ plan \in [Handlers -> SUBSET SlotIds]
                    /\ fresh \in [Handlers -> BOOLEAN]
<1>1. TypeOK'
  BY DEF WInv, IInv
<1>2. retired' \in [Handlers -> Seq(SUBSET Keys)]
  <2>1. Batches(PassedKeys') \subseteq SUBSET Keys
    BY DEF Batches, PassedKeys
  <2>2. \A r \in Seq(Batches(PassedKeys')) : r \in Seq(SUBSET Keys)
    BY <2>1, SeqMonotonic
  <2>3. retired' \in [Handlers -> Seq(Batches(PassedKeys'))]
    BY DEF DeletesBehind
  <2> QED
    BY <2>2, <2>3
<1>3. Typed /\ slots \subseteq Slots
  BY DEF S3Inv, S3TypeOK, TypeOK
<1>4. NoJob \in Jobs
  BY S3Assumption DEF NoJob, S3Assumption
<1>5. NothingFresh \in [Handlers -> BOOLEAN]
  BY DEF NothingFresh
<1>6. SUFFICES Typed'
  BY <1>1, <1>2 DEF S3TypeOK
<1>7. CASE UNCHANGED s3vars
  BY <1>3, <1>7 DEF s3vars, storage, work
<1>8. ASSUME NEW h \in Handlers, NEW id \in SlotIds, NEW sweep \in BOOLEAN,
             NEW f \in Facts \cup {"none"}, Begin(h, sweep, id, f)
      PROVE  pc' \in [Handlers -> Places] /\ job' \in [Handlers -> Jobs]
  <2>1. [NoJob EXCEPT !.sweep = sweep, !.slot = id, !.facts = f] \in Jobs
    BY <1>4
  <2> HIDE DEF Jobs
  <2> QED
    BY <1>3, <1>8, <2>1 DEF Begin
<1>9. ASSUME NEW h \in Handlers, NEW gone, Settle(h, gone)
      PROVE  pc' \in [Handlers -> Places] /\ job' \in [Handlers -> Jobs]
  <2>1. /\ pc' = [pc EXCEPT ![h] = pc'[h]] /\ pc'[h] \in Places
        /\ job' = [job EXCEPT ![h] = NoJob]
    BY <1>3, <1>9 DEF Settle
  <2> HIDE DEF Jobs, Places
  <2> QED
    BY <1>3, <1>4, <2>1
<1>10. ASSUME NEW h \in Handlers, NEW id \in SlotIds, NEW f \in Facts,
              ReceiveHint(h, id, f)
       PROVE  Typed'
  BY <1>3, <1>8, <1>10 DEF ReceiveHint, storage
<1>11. ASSUME NEW h \in Handlers, NEW k \in Keys, ReceiveEvent(h, k)
       PROVE  Typed'
  <2>1. PICK s \in slots : Begin(h, FALSE, s.id, "none")
    BY <1>11 DEF ReceiveEvent, FirstAtKey
  <2>2. s.id \in SlotIds
    BY <1>3 DEF Slots
  <2> QED
    BY <1>3, <1>8, <1>11, <2>1, <2>2 DEF ReceiveEvent, storage
<1>12. ASSUME NEW h \in Handlers, StartSweep(h)
       PROVE  Typed'
  <2>1. {s.id : s \in {r \in slots : r.state = "issued"}} \in SUBSET SlotIds
    BY <1>3 DEF Slots
  <2> QED
    BY <1>3, <1>12, <2>1 DEF StartSweep, storage
<1>13. ASSUME NEW h \in Handlers, NEW id \in SlotIds, SweepNext(h, id)
       PROVE  Typed'
  BY <1>3, <1>8, <1>13 DEF SweepNext, storage
<1>14. ASSUME NEW h \in Handlers, EndSweep(h)
       PROVE  Typed'
  BY <1>3, <1>14 DEF EndSweep, storage
<1>15. ASSUME NEW h \in Handlers, NEW t \in Times, NEW tol \in LateTolerances,
              Observe(h, t, tol)
       PROVE  Typed'
  BY <1>3, <1>9, <1>15 DEF Observe, storage
<1>16. ASSUME NEW h \in Handlers, NEW max \in WindowSizes, NEW t \in Times,
              NEW tol \in LateTolerances, Save(h, max, t, tol)
       PROVE  Typed'
  <2>1. facts' \in [SlotIds -> Facts \cup {"none"}]
    <3>1. facts' = [facts EXCEPT ![job[h].slot] = job[h].facts]
      BY <1>16 DEF Save
    <3>2. job[h].facts \in Facts \cup {"none"}
      BY <1>3
    <3> QED
      BY <1>3, <3>1, <3>2
  <2> QED
    BY <1>3, <1>5, <1>9, <1>16, <2>1 DEF Save, storage
<1>17. ASSUME NEW h \in Handlers, LoseRace(h)
       PROVE  Typed'
  <2>1. CASE Settle(h, {})
    BY <1>3, <1>9, <1>17, <2>1 DEF LoseRace, storage
  <2>2. CASE /\ job[h].attempt < MaxAttempts
             /\ pc' = [pc EXCEPT ![h] = "observing"]
             /\ job' = [job EXCEPT ![h].attempt = @ + 1]
    <3>1. [job[h] EXCEPT !.attempt = @ + 1] \in Jobs
      BY <1>3, <2>2, S3Assumption DEF S3Assumption
    <3>2. job' = [job EXCEPT ![h] = [job[h] EXCEPT !.attempt = @ + 1]]
      BY <2>2
    <3> HIDE DEF Jobs
    <3> QED
      BY <1>3, <1>17, <2>2, <3>1, <3>2 DEF LoseRace, storage
  <2> QED
    BY <1>17, <2>1, <2>2 DEF LoseRace
<1>18. ASSUME NEW h \in Handlers, NEW t \in Times, NEW tol \in LateTolerances,
              Retain(h, t, tol)
       PROVE  Typed'
  BY <1>3, <1>5, <1>9, <1>18 DEF Retain, storage
<1>19. ASSUME NEW h \in Handlers, NEW n \in DOMAIN pools[h],
              NEW i \in pools[h][n].working, NEW o \in {"deleted", "failed"},
              Delete(h, n, i, o)
       PROVE  Typed'
  BY <1>3, <1>19 DEF Delete
<1>20. ASSUME NEW h \in Handlers, Report(h) \/ Die(h)
       PROVE  Typed'
  <2>1. CASE Report(h)
    BY <1>3, <2>1 DEF Report, storage
  <2>2. CASE Die(h)
    <3>1. {} \in SUBSET SlotIds
      OBVIOUS
    <3> HIDE DEF Jobs
    <3> QED
      BY <1>3, <1>4, <2>2, <3>1 DEF Die, storage
  <2> QED
    BY <1>20, <2>1, <2>2
<1>21. ASSUME NEW id \in SlotIds, NEW a \in Positions, NEW t \in Times,
              IssueGrant(id, a, t)
       PROVE  Typed'
  <2>1. [slot |-> id, key |-> Key(a)] \in Grants
    BY DEF Grants, Keys
  <2>2. issues + 1 \in 0 .. MaxIssues
    BY <1>3, <1>21, S3Assumption DEF IssueGrant, S3Assumption
  <2> QED
    BY <1>3, <1>5, <1>21, <2>1, <2>2 DEF IssueGrant
<1>22. ASSUME NEW g \in grants, Upload(g)
       PROVE  Typed'
  <2>1. g.slot \in SlotIds
    BY <1>3 DEF Grants
  <2> QED
    BY <1>3, <1>22, <2>1 DEF Upload, work
<1>23. ASSUME \/ \E s \in slots : Revoke(s)
              \/ \E next \in Closings : Transition(next)
       PROVE  Typed'
  BY <1>3, <1>5, <1>23 DEF Revoke, Transition, storage
<1> HIDE DEF Jobs, Places, Typed
<1> QED
  BY <1>7, <1>10, <1>11, <1>12, <1>13, <1>14, <1>15, <1>16, <1>17, <1>18,
     <1>19, <1>20, <1>21, <1>22, <1>23 DEF S3Next, Sweep, Complete

\* The window has not passed a position at which a commit is accepted, nor
\* any that is recorded: their objects are not among those to delete.
LEMMA NotPassed ==
  ASSUME S3Inv
  PROVE  /\ \A s \in slots :
              ~IsLateSlot(s.at, cursor.media) => Key(s.at) \notin PassedKeys
         /\ \A c \in commits \cup initCommits : Key(c.at) \notin PassedKeys
<1>1. /\ slots \subseteq Slots
      /\ commits \subseteq Commits /\ cursor.media \subseteq Commits
      /\ Matched(slots, commits, initCommits)
  BY IInvParts DEF S3Inv, WInv, IInv, TypeOK, Cursors
<1>2. \A a : a.kind # "init" => Key(a) = a
  BY DEF Key
<1>3. \A a \in Positions : a.kind = "init" => Key(a).kind = "init"
  BY DEF Key, Positions
<1>4. ASSUME NEW s \in slots, ~IsLateSlot(s.at, cursor.media)
      PROVE  Key(s.at) \notin PassedKeys
  <2>1. s.at \in Positions
    BY <1>1 DEF Slots
  <2>2. CASE s.at.kind = "init"
    BY <1>3, <2>1, <2>2 DEF PassedKeys
  <2>3. CASE s.at.kind # "init"
    BY <1>2, <1>4, <2>3 DEF PassedKeys, IsLateSlot, OnTrack
  <2> QED
    BY <2>2, <2>3
<1>5. ASSUME NEW c \in commits PROVE Key(c.at) \notin PassedKeys
  <2>1. Key(c.at) = c.at
    BY <1>1, <1>2 DEF Matched, CommitOf
  <2>2. ASSUME OnTrack(cursor.media, c.at.track) # {}
        PROVE  \E e \in OnTrack(cursor.media, c.at.track) : ~(c.at.seq < e.at.seq)
    <3>1. PICK e \in OnTrack(cursor.media, c.at.track) : e.at.seq <= c.at.seq
      BY <2>2 DEF S3Inv, WInv, IInv, NothingBehindWindow
    <3>2. e.at.seq \in Nat /\ c.at.seq \in Nat
      BY <1>1, SequenceNumbers DEF OnTrack
    <3> QED
      BY <3>1, <3>2
  <2> QED
    BY <2>1, <2>2 DEF PassedKeys
<1>6. ASSUME NEW c \in initCommits PROVE Key(c.at) \notin PassedKeys
  <2>1. c.at \in Positions /\ c.at.kind = "init"
    BY <1>1 DEF Matched, CommitOf, Slots
  <2> QED
    BY <1>3, <2>1 DEF PassedKeys
<1> QED
  BY <1>4, <1>5, <1>6

\* An object that is there stays there, unless the window has passed it.
LEMMA BucketKeeps ==
  ASSUME S3Inv, [S3Next]_s3vars, NEW k \in Keys, k \notin PassedKeys,
         bucket[k] # NoSlot
  PROVE  bucket'[k] = bucket[k]
<1>1. bucket \in [Keys -> SlotIds \cup {NoSlot}]
  BY DEF S3Inv, S3TypeOK
<1>2. CASE UNCHANGED bucket
  BY <1>2
<1>3. ASSUME NEW g \in grants, Upload(g) PROVE bucket'[k] = bucket[k]
  BY <1>1, <1>3 DEF Upload, Writable
<1>4. ASSUME NEW h \in Handlers, NEW n \in DOMAIN pools[h],
             NEW i \in pools[h][n].working, NEW o \in {"deleted", "failed"},
             Delete(h, n, i, o)
      PROVE  bucket'[k] = bucket[k]
  <2>1. pools[h] \in Seq(Pools(PassedKeys))
    BY DEF S3Inv, DeletesBehind
  <2>2. pools[h][n] \in Pools(PassedKeys)
    BY <2>1, LenProperties, ElementOfSeq
  <2>3. pools[h][n].objects \in Seq(PassedKeys)
        /\ i \in 1 .. Len(pools[h][n].objects)
    BY <2>2 DEF Pools
  <2>4. pools[h][n].objects[i] \in PassedKeys
    BY <2>3, ElementOfSeq
  <2> QED
    BY <1>1, <1>4, <2>4 DEF Delete
<1>5. ASSUME NEW h \in Handlers,
             \/ \E id \in SlotIds, f \in Facts : ReceiveHint(h, id, f)
             \/ \E j \in Keys : ReceiveEvent(h, j)
             \/ Sweep(h) \/ Complete(h) \/ Report(h) \/ Die(h)
             \/ \E t \in Times, tol \in LateTolerances : Retain(h, t, tol)
      PROVE  UNCHANGED bucket
  <2>1. CASE Sweep(h) \/ Report(h) \/ Die(h)
    BY <2>1 DEF Sweep, StartSweep, EndSweep, SweepNext, Report, Die, storage
  <2>2. CASE Complete(h)
    BY <2>2 DEF Complete, Observe, Save, LoseRace, storage
  <2> QED
    BY <1>5, <2>1, <2>2 DEF ReceiveHint, ReceiveEvent, Retain, storage
<1>6. CASE \/ \E id \in SlotIds, a \in Positions, t \in Times :
                IssueGrant(id, a, t)
           \/ \E s \in slots : Revoke(s)
           \/ \E next \in Closings : Transition(next)
  BY <1>6 DEF IssueGrant, Revoke, Transition, storage
<1>7. CASE UNCHANGED s3vars
  BY <1>7 DEF s3vars, storage
<1> QED
  BY <1>2, <1>3, <1>4, <1>5, <1>6, <1>7 DEF S3Next

\* What is recorded is in the bucket: it was when it was recorded, and no
\* step since could take it away.
LEMMA RecordedStayStored ==
  ASSUME S3Inv, WInv', [S3Next]_s3vars
  PROVE  RecordedObjectsStored'
<1> DEFINE recorded == commits \cup initCommits
<1>1. /\ recorded \subseteq Commits /\ NoSlot \notin SlotIds
      /\ \A c \in recorded : Key(c.at) \in Keys /\ c.slot \in SlotIds
  BY S3Assumption
    DEF S3Inv, WInv, IInv, TypeOK, Commits, Keys, S3Assumption
<1>2. ASSUME NEW c \in recorded PROVE bucket'[Key(c.at)] = c.slot
  <2>1. bucket[Key(c.at)] = c.slot
    BY DEF S3Inv, RecordedObjectsStored
  <2> QED
    BY <1>1, <2>1, NotPassed, BucketKeeps
<1>3. ASSUME NEW h \in Handlers, NEW max \in WindowSizes, NEW t \in Times,
             NEW tol \in LateTolerances, Save(h, max, t, tol),
             NEW c \in (commits \cup initCommits)', c \notin recorded
      PROVE  bucket'[Key(c.at)] = c.slot
  <2>1. PICK s \in slots : s.id = job[h].slot /\ CommitUpload(s, max, t, tol)
    BY <1>3 DEF Save
  <2>2. c = CommitOf(s)
    <3>1. /\ commits' \subseteq RecordedMedia(s)
          /\ initCommits' = RecordedInits(s)
      BY <2>1 DEF CommitUpload, CommitHeld, CommitAdvances, PrunedCommits
    <3> QED
      BY <1>3, <3>1 DEF RecordedMedia, RecordedInits
  <2>3. PICK r \in slots : r.id = job[h].slot /\ bucket[Key(r.at)] = r.id
    BY <1>3 DEF Save, EtagMatches, S3Inv, SavesStored
  <2>4. r = s
    BY <2>1, <2>3 DEF S3Inv, WInv, IInv, OpenSlotsUnique
  <2>5. bucket' = bucket
    BY <1>3 DEF Save, storage
  <2> QED
    BY <2>2, <2>3, <2>4, <2>5 DEF CommitOf
<1>4. ASSUME NEW c \in (commits \cup initCommits)', c \notin recorded
      PROVE  \E h \in Handlers, max \in WindowSizes, t \in Times,
                tol \in LateTolerances : Save(h, max, t, tol)
  <2>1. CASE UNCHANGED vars
    BY <1>4, <2>1 DEF vars
  <2>2. ASSUME NEW h \in Handlers, NEW t \in Times, NEW tol \in LateTolerances,
               Retain(h, t, tol)
        PROVE  FALSE
    BY <1>4, <2>2 DEF Retain, ApplyRetention, PrunedCommits
  <2>3. ASSUME NEW s \in slots, Revoke(s) PROVE FALSE
    BY <1>4, <2>3 DEF Revoke, RevokeUpload
  <2>4. CASE \/ \E id \in SlotIds, a \in Positions, t \in Times :
                  IssueGrant(id, a, t)
             \/ \E next \in Closings : Transition(next)
    BY <1>4, <2>4 DEF IssueGrant, IssueSlot, Transition, TransitionSession
  <2>5. ASSUME NEW h \in Handlers,
               \/ \E id \in SlotIds, f \in Facts : ReceiveHint(h, id, f)
               \/ \E k \in Keys : ReceiveEvent(h, k)
               \/ Sweep(h) \/ Report(h) \/ Die(h) \/ LoseRace(h)
               \/ \E t \in Times, tol \in LateTolerances : Observe(h, t, tol)
        PROVE  UNCHANGED vars
    BY <2>5 DEF ReceiveHint, ReceiveEvent, Sweep, StartSweep, EndSweep,
                SweepNext, Report, Die, LoseRace, Observe
  <2>6. CASE \E g \in grants : Upload(g)
    BY <2>1, <2>6 DEF Upload
  <2>7. ASSUME NEW h \in Handlers,
               \E n \in DOMAIN pools[h] :
                 \E i \in pools[h][n].working, o \in {"deleted", "failed"} :
                   Delete(h, n, i, o)
        PROVE  UNCHANGED vars
    BY <2>7 DEF Delete
  <2>8. CASE UNCHANGED s3vars
    BY <2>1, <2>8 DEF s3vars
  <2> QED
    BY <2>1, <2>2, <2>3, <2>4, <2>5, <2>6, <2>7, <2>8 DEF S3Next, Complete
<1> QED
  BY <1>2, <1>3, <1>4 DEF RecordedObjectsStored

\* A completion decides to save only with the slot's own object in the bucket,
\* and never for a position that has been passed.
LEMMA SaveDecided ==
  ASSUME S3Inv, NEW s \in slots, NEW f, NEW t \in Times,
         NEW tol \in LateTolerances, Decision(s, f, t, tol) = "save"
  PROVE  bucket[Key(s.at)] = s.id /\ ~IsLateSlot(s.at, cursor.media)
<1> DEFINE absent == bucket[Key(s.at)] = NoSlot
           own == OwnUpload(s)
           accepted == CommitAccepted(s, t, tol) /\ Recordable(s)
<1>1. s.state \in SlotStates /\ s.id \in SlotIds /\ NoSlot \notin SlotIds
  BY S3Assumption DEF S3Inv, S3TypeOK, TypeOK, Slots, S3Assumption
<1>2. own => ~absent
  BY <1>1 DEF OwnUpload
<1>3. Decision(s, f, t, tol) =
        CASE absent -> "unobserved"
          [] ~absent /\ (s.state = "revoked" \/ ~own) -> "rejected"
          [] own /\ s.state = "committed" ->
               IF f = facts[s.id] THEN "idempotent"
               ELSE "duplicate_commit_conflict"
          [] own /\ s.state = "issued" ->
               IF accepted THEN "save" ELSE "rejected"
  BY DEF Decision
<1> HIDE DEF absent, own, accepted
<1>4. own /\ s.state = "issued" /\ accepted
  <2>1. CASE absent
    BY <1>2, <1>3, <2>1
  <2>2. CASE ~absent /\ (s.state = "revoked" \/ ~own)
    BY <1>3, <2>2
  <2>3. CASE ~absent /\ own /\ s.state = "committed"
    BY <1>3, <2>3
  <2>4. CASE ~absent /\ own /\ s.state = "issued"
    BY <1>3, <2>4
  <2> QED
    BY <1>1, <2>1, <2>2, <2>3, <2>4 DEF SlotStates
<1> QED
  BY <1>4 DEF own, accepted, OwnUpload, CommitAccepted

\* Between the decision and the save nothing takes the object away: others
\* delete only what was passed, and no upload overwrites.
LEMMA SavesStayStored ==
  ASSUME S3Inv, [S3Next]_s3vars
  PROVE  SavesStored'
<1> SUFFICES ASSUME NEW h \in Handlers, pc'[h] = "saving", fresh'[h]
             PROVE  \E s \in slots' :
                      /\ s.id = job'[h].slot
                      /\ bucket'[Key(s.at)] = s.id
                      /\ ~IsLateSlot(s.at, cursor'.media)
  BY DEF SavesStored
<1> DEFINE Stored == \E s \in slots' :
                       /\ s.id = job'[h].slot
                       /\ bucket'[Key(s.at)] = s.id
                       /\ ~IsLateSlot(s.at, cursor'.media)
           Idle == /\ UNCHANGED vars
                   /\ pc'[h] = pc[h] /\ job'[h] = job[h] /\ fresh'[h] = fresh[h]
<1>1. /\ \A s \in slots : s.id \in SlotIds /\ Key(s.at) \in Keys
      /\ NoSlot \notin SlotIds
      /\ pc \in [Handlers -> {"idle", "observing", "saving",
                              "sweeping", "deleting"}]
      /\ fresh \in [Handlers -> BOOLEAN]
      /\ DOMAIN job = Handlers
  BY S3Assumption DEF S3Inv, S3TypeOK, TypeOK, Slots, Keys, S3Assumption
<1>2. CASE Idle
  <2>1. PICK s \in slots : /\ s.id = job[h].slot
                           /\ bucket[Key(s.at)] = s.id
                           /\ ~IsLateSlot(s.at, cursor.media)
    BY <1>2 DEF S3Inv, SavesStored
  <2>2. bucket'[Key(s.at)] = s.id
    BY <1>1, <2>1, NotPassed, BucketKeeps
  <2> QED
    BY <1>2, <2>1, <2>2 DEF vars
<1>3. CASE fresh' = NothingFresh
  BY <1>3 DEF NothingFresh
<1>4. ASSUME NEW k \in Handlers, NEW t \in Times, NEW tol \in LateTolerances,
             Observe(k, t, tol)
      PROVE  Stored
  <2> DEFINE known == {s \in slots : s.id = job[k].slot}
             s == CHOOSE r \in known : TRUE
  <2>1. CASE k # h
    <3>1. Idle
      BY <1>1, <1>4, <2>1 DEF Observe, Settle
    <3> QED
      BY <1>2, <3>1
  <2>2. CASE k = h
    <3>1. /\ known # {}
          /\ Decision(s, job[k].facts, t, tol) = "save"
          /\ UNCHANGED <<vars, bucket, job>>
      BY <1>1, <1>4, <2>2 DEF Observe, Settle, storage
    <3>2. s \in slots /\ s.id = job[k].slot
      BY <3>1
    <3> HIDE DEF s
    <3>3. bucket[Key(s.at)] = s.id /\ ~IsLateSlot(s.at, cursor.media)
      BY <3>1, <3>2, SaveDecided
    <3> QED
      BY <2>2, <3>1, <3>2, <3>3 DEF vars
  <2> QED
    BY <2>1, <2>2
<1>5. ASSUME NEW k \in Handlers,
             \/ \E id \in SlotIds, f \in Facts : ReceiveHint(k, id, f)
             \/ \E j \in Keys : ReceiveEvent(k, j)
             \/ Sweep(k) \/ Report(k) \/ Die(k) \/ LoseRace(k)
      PROVE  Idle
  <2>1. CASE \/ \E id \in SlotIds, f \in Facts : ReceiveHint(k, id, f)
             \/ \E j \in Keys : ReceiveEvent(k, j)
    BY <1>1, <2>1 DEF ReceiveHint, ReceiveEvent, Begin
  <2>2. CASE Sweep(k)
    BY <1>1, <2>2 DEF Sweep, StartSweep, EndSweep, SweepNext, Begin
  <2>3. CASE Report(k) \/ Die(k)
    BY <1>1, <2>3 DEF Report, Die
  <2>4. CASE LoseRace(k)
    BY <1>1, <2>4 DEF LoseRace, Settle
  <2> QED
    BY <1>5, <2>1, <2>2, <2>3, <2>4
<1>6. ASSUME NEW k \in Handlers, NEW n \in DOMAIN pools[k],
             NEW i \in pools[k][n].working, NEW o \in {"deleted", "failed"},
             Delete(k, n, i, o)
      PROVE  Idle
  BY <1>6 DEF Delete
<1>7. ASSUME NEW k \in Handlers,
             \/ \E max \in WindowSizes, t \in Times, tol \in LateTolerances :
                  Save(k, max, t, tol)
             \/ \E t \in Times, tol \in LateTolerances : Retain(k, t, tol)
      PROVE  fresh' = NothingFresh
  BY <1>7 DEF Save, Retain
<1>8. CASE \/ \E id \in SlotIds, a \in Positions, t \in Times :
                IssueGrant(id, a, t)
           \/ \E s \in slots : Revoke(s)
           \/ \E next \in Closings : Transition(next)
  BY <1>3, <1>8 DEF IssueGrant, Revoke, Transition
<1>9. CASE \E g \in grants : Upload(g)
  <2>1. Idle
    BY <1>9 DEF Upload, work
  <2> QED
    BY <1>2, <2>1
<1>10. CASE UNCHANGED s3vars
  <2>1. Idle
    BY <1>10 DEF s3vars, work
  <2> QED
    BY <1>2, <2>1
<1> HIDE DEF Stored, Idle
<1> QED
  BY <1>2, <1>3, <1>4, <1>5, <1>6, <1>7, <1>8, <1>9, <1>10
    DEF S3Next, Complete, Stored

\* Nothing is issued, uploaded or deleted when a session is created.
LEMMA InitS3Inv == S3Init => S3Inv
<1> SUFFICES ASSUME S3Init PROVE S3Inv
  OBVIOUS
<1>1. WInv
  BY InitWInv DEF S3Init
<1>2. DeletesBehind
  BY EmptySeq DEF S3Init, DeletesBehind
<1>3. S3TypeOK
  <2>1. TypeOK
    BY <1>1 DEF WInv, IInv
  <2>2. NoJob \in [sweep : BOOLEAN, slot : SlotIds \cup {NoSlot},
                   facts : Facts \cup {"none"}, attempt : 1 .. MaxAttempts]
    BY S3Assumption DEF NoJob, S3Assumption
  <2>3. <<>> \in Seq(SUBSET Keys) /\ 0 \in 0 .. MaxIssues
    BY EmptySeq, S3Assumption DEF S3Assumption
  <2> QED
    BY <2>1, <2>2, <2>3 DEF S3Init, S3TypeOK, NothingFresh
<1>4. SavesStored
  BY DEF S3Init, SavesStored
<1>5. RecordedObjectsStored
  BY DEF S3Init, Init, RecordedObjectsStored
<1> QED
  BY <1>1, <1>2, <1>3, <1>4, <1>5 DEF S3Inv

\* Every step preserves S3Inv.
LEMMA NextS3Inv == S3Inv /\ [S3Next]_s3vars => S3Inv'
<1> SUFFICES ASSUME S3Inv, [S3Next]_s3vars PROVE S3Inv'
  OBVIOUS
<1>1. WInv'
  BY StepOfPipeline, NextWInv DEF S3Inv
<1>2. DeletesBehind'
  BY <1>1, DeletesStayBehind
<1> QED
  BY <1>1, <1>2, TypesStay, SavesStayStored, RecordedStayStored DEF S3Inv

----------------------------------------------------------------------------
(***************************************************************************)
(* The theorems.                                                           *)
(***************************************************************************)

\* S3Inv holds in every reachable state.
THEOREM S3Invariance == S3Spec => []S3Inv
BY InitS3Inv, NextS3Inv, PTL DEF S3Spec

\* Hints, events, sweeps, retention and deletes, raced and retried, do to a
\* session only what the pipeline does: its theorems hold of the binding.
THEOREM S3RunsPipeline == S3Spec => Spec
<1>1. S3Init => Init
  BY DEF S3Init
<1> QED
  BY <1>1, StepOfPipeline, PTL DEF S3Spec, Spec

\* Whatever the binding adds keeps its type.
THEOREM S3TypeCorrect == S3Spec => []S3TypeOK
BY S3Invariance, PTL DEF S3Inv

\* What is recorded as committed is in the bucket, and it is the object that
\* was uploaded for that very slot, however late deletes run.
THEOREM RecordedAlwaysStored == S3Spec => []RecordedObjectsStored
BY S3Invariance, PTL DEF S3Inv

\* No object of a pool is skipped, deleted twice at a time or forgotten.
THEOREM PoolsAlwaysAccount == S3Spec => []PoolsAccount
<1>1. S3Inv => PoolsAccount
  <2> SUFFICES ASSUME S3Inv, NEW h \in Handlers, NEW n \in DOMAIN pools[h]
               PROVE  Accounts(pools[h][n])
    BY DEF PoolsAccount
  <2>1. pools[h] \in Seq(Pools(PassedKeys))
    BY DEF S3Inv, DeletesBehind
  <2>2. pools[h][n] \in Pools(PassedKeys)
    BY <2>1, LenProperties, ElementOfSeq
  <2> QED
    BY <2>2 DEF Pools
<1> QED
  BY <1>1, S3Invariance, PTL

----------------------------------------------------------------------------
(***************************************************************************)
(* Grants, and what is read back of the uploads made with them.            *)
(***************************************************************************)

\* An upload made with a grant: what the grant was made of, and what was sent.
Uploads(Names, Ids, ObjectKeys, Values) ==
  [slot : GrantSlots(Ids, ObjectKeys, Values), expiresAt : Int,
   extra : UNION {[D -> Values] : D \in SUBSET HeaderNames(Names)},
   headers : UNION {[D -> Values \cup Ids \cup {"*"}] :
                      D \in SUBSET HeaderNames(Names)}]

Accepted(u) ==
  /\ Granted(u.slot, u.expiresAt, u.extra)
  /\ Signed(u.headers, GrantHeaders(u.slot, u.extra))

\* The name under which a grant signs nothing and the observation looks first.
Shadow == Meta("x-olos-slot-id")

\* What the uploader sends under a reserved name, or as the slot's id, is what
\* the grant says.
LEMMA SignedAsGranted ==
  ASSUME NEW Names, NEW Ids, NEW ObjectKeys, NEW Values,
         NEW u \in Uploads(Names, Ids, ObjectKeys, Values),
         Accepted(u)
  PROVE  /\ u.headers[Header("content-type")] = u.slot.contentType
         /\ Meta("olos-slot-id") \in DOMAIN u.headers
         /\ u.headers[Meta("olos-slot-id")] = u.slot.id
<1> DEFINE granted == GrantHeaders(u.slot, u.extra)
           type == Header("content-type")
           id == Meta("olos-slot-id")
<1>1. /\ type \in Reserved
      /\ type \notin DOMAIN u.extra /\ id \notin DOMAIN u.extra
  BY DEF Accepted, Granted, ExtraTaken, Reserved, SlotNames
<1>2. /\ type \notin DOMAIN SlotMetadata(u.slot)
      /\ id \in DOMAIN SlotMetadata(u.slot)
  BY DEF SlotMetadata, Header, Meta
<1>3. SlotMetadata(u.slot)[id] = u.slot.id
  BY DEF SlotMetadata
<1>4. BaseHeaders(u.slot)[type] = u.slot.contentType
  BY <1>1 DEF BaseHeaders, Header
<1>5. /\ type \in DOMAIN granted /\ granted[type] = u.slot.contentType
      /\ id \in DOMAIN granted /\ granted[id] = u.slot.id
  BY <1>1, <1>2, <1>3, <1>4 DEF GrantHeaders
<1> QED BY <1>5 DEF Accepted, Signed

\* A header is nothing but its prefix and the rest of its name.
LEMMA PairIsItsParts == \A A, B : \A p \in A \X B : p = <<p[1], p[2]>>
  BY SMT

\* The metadata has an entry exactly where the uploader sent its header.
LEMMA MetadataEntries ==
  ASSUME NEW Names, NEW headers, NEW n,
         DOMAIN headers \subseteq HeaderNames(Names)
  PROVE  /\ n \in DOMAIN MetadataOf(headers) <=> Meta(n) \in DOMAIN headers
         /\ n \in DOMAIN MetadataOf(headers) =>
              MetadataOf(headers)[n] = headers[Meta(n)]
<1>1. ASSUME NEW h \in MetaHeaders(headers), h[2] = n  PROVE h = Meta(n)
  <2>1. h \in HeaderNames(Names) /\ h[1] = "x-amz-meta-"
    BY <1>1 DEF MetaHeaders
  <2>2. h = <<h[1], h[2]>>
    BY <2>1, PairIsItsParts DEF HeaderNames
  <2> QED BY <1>1, <2>1, <2>2 DEF Meta
<1>2. Meta(n) \in DOMAIN headers => Meta(n) \in MetaHeaders(headers)
  BY DEF MetaHeaders, Meta
<1>3. Meta(n)[2] = n
  BY DEF Meta
<1>4. MetaHeaders(headers) \subseteq DOMAIN headers
  BY DEF MetaHeaders
<1> QED BY <1>1, <1>2, <1>3, <1>4 DEF MetadataOf

\* Nothing shadows the slot's id unless an additional header does.
LEMMA ShadowIsExtra ==
  ASSUME NEW Names, NEW Ids, NEW ObjectKeys, NEW Values,
         NEW u \in Uploads(Names, Ids, ObjectKeys, Values),
         Accepted(u)
  PROVE  /\ Shadow \in DOMAIN u.headers <=> Shadow \in DOMAIN u.extra
         /\ Shadow \in DOMAIN u.extra => u.headers[Shadow] = u.extra[Shadow]
<1> DEFINE granted == GrantHeaders(u.slot, u.extra)
<1>1. Shadow \notin Reserved
  BY DEF Shadow, Reserved, Header, Meta
<1>2. Shadow \notin DOMAIN SlotMetadata(u.slot)
  <2>1. DOMAIN u.slot.place \subseteq PlaceNames
    BY DEF Uploads, GrantSlots
  <2> QED BY <2>1 DEF Shadow, SlotMetadata, Meta, PlaceNames
<1>3. Shadow \in DOMAIN granted <=> Shadow \in DOMAIN u.extra
  BY <1>1, <1>2 DEF GrantHeaders
<1>4. Shadow \in DOMAIN u.headers => Shadow \in DOMAIN granted
  BY DEF Accepted, Signed, MetaHeaders, Shadow, Meta
<1>5. Shadow \in DOMAIN u.extra => granted[Shadow] = u.extra[Shadow]
  BY DEF GrantHeaders
<1> QED BY <1>3, <1>4, <1>5 DEF Accepted, Signed

\* The slot that an observation of a granted upload names.
LEMMA GrantedUploadNamesSlot ==
  ASSUME NEW Names, NEW Ids, NEW ObjectKeys, NEW Values,
         NEW u \in Uploads(Names, Ids, ObjectKeys, Values),
         Accepted(u)
  PROVE  NamedSlot(MetadataOf(u.headers)) =
           IF Shadow \in DOMAIN u.extra THEN {u.extra[Shadow]} ELSE {u.slot.id}
<1>1. DOMAIN u.headers \subseteq HeaderNames(Names)
  BY DEF Uploads
<1>2. /\ "x-olos-slot-id" \in DOMAIN MetadataOf(u.headers)
           <=> Shadow \in DOMAIN u.headers
      /\ "x-olos-slot-id" \in DOMAIN MetadataOf(u.headers) =>
           MetadataOf(u.headers)["x-olos-slot-id"] = u.headers[Shadow]
  <2> DEFINE headers == u.headers
             n == "x-olos-slot-id"
  <2>1. DOMAIN headers \subseteq HeaderNames(Names)
    BY <1>1
  <2> HIDE DEF headers, n
  <2>2. /\ n \in DOMAIN MetadataOf(headers) <=> Meta(n) \in DOMAIN headers
        /\ n \in DOMAIN MetadataOf(headers) =>
             MetadataOf(headers)[n] = headers[Meta(n)]
    BY <2>1, MetadataEntries
  <2> QED BY <2>2 DEF Shadow, headers, n
<1>3. /\ "olos-slot-id" \in DOMAIN MetadataOf(u.headers)
      /\ MetadataOf(u.headers)["olos-slot-id"] = u.slot.id
  BY <1>1, MetadataEntries, SignedAsGranted
<1> QED BY <1>2, <1>3, ShadowIsExtra DEF NamedSlot

----------------------------------------------------------------------------

\* An upload that was made with a grant for its slot, in size and in time, is
\* taken as evidence for it: what the grant makes the uploader send is what
\* the completion asks for.  The one additional header that a grant takes and
\* that would stand in the way is left out.
THEOREM GrantedUploadIsEvidence ==
  ASSUME NEW Names, NEW Ids, NEW ObjectKeys, NEW Values,
         NEW u \in Uploads(Names, Ids, ObjectKeys, Values),
         Accepted(u), Shadow \notin DOMAIN u.extra,
         NEW size \in Nat, NEW time \in Int, NEW tolerance \in Nat,
         u.slot.minBytes <= size, size <= u.slot.maxBytes,
         time <= u.slot.expiresAt + tolerance
  PROVE  Evidence(Observation(u.slot.key, u.headers, size, time), u.slot,
                  tolerance)
<1> DEFINE o == Observation(u.slot.key, u.headers, size, time)
<1>1. /\ o.key = u.slot.key /\ o.contentType = u.slot.contentType
      /\ o.size = size /\ o.observedAt = time
  BY SignedAsGranted DEF Observation
<1>2. o.named = {u.slot.id}
  BY GrantedUploadNamesSlot DEF Observation
<1>3. u.slot.minBytes \in Nat /\ u.slot.maxBytes \in Nat
  BY DEF Uploads, GrantSlots
<1>4. Mismatch(o, u.slot) = "none"
  BY <1>1, <1>3 DEF Mismatch
<1>5. u.slot.state = "issued"
  BY DEF Accepted, Granted
<1> QED BY <1>1, <1>2, <1>4, <1>5 DEF Evidence

\* An upload that was granted for one slot is no evidence for another, even
\* at the same key and of the same type and size: keys are used again, and a
\* grant outlives the slot it was given for.
THEOREM OthersUploadIsNone ==
  ASSUME NEW Names, NEW Ids, NEW ObjectKeys, NEW Values,
         NEW u \in Uploads(Names, Ids, ObjectKeys, Values),
         Accepted(u), Shadow \notin DOMAIN u.extra,
         NEW s, s.id # u.slot.id, NEW size, NEW time, NEW tolerance
  PROVE  ~Evidence(Observation(s.key, u.headers, size, time), s, tolerance)
<1>1. Observation(s.key, u.headers, size, time).named = {u.slot.id}
  BY GrantedUploadNamesSlot DEF Observation
<1> QED BY <1>1 DEF Evidence

\* A grant with an additional header x-amz-meta-x-olos-slot-id that names
\* something else is one whose upload can never complete its own slot.
THEOREM ShadowedUploadIsNone ==
  ASSUME NEW Names, NEW Ids, NEW ObjectKeys, NEW Values,
         NEW u \in Uploads(Names, Ids, ObjectKeys, Values),
         Accepted(u), Shadow \in DOMAIN u.extra, u.extra[Shadow] # u.slot.id,
         NEW size, NEW time, NEW tolerance
  PROVE  ~Evidence(Observation(u.slot.key, u.headers, size, time), u.slot,
                   tolerance)
<1>1. Observation(u.slot.key, u.headers, size, time).named = {u.extra[Shadow]}
  BY GrantedUploadNamesSlot DEF Observation
<1> QED BY <1>1 DEF Evidence

\* A slot's verdict is final and repeating it changes nothing: once expired,
\* rejected or revoked it takes no other, and nothing is evidence for it.
THEOREM VerdictsAreFinal ==
  ASSUME NEW Ids, NEW ObjectKeys, NEW Values,
         NEW s \in GrantSlots(Ids, ObjectKeys, Values),
         NEW verdict \in Verdicts, NEW now, Resolvable(s, verdict, now)
  PROVE  /\ \A t : Resolvable(Resolved(s, verdict), verdict, t)
         /\ Resolved(Resolved(s, verdict), verdict) = Resolved(s, verdict)
         /\ \A other \in Verdicts \ {verdict} :
              \A t : ~Resolvable(Resolved(s, verdict), other, t)
         /\ \A o, tolerance : ~Evidence(o, Resolved(s, verdict), tolerance)
<1>1. Resolved(s, verdict).state = verdict
  BY DEF Resolved, GrantSlots
<1>2. Resolved(Resolved(s, verdict), verdict) = Resolved(s, verdict)
  BY DEF Resolved, GrantSlots
<1>3. \A other : <<verdict, other>> \notin SlotTransitions
  BY DEF SlotTransitions, Verdicts
<1> QED BY <1>1, <1>2, <1>3 DEF Resolvable, Evidence, Verdicts

=============================================================================
