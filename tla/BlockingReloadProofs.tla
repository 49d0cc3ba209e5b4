------------------------ MODULE BlockingReloadProofs ------------------------
(***************************************************************************)
(* Safety of the blocking reload for any number of readers, any tracks,    *)
(* edges and requests: no wake-up is lost between the notifier and its     *)
(* readers, and no wake-up moves a reader to an older position.            *)
(***************************************************************************)
EXTENDS BlockingReload, TLAPS

\* Only its timer makes a reader expire.
ExpiredAreLate == \A r \in Readers : pc[r] = "expired" => late[r]

\* The invariant: who is parked and what the notifier knows are only
\* inductive together, since Announce wakes readers by their entries;
\* that no request is given up early rests on ExpiredAreLate.
IInv ==
  /\ TypeOK
  /\ WaitersAreParked
  /\ NobodySleepsOnLatest
  /\ NoEarlyTimeout
  /\ ExpiredAreLate

----------------------------------------------------------------------------
(***************************************************************************)
(* The order of positions.                                                 *)
(***************************************************************************)

LEMMA EdgeBehindAsymmetric ==
  ASSUME NEW e \in Edges \cup {NoEdge}, NEW f \in Edges \cup {NoEdge}, EdgeBehind(e, f)
  PROVE  ~EdgeBehind(f, e)
<1>1. /\ e.seq \in Int /\ e.part \in Int
      /\ f.seq \in Int /\ f.part \in Int
  BY NotifierAssumption DEF NoEdge, NoPart
<1> QED  BY <1>1 DEF EdgeBehind

\* Positions are a strict order: no cursor is ahead of one that is ahead of
\* it, nor of itself.
LEMMA AheadAsymmetric ==
  ASSUME NEW c \in Cursors, NEW d \in Cursors, Ahead(c, d)
  PROVE  ~Ahead(d, c)
<1>1. PICK t \in Tracks : \A u \in Tracks : EdgeBehind(d.edge[u], c.edge[t])
  BY DEF Ahead
<1>2. ASSUME NEW s \in Tracks, \A u \in Tracks : EdgeBehind(c.edge[u], d.edge[s])
      PROVE  FALSE
  <2>1. EdgeBehind(d.edge[s], c.edge[t]) /\ EdgeBehind(c.edge[t], d.edge[s])
    BY <1>1, <1>2
  <2>2. c.edge[t] \in Edges \cup {NoEdge} /\ d.edge[s] \in Edges \cup {NoEdge}
    BY DEF Cursors
  <2> QED  BY <2>1, <2>2, EdgeBehindAsymmetric
<1> QED  BY <1>2 DEF Ahead

LEMMA NeverAheadOfItself ==
  ASSUME NEW c \in Cursors
  PROVE  ~Ahead(c, c)
BY AheadAsymmetric

\* An update is never behind the cursor it is an update of.
LEMMA UpdatesAreNotBehind ==
  ASSUME NEW c \in Cursors, NEW d \in Cursors, IsCursorUpdateAfter(c, d)
  PROVE  ~Ahead(d, c)
BY AheadAsymmetric DEF IsCursorUpdateAfter

LEMMA NoCursorIsACursor == NoCursor \in Cursors /\ ~IsEndOfStream(NoCursor) /\ ~Published(NoCursor)
BY DEF NoCursor, Cursors, SessionStates, IsEndOfStream, Published

----------------------------------------------------------------------------
(***************************************************************************)
(* The invariant.                                                          *)
(***************************************************************************)

LEMMA InitEstablishes == Init => IInv
<1> SUFFICES ASSUME Init PROVE IInv
  OBVIOUS
<1>1. TypeOK
  BY NoCursorIsACursor DEF Init, TypeOK
<1> QED
  BY <1>1 DEF Init, IInv, WaitersAreParked, NobodySleepsOnLatest,
                NoEarlyTimeout, ExpiredAreLate

\* Types of the cursors that saves produce.
LEMMA SavedCursors ==
  ASSUME TypeOK
  PROVE  /\ \A t \in Tracks, e \in Edges : [stored EXCEPT !.edge[t] = e] \in Cursors
         /\ \A n \in SessionStates : [stored EXCEPT !.state = n] \in Cursors
BY DEF TypeOK, Cursors

\* One case per action; each says which conjuncts it can disturb and why
\* they survive.
LEMMA TypeStep == IInv /\ [Next]_vars => TypeOK'
<1> SUFFICES ASSUME IInv, [Next]_vars PROVE TypeOK'
  OBVIOUS
<1> USE DEF IInv
<1>1. CASE UNCHANGED vars
  BY <1>1 DEF TypeOK, vars, reading
<1>2. ASSUME NEW t \in Tracks, NEW e \in Edges, Advance(t, e) PROVE TypeOK'
  BY <1>2, SavedCursors DEF Advance, TypeOK, reading
<1>3. ASSUME NEW n \in SessionStates, Transition(n) PROVE TypeOK'
  BY <1>3, SavedCursors DEF Transition, TypeOK, reading
<1>4. CASE Replay
  BY <1>4 DEF Replay, TypeOK, reading
<1>5. ASSUME NEW c \in owed, Announce(c) PROVE TypeOK'
  <2>1. c \in Cursors /\ c.state \in SessionStates
    BY DEF TypeOK, Cursors
  <2>2. latest' \in {d \in Cursors : ~IsEndOfStream(d)}
    BY <1>5, <2>1, NoCursorIsACursor DEF Announce, Notify, Remembered
  <2>3. waiters' \subseteq [reader : Readers, after : Cursors] /\ owed' \subseteq Cursors
    BY <1>5 DEF Announce, Notify, TypeOK
  <2>4. \A r \in Readers : DeadlinePassed(r) \in BOOLEAN
    BY DEF DeadlinePassed, TypeOK
  <2>5. /\ pc' \in [Readers -> Blocked \cup {"idle", "answered"}]
        /\ held' \in [Readers -> Cursors]
        /\ late' \in [Readers -> BOOLEAN]
    BY <1>5, <2>1, <2>4 DEF Announce, TypeOK, Blocked
  <2> QED  BY <1>5, <2>2, <2>3, <2>5 DEF Announce, TypeOK
<1>6. ASSUME NEW r \in Readers, NEW q \in Requests, Load(r, q) PROVE TypeOK'
  BY <1>6 DEF Load, TypeOK, Blocked
<1>7. ASSUME NEW r \in Readers, Refuse(r) \/ Ready(r) \/ GiveUp(r) PROVE TypeOK'
  BY <1>7 DEF Refuse, Ready, GiveUp, Answer, TypeOK
<1>8. ASSUME NEW r \in Readers, CatchUp(r) PROVE TypeOK'
  BY <1>8 DEF CatchUp, TypeOK, Blocked
<1>9. ASSUME NEW r \in Readers, Wait(r) PROVE TypeOK'
  BY <1>9 DEF Wait, Park, TypeOK, Blocked
<1>10. ASSUME NEW r \in Readers, TimerFires(r) \/ Deadline(r) PROVE TypeOK'
  BY <1>10 DEF TimerFires, Deadline, TypeOK, Blocked
<1>11. ASSUME NEW r \in Readers, Expire(r) PROVE TypeOK'
  BY <1>11 DEF Expire, Abort, Answer, TypeOK
<1> QED
  BY <1>1, <1>2, <1>3, <1>4, <1>5, <1>6, <1>7, <1>8, <1>9, <1>10, <1>11 DEF Next, Step

LEMMA ParkedStep == IInv /\ [Next]_vars => WaitersAreParked'
<1> SUFFICES ASSUME IInv, [Next]_vars PROVE WaitersAreParked'
  OBVIOUS
<1> USE DEF IInv
<1>0. /\ \A w \in waiters : w.reader \in Readers
      /\ pc \in [Readers -> Blocked \cup {"idle", "answered"}]
      /\ held \in [Readers -> Cursors]
  BY DEF TypeOK
<1>1. CASE UNCHANGED vars
  BY <1>1 DEF WaitersAreParked, vars, reading
<1>2. ASSUME NEW t \in Tracks, NEW e \in Edges, Advance(t, e) PROVE WaitersAreParked'
  BY <1>2 DEF Advance, WaitersAreParked, reading
<1>3. ASSUME NEW n \in SessionStates, Transition(n) PROVE WaitersAreParked'
  BY <1>3 DEF Transition, WaitersAreParked, reading
<1>4. CASE Replay
  BY <1>4 DEF Replay, WaitersAreParked, reading
<1>5. ASSUME NEW c \in owed, Announce(c) PROVE WaitersAreParked'
  <2> DEFINE woken == {r \in Readers : pc[r] = "waiting" /\ \E w \in Woken(c) : w.reader = r}
  <2>1. /\ waiters' = waiters \ Woken(c)
        /\ pc' = [r \in Readers |-> IF r \in woken THEN "checking" ELSE pc[r]]
        /\ held' = [r \in Readers |-> IF r \in woken THEN c ELSE held[r]]
    BY <1>5 DEF Announce, Notify
  \* Entries of one reader hold the same cursor, so all or none are woken.
  <2>2. ASSUME NEW w \in waiters', w.reader \in woken PROVE FALSE
    <3>1. PICK x \in Woken(c) : x.reader = w.reader
      BY <2>2
    <3>2. x.after = w.after
      BY <2>1, <3>1 DEF WaitersAreParked, Woken
    <3> QED  BY <2>1, <3>1, <3>2 DEF Woken
  <2>3. ASSUME NEW w \in waiters'
        PROVE  pc'[w.reader] \in {"waiting", "expired"} /\ w.after = held'[w.reader]
    BY <1>0, <2>1, <2>2, <2>3 DEF WaitersAreParked
  <2>4. ASSUME NEW r \in Readers, pc'[r] = "waiting"
        PROVE  \E w \in waiters' : w.reader = r
    <3>1. r \notin woken /\ pc[r] = "waiting"
      BY <2>1, <2>4
    <3>2. PICK w \in waiters : w.reader = r
      BY <3>1 DEF WaitersAreParked
    <3> QED  BY <2>1, <3>1, <3>2
  <2> QED  BY <2>3, <2>4 DEF WaitersAreParked
<1>6. ASSUME NEW r \in Readers, NEW q \in Requests, Load(r, q) PROVE WaitersAreParked'
  BY <1>0, <1>6 DEF Load, WaitersAreParked
<1>7. ASSUME NEW r \in Readers, Refuse(r) \/ Ready(r) \/ GiveUp(r) PROVE WaitersAreParked'
  BY <1>0, <1>7 DEF Refuse, Ready, GiveUp, Entered, Answer, WaitersAreParked
<1>8. ASSUME NEW r \in Readers, CatchUp(r) PROVE WaitersAreParked'
  BY <1>0, <1>8 DEF CatchUp, MustWait, Entered, WaitersAreParked
<1>9. ASSUME NEW r \in Readers, Wait(r) PROVE WaitersAreParked'
  <2>1. /\ waiters' = waiters \cup {[reader |-> r, after |-> held[r]]}
        /\ pc' = [pc EXCEPT ![r] = "waiting"]
        /\ held' = held
        /\ pc[r] \in {"loaded", "checking"}
    BY <1>9 DEF Wait, Park, MustWait, Entered
  <2>2. ASSUME NEW w \in waiters'
        PROVE  pc'[w.reader] \in {"waiting", "expired"} /\ w.after = held'[w.reader]
    <3>1. CASE w \in waiters
      BY <1>0, <2>1, <3>1 DEF WaitersAreParked
    <3>2. CASE w = [reader |-> r, after |-> held[r]]
      BY <1>0, <2>1, <3>2
    <3> QED  BY <2>1, <3>1, <3>2
  <2>3. ASSUME NEW x \in Readers, pc'[x] = "waiting"
        PROVE  \E w \in waiters' : w.reader = x
    <3>1. CASE x = r
      <4>1. [reader |-> r, after |-> held[r]].reader = x
        BY <3>1
      <4> QED  BY <2>1, <4>1
    <3>2. CASE x # r
      BY <1>0, <2>1, <2>3, <3>2 DEF WaitersAreParked
    <3> QED  BY <3>1, <3>2
  <2> QED  BY <2>2, <2>3 DEF WaitersAreParked
<1>10. ASSUME NEW r \in Readers, TimerFires(r) \/ Deadline(r) PROVE WaitersAreParked'
  BY <1>0, <1>10 DEF TimerFires, Deadline, WaitersAreParked
<1>11. ASSUME NEW r \in Readers, Expire(r) PROVE WaitersAreParked'
  BY <1>0, <1>11 DEF Expire, Abort, Answer, WaitersAreParked
<1> QED
  BY <1>1, <1>2, <1>3, <1>4, <1>5, <1>6, <1>7, <1>8, <1>9, <1>10, <1>11 DEF Next, Step

LEMMA LatestStep == IInv /\ [Next]_vars => NobodySleepsOnLatest'
<1> SUFFICES ASSUME IInv, [Next]_vars PROVE NobodySleepsOnLatest'
  OBVIOUS
<1> USE DEF IInv, NobodySleepsOnLatest, LatestIsUpdate
<1>0. /\ pc \in [Readers -> Blocked \cup {"idle", "answered"}]
      /\ held \in [Readers -> Cursors]
  BY DEF TypeOK
<1>1. CASE UNCHANGED vars
  BY <1>1 DEF vars, reading
<1>2. ASSUME NEW t \in Tracks, NEW e \in Edges, Advance(t, e) PROVE NobodySleepsOnLatest'
  BY <1>2 DEF Advance, reading
<1>3. ASSUME NEW n \in SessionStates, Transition(n) PROVE NobodySleepsOnLatest'
  BY <1>3 DEF Transition, reading
<1>4. CASE Replay
  BY <1>4 DEF Replay, reading
<1>5. ASSUME NEW c \in owed, Announce(c) PROVE NobodySleepsOnLatest'
  <2> SUFFICES ASSUME NEW r \in Readers, pc'[r] = "waiting", Published(latest)'
               PROVE  ~IsCursorUpdateAfter(latest', held'[r])
    OBVIOUS
  <2>1. /\ waiters' = waiters \ Woken(c)
        /\ latest' = NoCursor \/ latest' = c
        /\ pc[r] = "waiting"
        /\ ~ \E w \in Woken(c) : w.reader = r
        /\ held'[r] = held[r]
    BY <1>0, <1>5 DEF Announce, Notify, Remembered
  <2>2. PICK w \in waiters : w.reader = r /\ w.after = held[r]
    BY <2>1 DEF WaitersAreParked
  <2>3. ~IsCursorUpdateAfter(c, held[r])
    BY <2>1, <2>2 DEF Woken
  <2>4. latest' # NoCursor
    BY NoCursorIsACursor DEF Published
  <2> QED  BY <2>1, <2>3, <2>4
<1>6. ASSUME NEW r \in Readers, NEW q \in Requests, Load(r, q) PROVE NobodySleepsOnLatest'
  BY <1>0, <1>6 DEF Load
<1>7. ASSUME NEW r \in Readers, Refuse(r) \/ Ready(r) \/ GiveUp(r) PROVE NobodySleepsOnLatest'
  BY <1>0, <1>7 DEF Refuse, Ready, GiveUp, Answer
<1>8. ASSUME NEW r \in Readers, CatchUp(r) PROVE NobodySleepsOnLatest'
  BY <1>0, <1>8 DEF CatchUp
<1>9. ASSUME NEW r \in Readers, Wait(r) PROVE NobodySleepsOnLatest'
  BY <1>0, <1>9 DEF Wait, Park
<1>10. ASSUME NEW r \in Readers, TimerFires(r) \/ Deadline(r) PROVE NobodySleepsOnLatest'
  BY <1>0, <1>10 DEF TimerFires, Deadline
<1>11. ASSUME NEW r \in Readers, Expire(r) PROVE NobodySleepsOnLatest'
  BY <1>0, <1>11 DEF Expire, Abort, Answer
<1> QED
  BY <1>1, <1>2, <1>3, <1>4, <1>5, <1>6, <1>7, <1>8, <1>9, <1>10, <1>11 DEF Next, Step

LEMMA TimeoutStep == IInv /\ [Next]_vars => (NoEarlyTimeout /\ ExpiredAreLate)'
<1> SUFFICES ASSUME IInv, [Next]_vars PROVE (NoEarlyTimeout /\ ExpiredAreLate)'
  OBVIOUS
<1> USE DEF IInv, NoEarlyTimeout, ExpiredAreLate
<1>0. /\ pc \in [Readers -> Blocked \cup {"idle", "answered"}]
      /\ held \in [Readers -> Cursors]
      /\ late \in [Readers -> BOOLEAN]
      /\ status \in [Readers -> {"none", "refused", "ready", "timeout"}]
  BY DEF TypeOK
<1>1. CASE UNCHANGED vars
  BY <1>1 DEF vars, reading
<1>2. ASSUME NEW t \in Tracks, NEW e \in Edges, Advance(t, e) PROVE (NoEarlyTimeout /\ ExpiredAreLate)'
  BY <1>2 DEF Advance, reading
<1>3. ASSUME NEW n \in SessionStates, Transition(n) PROVE (NoEarlyTimeout /\ ExpiredAreLate)'
  BY <1>3 DEF Transition, reading
<1>4. CASE Replay
  BY <1>4 DEF Replay, reading
<1>5. ASSUME NEW c \in owed, Announce(c) PROVE (NoEarlyTimeout /\ ExpiredAreLate)'
  BY <1>0, <1>5 DEF Announce
<1>6. ASSUME NEW r \in Readers, NEW q \in Requests, Load(r, q) PROVE (NoEarlyTimeout /\ ExpiredAreLate)'
  BY <1>0, <1>6 DEF Load
<1>7. ASSUME NEW r \in Readers, Refuse(r) \/ Ready(r) PROVE (NoEarlyTimeout /\ ExpiredAreLate)'
  BY <1>0, <1>7 DEF Refuse, Ready, Answer
<1>8. ASSUME NEW r \in Readers, GiveUp(r) PROVE (NoEarlyTimeout /\ ExpiredAreLate)'
  BY <1>0, <1>8 DEF GiveUp, Answer, NothingToCome, IsEndOfStream
<1>9. ASSUME NEW r \in Readers, CatchUp(r) \/ Wait(r) PROVE (NoEarlyTimeout /\ ExpiredAreLate)'
  BY <1>0, <1>9 DEF CatchUp, Wait
<1>10. ASSUME NEW r \in Readers, TimerFires(r) \/ Deadline(r) PROVE (NoEarlyTimeout /\ ExpiredAreLate)'
  BY <1>0, <1>10 DEF TimerFires, Deadline
<1>11. ASSUME NEW r \in Readers, Expire(r) PROVE (NoEarlyTimeout /\ ExpiredAreLate)'
  BY <1>0, <1>11 DEF Expire, Answer
<1> QED
  BY <1>1, <1>2, <1>3, <1>4, <1>5, <1>6, <1>7, <1>8, <1>9, <1>10, <1>11 DEF Next, Step

LEMMA StepPreserves == IInv /\ [Next]_vars => IInv'
BY TypeStep, ParkedStep, LatestStep, TimeoutStep DEF IInv

\* The invariant holds for any number of readers and any tracks and edges.
THEOREM ReloadInvariance == Spec => []IInv
BY InitEstablishes, StepPreserves, PTL DEF Spec

\* The notifier's map and set and the readers' states keep their shape, and
\* a session that is over has no entry (notifyCursorAdvance).
THEOREM ReloadTypeCorrect == Spec => []TypeOK
BY ReloadInvariance, PTL DEF IInv

\* The waiters registered are exactly the readers that are parked, each with
\* the cursor it holds (waitForAdvancedCursor and its abort listener).
THEOREM WaitersAlwaysParked == Spec => []WaitersAreParked
BY ReloadInvariance, PTL DEF IInv

\* No wake-up is lost between the notifier's look at its latest cursor and
\* the registration (createMemoryRuntimeCursorNotifier).
THEOREM NoLostWakeUp == Spec => []NobodySleepsOnLatest
BY ReloadInvariance, PTL DEF IInv

\* A request is answered as timed out only when its deadline has passed or
\* its session is over (waitForHlsBlockingReload).
THEOREM NeverGivenUpEarly == Spec => []NoEarlyTimeout
BY ReloadInvariance, PTL DEF IInv

----------------------------------------------------------------------------
(***************************************************************************)
(* Positions.                                                              *)
(***************************************************************************)

LEMMA ForwardStep ==
  ASSUME IInv, [Next]_vars, NEW r \in Readers, pc[r] \in Blocked
  PROVE  ~Ahead(held[r], held'[r])
<1>0. held \in [Readers -> Cursors] /\ latest \in Cursors
  BY DEF IInv, TypeOK
<1>1. CASE held'[r] = held[r]
  BY <1>0, <1>1, NeverAheadOfItself
<1>2. ASSUME NEW c \in owed, Announce(c) PROVE ~Ahead(held[r], held'[r])
  <2>1. CASE pc[r] = "waiting" /\ \E w \in Woken(c) : w.reader = r
    <3>1. PICK w \in Woken(c) : w.reader = r
      BY <2>1
    <3>2. w.after = held[r] /\ IsCursorUpdateAfter(c, w.after)
      BY <3>1 DEF IInv, WaitersAreParked, Woken
    <3>3. held'[r] = c /\ c \in Cursors
      BY <1>2, <2>1 DEF Announce, IInv, TypeOK
    <3> QED  BY <1>0, <3>2, <3>3, UpdatesAreNotBehind
  <2>2. CASE ~(pc[r] = "waiting" /\ \E w \in Woken(c) : w.reader = r)
    BY <1>1, <1>2, <2>2 DEF Announce
  <2> QED  BY <2>1, <2>2
<1>3. ASSUME NEW x \in Readers, CatchUp(x) PROVE ~Ahead(held[r], held'[r])
  <2>1. CASE x = r
    <3>1. held'[r] = latest /\ IsCursorUpdateAfter(latest, held[r])
      BY <1>0, <1>3, <2>1 DEF CatchUp, LatestIsUpdate
    <3> QED  BY <1>0, <3>1, UpdatesAreNotBehind
  <2>2. CASE x # r
    BY <1>0, <1>1, <1>3, <2>2 DEF CatchUp
  <2> QED  BY <2>1, <2>2
<1>4. ASSUME NEW x \in Readers, NEW q \in Requests, Load(x, q) PROVE held'[r] = held[r]
  BY <1>0, <1>4 DEF Load, Blocked
<1>5. ASSUME NEW x \in Readers,
             Refuse(x) \/ Ready(x) \/ GiveUp(x) \/ Wait(x) \/ TimerFires(x) \/ Expire(x)
               \/ Deadline(x)
      PROVE  held'[r] = held[r]
  BY <1>5 DEF Refuse, Ready, GiveUp, Wait, TimerFires, Expire, Deadline, Answer
<1>6. ASSUME NEW t \in Tracks, NEW e \in Edges, Advance(t, e) PROVE held'[r] = held[r]
  BY <1>6 DEF Advance, reading
<1>7. ASSUME NEW n \in SessionStates, Transition(n) PROVE held'[r] = held[r]
  BY <1>7 DEF Transition, reading
<1>8. CASE Replay \/ UNCHANGED vars
  BY <1>1, <1>8 DEF Replay, reading, vars
<1> QED
  BY <1>1, <1>2, <1>3, <1>4, <1>5, <1>6, <1>7, <1>8 DEF Next, Step

\* Notifications may overtake each other as they like: no wake-up moves the
\* position of a waiting reader back (isCursorUpdateAfter).
THEOREM PositionsAlwaysGoForward == Spec => PositionsGoForward
<1>1. IInv /\ [Next]_vars
        => [\A r \in Readers : pc[r] \in Blocked => ~Ahead(held[r], held'[r])]_vars
  BY ForwardStep
<1> QED
  BY <1>1, ReloadInvariance, PTL DEF Spec, PositionsGoForward

=============================================================================
