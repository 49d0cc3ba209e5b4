--------------------------- MODULE BlockingReload ---------------------------
(***************************************************************************)
(* Playlist requests that are held open until the session reaches the      *)
(* position they name (src/olos/src/hls/blocking-reload.ts), and the write *)
(* handlers that save a new cursor and then, in no particular order,       *)
(* notify it (src/olos/src/runtime/http-session-routes.ts).                *)
(*                                                                         *)
(* A reader loads the stored cursor by an asynchronous read; what it does  *)
(* from one await to the next is atomic.  Between its read and its         *)
(* registration with the notifier anything can be saved and notified.      *)
(***************************************************************************)
EXTENDS CursorNotifier

CONSTANTS
  Requests,  \* positions requested, [track, seq, part]
  MaxOwed    \* bound: cursors saved whose notification is still to come

ASSUME ReloadAssumption ==
  /\ Requests \subseteq [track : Tracks, seq : Nat, part : Nat \cup {NoPart}]
  /\ MaxOwed \in Nat

VARIABLES
  stored,   \* the cursor in the store
  owed,     \* saved cursors that some handler is about to notify
  pc,       \* per reader: where it is
  request,  \* per reader: the position it asks for
  held,     \* per reader: the cursor it works on, and serves in the end
  late,     \* per reader: whether its deadline has passed
  status    \* per reader: how its last request was answered

reading == <<pc, request, held, late, status>>

vars == <<latest, waiters, stored, owed, reading>>

\* loaded, checking and expired readers have a continuation to run.
Blocked == {"loaded", "checking", "waiting", "expired"}

SessionTransitions ==
  {<<"live", "ending">>, <<"live", "aborted">>, <<"ending", "ended">>}

----------------------------------------------------------------------------
(***************************************************************************)
(* Requests.                                                               *)
(***************************************************************************)

\* The position is past the live edge of the request's own track.  A segment
\* without parts answers requests for any of its parts.
Blocks(c, q) ==
  LET e == c.edge[q.track]
  IN  \/ q.seq > e.seq
      \/ /\ q.seq = e.seq
         /\ e.part # NoPart
         /\ q.part > e.part

\* No playlist yet, or a position that cannot be a reload; looked at once,
\* when the request comes in.
Refused(c, q) == c.edge[q.track] = NoEdge \/ q.seq > c.edge[q.track].seq + 2

Init ==
  /\ latest = NoCursor
  /\ waiters = {}
  /\ stored = NoCursor
  /\ owed = {}
  /\ pc = [r \in Readers |-> "idle"]
  /\ request \in [Readers -> Requests]
  /\ held = [r \in Readers |-> NoCursor]
  /\ late = [r \in Readers |-> FALSE]
  /\ status = [r \in Readers |-> "none"]

----------------------------------------------------------------------------
(***************************************************************************)
(* Write handlers.                                                         *)
(***************************************************************************)

\* A commit moves the edge of one track; the store serialises the saves.
Advance(t, e) ==
  /\ Cardinality(owed) < MaxOwed
  /\ stored.state # "aborted"
  /\ EdgeBehind(stored.edge[t], e)
  /\ stored' = [stored EXCEPT !.edge[t] = e]
  /\ owed' = owed \cup {stored'}
  /\ UNCHANGED <<latest, waiters, reading>>

Transition(next) ==
  /\ Cardinality(owed) < MaxOwed
  /\ <<stored.state, next>> \in SessionTransitions
  /\ stored' = [stored EXCEPT !.state = next]
  /\ owed' = owed \cup (IF Published(stored) THEN {stored'} ELSE {})
  /\ UNCHANGED <<latest, waiters, reading>>

\* A repeated commit saves nothing and notifies the cursor it has loaded.
Replay ==
  /\ Cardinality(owed) < MaxOwed
  /\ Published(stored)
  /\ owed' = owed \cup {stored}
  /\ UNCHANGED <<latest, waiters, stored, reading>>

\* Fault: every wait is given the whole time again.
DeadlineRestarts(r) == FALSE

\* The deadline is that of the request: a wake-up leaves what has passed of it.
DeadlinePassed(r) == late[r]

\* A handler gets to notify; others may be about to notify the same cursor.
Announce(c) ==
  /\ Notify(c)
  /\ owed' \in {owed, owed \ {c}}
  /\ LET woken == {r \in Readers : pc[r] = "waiting" /\ \E w \in Woken(c) : w.reader = r}
     IN  /\ pc' = [r \in Readers |-> IF r \in woken THEN "checking" ELSE pc[r]]
         /\ held' = [r \in Readers |-> IF r \in woken THEN c ELSE held[r]]
         /\ late' = [r \in Readers |-> IF r \in woken THEN DeadlinePassed(r) ELSE late[r]]
  /\ UNCHANGED <<stored, request, status>>

----------------------------------------------------------------------------
(***************************************************************************)
(* Readers.                                                                *)
(***************************************************************************)

Load(r, q) ==
  /\ pc[r] \in {"idle", "answered"}
  /\ pc' = [pc EXCEPT ![r] = "loaded"]
  /\ request' = [request EXCEPT ![r] = q]
  /\ held' = [held EXCEPT ![r] = stored]
  /\ late' = [late EXCEPT ![r] = FALSE]
  /\ status' = [status EXCEPT ![r] = "none"]
  /\ UNCHANGED <<latest, waiters, stored, owed>>

Answer(r, s) ==
  /\ pc' = [pc EXCEPT ![r] = "answered"]
  /\ status' = [status EXCEPT ![r] = s]
  /\ UNCHANGED <<stored, owed, request, held, late>>

Refuse(r) ==
  /\ pc[r] = "loaded"
  /\ Refused(held[r], request[r])
  /\ Answer(r, "refused")
  /\ UNCHANGED <<latest, waiters>>

Entered(r) ==
  \/ pc[r] = "checking"
  \/ pc[r] = "loaded" /\ ~Refused(held[r], request[r])

Ready(r) ==
  /\ Entered(r)
  /\ ~Blocks(held[r], request[r])
  /\ Answer(r, "ready")
  /\ UNCHANGED <<latest, waiters>>

\* Fault: nothing more is expected of a session that is about to end.
NothingToComeOnceEnding(c) == c.state # "live"

\* A blocked request of a session that is over can never be satisfied.
NothingToCome(c) == IsEndOfStream(c)

GiveUp(r) ==
  /\ Entered(r)
  /\ Blocks(held[r], request[r])
  /\ NothingToCome(held[r]) \/ late[r]
  /\ Answer(r, "timeout")
  /\ UNCHANGED <<latest, waiters>>

MustWait(r) ==
  /\ Entered(r)
  /\ Blocks(held[r], request[r])
  /\ ~NothingToCome(held[r])
  /\ ~late[r]

CatchUp(r) ==
  /\ MustWait(r)
  /\ LatestIsUpdate(held[r])
  /\ held' = [held EXCEPT ![r] = latest]
  /\ pc' = [pc EXCEPT ![r] = "checking"]
  /\ UNCHANGED <<latest, waiters, stored, owed, request, late, status>>

Wait(r) ==
  /\ MustWait(r)
  /\ Park(r, held[r])
  /\ pc' = [pc EXCEPT ![r] = "waiting"]
  /\ UNCHANGED <<stored, owed, request, held, late, status>>

\* Time passes.
Deadline(r) ==
  /\ pc[r] \in {"loaded", "checking", "waiting"}
  /\ ~late[r]
  /\ late' = [late EXCEPT ![r] = TRUE]
  /\ UNCHANGED <<latest, waiters, stored, owed, pc, request, held, status>>

\* The timer wins the race against the notifier ...
TimerFires(r) ==
  /\ pc[r] = "waiting"
  /\ late[r]
  /\ pc' = [pc EXCEPT ![r] = "expired"]
  /\ UNCHANGED <<latest, waiters, stored, owed, request, held, late, status>>

\* ... and the reader is deregistered only when the race has returned.
Expire(r) ==
  /\ pc[r] = "expired"
  /\ Abort(r)
  /\ Answer(r, "timeout")

Step(r) ==
  \/ Refuse(r) \/ Ready(r) \/ GiveUp(r) \/ CatchUp(r) \/ Wait(r)
  \/ TimerFires(r) \/ Expire(r)

Next ==
  \/ \E t \in Tracks, e \in Edges : Advance(t, e)
  \/ \E next \in SessionStates : Transition(next)
  \/ Replay
  \/ \E c \in owed : Announce(c)
  \/ \E r \in Readers, q \in Requests : Load(r, q)
  \/ \E r \in Readers : Step(r) \/ Deadline(r)

Spec == Init /\ [][Next]_vars

\* Continuations run, time passes and timers fire.  Nothing is assumed of
\* the write handlers: readers must not depend on being notified.
FairSpec ==
  Spec /\ \A r \in Readers : WF_vars(Step(r)) /\ WF_vars(Deadline(r))

----------------------------------------------------------------------------
(***************************************************************************)
(* Properties.                                                             *)
(***************************************************************************)

\* Types; the notifier never holds a cursor of a session that is over.
TypeOK ==
  /\ latest \in {c \in Cursors : ~IsEndOfStream(c)}
  /\ waiters \subseteq [reader : Readers, after : Cursors]
  /\ stored \in Cursors
  /\ owed \subseteq Cursors
  /\ pc \in [Readers -> Blocked \cup {"idle", "answered"}]
  /\ request \in [Readers -> Requests]
  /\ held \in [Readers -> Cursors]
  /\ late \in [Readers -> BOOLEAN]
  /\ status \in [Readers -> {"none", "refused", "ready", "timeout"}]

\* The notifier and the readers agree on who is parked: no entry outlives
\* its reader's wait, none is missing, and each is compared with the cursor
\* its reader has really seen.
WaitersAreParked ==
  /\ \A w \in waiters : pc[w.reader] \in {"waiting", "expired"} /\ w.after = held[w.reader]
  /\ \A r \in Readers : pc[r] = "waiting" => \E w \in waiters : w.reader = r

\* No lost wake-up: a reader never sleeps while the notifier's latest cursor
\* is an update for it, whether it was notified before or after it parked.
NobodySleepsOnLatest ==
  Published(latest) =>
    \A r \in Readers : pc[r] = "waiting" => ~IsCursorUpdateAfter(latest, held[r])

\* A request is only turned away unsatisfied when its time is up or its
\* session is over, and a session that is ending is not over.
NoEarlyTimeout ==
  \A r \in Readers : pc[r] = "answered" /\ status[r] = "timeout" =>
    late[r] \/ held[r].state \in {"ended", "aborted"}

\* Whatever wakes a reader, the position of its cursor never moves back.
PositionsGoForward ==
  [][\A r \in Readers : pc[r] \in Blocked => ~Ahead(held[r], held'[r])]_vars

\* Every request is answered, whatever is notified or not.
ReloadsSettle == \A r \in Readers : pc[r] \in Blocked ~> pc[r] = "answered"

\* "waitForCursor resolves immediately when the latest known cursor is
\* already ahead of the caller's": with all notifications delivered, nobody
\* sleeps on a cursor that the store has moved past.
SleepersAreUpToDate ==
  owed = {} =>
    \A r \in Readers : pc[r] = "waiting" => ~IsCursorUpdateAfter(stored, held[r])

=============================================================================
