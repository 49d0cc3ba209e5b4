--------------------------- MODULE PublisherLease ---------------------------
(***************************************************************************)
(* The leases that publishers of a session keep alive with heartbeats, and *)
(* the health that is read from them and from the cursor                   *)
(* (src/olos/src/runtime/publisher-lease.ts, health.ts).  A heartbeat is   *)
(* clocked by the server that handles it, so two of them may be handled    *)
(* out of the order of their clocks.                                       *)
(***************************************************************************)
EXTENDS Integers, SequencesExt

CONSTANTS
  Publishers,   \* publisher instance ids
  LeaseTtl,     \* ttlMs
  MaxCursorAge  \* maxCursorAgeMs

ASSUME LeaseAssumption ==
  /\ LeaseTtl \in Int /\ LeaseTtl > 0
  /\ MaxCursorAge \in Int /\ MaxCursorAge > 0

VARIABLE leases  \* publisherLeases of the persisted state, in order

Leases ==
  [publisher : Publishers, issuedAt : Int, lastSeenAt : Int, expiresAt : Int]

\* A lease's own clock readings never contradict each other.
Timeline(l) == l.issuedAt <= l.lastSeenAt /\ l.lastSeenAt <= l.expiresAt

LeaseInit == leases = <<>>

LeaseOf(p) == {l \in ToSet(leases) : l.publisher = p}

CreateLease(p, now) ==
  [publisher |-> p, issuedAt |-> now, lastSeenAt |-> now,
   expiresAt |-> now + LeaseTtl]

RefreshLease(l, now) ==
  [l EXCEPT !.lastSeenAt = now, !.expiresAt = now + LeaseTtl]

\* Fault: a heartbeat may be clocked before its lease was issued.
HeartbeatTakenLive(p, now, state) == state \notin {"ended", "aborted"}

\* A heartbeat clocked before its lease was issued is rejected, and so is
\* one to a session that is over (HEARTBEAT_TERMINAL_SESSION_STATES).
HeartbeatTaken(p, now, state) ==
  /\ state \notin {"ended", "aborted"}
  /\ \A l \in LeaseOf(p) : now >= l.issuedAt

\* The publisher's lease moves to the end of the list, in which it has one at
\* most (LeasesSound).
LeaseReplaced(l) ==
  Append(RemoveFirstMatch(leases, LAMBDA e : e.publisher = l.publisher), l)

Heartbeat(p, now, state) ==
  /\ HeartbeatTaken(p, now, state)
  /\ leases' = LeaseReplaced(
       IF LeaseOf(p) = {} THEN CreateLease(p, now)
       ELSE RefreshLease(CHOOSE l \in LeaseOf(p) : TRUE, now))

----------------------------------------------------------------------------
(***************************************************************************)
(* Health.                                                                 *)
(***************************************************************************)

LeaseStatus(l, now) == IF now <= l.expiresAt THEN "active" ELSE "stale"

\* The lease seen last; of several, the first in the list.
LatestLease ==
  LET Newest(i) == \A j \in DOMAIN leases :
        \/ leases[j].lastSeenAt < leases[i].lastSeenAt
        \/ leases[j].lastSeenAt = leases[i].lastSeenAt /\ j >= i
  IN  {leases[i] : i \in {j \in DOMAIN leases : Newest(j)}}

\* The age of a cursor from a clock that runs ahead counts as zero.
CursorAge(updatedAt, now) == IF now < updatedAt THEN 0 ELSE now - updatedAt

\* updatedAt holds the time of the cursor when there is one.  judged holds
\* the lease that is looked at when there is one.
HealthStatus(updatedAt, judged, now) ==
  LET expired == \E l \in judged : LeaseStatus(l, now) = "stale"
      fresh == \A u \in updatedAt : CursorAge(u, now) <= MaxCursorAge
  IN  IF expired \/ ~fresh THEN "stale"
      ELSE IF updatedAt = {} THEN "starting" ELSE "active"

\* A publisher that is asked for and has no lease makes the session stale.
HealthOfPublisher(p, updatedAt, now) ==
  IF LeaseOf(p) = {} THEN "stale"
  ELSE HealthStatus(updatedAt, LeaseOf(p), now)

HealthOfSession(updatedAt, now) == HealthStatus(updatedAt, LatestLease, now)

----------------------------------------------------------------------------

\* One lease per publisher, each with its timeline in order: what health and
\* the next heartbeat assert of the leases they read (publisher-lease.ts), so
\* that a lease which servers clocked out of order would make every one of
\* them throw from then on.
LeasesSound ==
  /\ \A i, j \in DOMAIN leases :
       leases[i].publisher = leases[j].publisher => i = j
  /\ \A i \in DOMAIN leases : Timeline(leases[i])

=============================================================================
