----------------------------- MODULE S3Pipeline -----------------------------
(***************************************************************************)
(* The pipeline of one session over an S3 bucket (src/olos/src/s3).        *)
(* Publishers get presigned grants and write objects themselves; that an   *)
(* object is there is told by hints, by provider events, by sweeps or by   *)
(* nobody, each late, twice or never.  Whoever completes an upload         *)
(* observes the object first and saves afterwards, with the etag it        *)
(* loaded, and deletes what its commit retired after that.  The pipeline's *)
(* own steps are those of Coordinator.                                     *)
(*                                                                         *)
(* Load and HeadObject are one step: a save goes through only if nothing   *)
(* was saved since the load, so the load may as well be made then.  An     *)
(* answer given without a save may in the code rest on an older state.     *)
(***************************************************************************)
EXTENDS Coordinator, DeletePool, SequencesExt

CONSTANTS
  Handlers,
  Facts,        \* profile data that a hint brings, or "none"
  MaxAttempts,  \* maxAttempts of the optimistic loop
  MaxIssues,    \* bound: slots issued in a run
  Closings,     \* session states that the session is moved to
  NoSlot        \* the writer of a key that has no object

ASSUME S3Assumption ==
  /\ MaxAttempts \in Nat \ {0}
  /\ MaxIssues \in Nat
  /\ Closings \subseteq SessionStates
  /\ NoSlot \notin SlotIds

VARIABLES
  issues,   \* slots issued so far
  bucket,   \* per object key: the slot that the object's metadata names
  grants,   \* presigned PUT URLs that can still be used
  facts,    \* per slot: the profile data of its commit
  pc,       \* per handler: where it is
  job,      \* per handler: what it works on
  fresh,    \* per handler: nothing was saved since its load
  plan,     \* per handler: the slots its sweep has still to try
  retired,  \* per handler: what the commits of its sweep retired, in order
  pools     \* per handler: its deletes, one pool per commit

storage == <<issues, bucket, grants>>
work == <<pc, job, fresh, plan, retired, pools>>
s3vars == <<vars, storage, facts, work>>

\* The key is derived from the position; an init object's has no sequence
\* number.  A nonce could only tell more keys apart.
Key(a) == IF a.kind = "init" THEN [a EXCEPT !.seq = 0] ELSE a

Keys == {Key(a) : a \in Positions}

Grants == [slot : SlotIds, key : Keys]

\* The completion of a slot, for a request of its own or within a sweep.
NoJob == [sweep |-> FALSE, slot |-> NoSlot, facts |-> "none", attempt |-> 1]

\* A save makes every snapshot stale.
NothingFresh == [h \in Handlers |-> FALSE]

S3Init ==
  /\ Init
  /\ bucket = [k \in Keys |-> NoSlot]
  /\ grants = {}
  /\ issues = 0
  /\ facts = [id \in SlotIds |-> "none"]
  /\ pc = [h \in Handlers |-> "idle"]
  /\ job = [h \in Handlers |-> NoJob]
  /\ fresh = NothingFresh
  /\ plan = [h \in Handlers |-> {}]
  /\ retired = [h \in Handlers |-> <<>>]
  /\ pools = [h \in Handlers |-> <<>>]

----------------------------------------------------------------------------
(***************************************************************************)
(* Grants and uploads.                                                     *)
(***************************************************************************)

\* The slot is saved first, and presigned after that.  Presigning may fail,
\* and URLs expire: that is a grant nobody uses, which leaves the slot issued
\* and its object absent.
IssueGrant(id, a, expiresAt) ==
  /\ issues < MaxIssues
  /\ IssueSlot(id, a, expiresAt)
  /\ issues' = issues + 1
  /\ grants' = grants \cup {[slot |-> id, key |-> Key(a)]}
  /\ fresh' = NothingFresh
  /\ UNCHANGED <<bucket, facts, pc, job, plan, retired, pools>>

\* Fault: the PUT is signed without If-None-Match.
WritableAlways(g) == TRUE

\* The signed If-None-Match: * makes the store refuse to overwrite.
Writable(g) == bucket[g.key] = NoSlot

\* A publisher uses a grant, at any time and as often as it likes.
Upload(g) ==
  /\ Writable(g)
  /\ bucket' = [bucket EXCEPT ![g.key] = g.slot]
  /\ UNCHANGED <<vars, issues, grants, facts, work>>

----------------------------------------------------------------------------
(***************************************************************************)
(* What a completion decides.                                              *)
(***************************************************************************)

\* The first retained slot with the key.  Slots keep the order of their
\* issue, and a key is issued again only after its earlier slots are revoked.
FirstAtKey(k) ==
  LET atKey == {s \in slots : Key(s.at) = k}
      revoked == {s \in atKey : s.state = "revoked"}
  IN  IF revoked = {} THEN atKey ELSE revoked

\* Fault: any object at the slot's key will do.
AnyUpload(s) == bucket[Key(s.at)] # NoSlot

\* The metadata of the object names the slot it was uploaded for.
OwnUpload(s) == bucket[Key(s.at)] = s.id

\* The code throws where it cannot build a window of what it would record.
Recordable(s) ==
  RecordedMedia(s) # {} => Distinct(RecordedMedia(s), RecordedInits(s))

\* Decided synchronously on the loaded state and the observed object.  An
\* existing commit is compared before any deadline.
Decision(s, f, committedAt, tolerance) ==
  CASE bucket[Key(s.at)] = NoSlot -> "unobserved"
    [] bucket[Key(s.at)] # NoSlot /\ (s.state = "revoked" \/ ~OwnUpload(s)) ->
         "rejected"
    [] OwnUpload(s) /\ s.state = "committed" ->
         IF f = facts[s.id] THEN "idempotent" ELSE "duplicate_commit_conflict"
    [] OwnUpload(s) /\ s.state = "issued" ->
         IF CommitAccepted(s, committedAt, tolerance) /\ Recordable(s)
         THEN "save" ELSE "rejected"

----------------------------------------------------------------------------
(***************************************************************************)
(* Completion by hint, event and sweep.                                    *)
(***************************************************************************)

Begin(h, sweep, id, f) ==
  /\ pc' = [pc EXCEPT ![h] = "observing"]
  /\ job' = [job EXCEPT ![h] =
       [NoJob EXCEPT !.sweep = sweep, !.slot = id, !.facts = f]]

\* A hint or a commit names the slot; a client may name any.
ReceiveHint(h, id, f) ==
  /\ pc[h] = "idle"
  /\ Begin(h, FALSE, id, f)
  /\ UNCHANGED <<vars, storage, facts, fresh, plan, retired, pools>>

\* An event names the key, and a load of its own the slot; it comes late,
\* twice or for an object that is gone.  Events and sweeps bring no profile
\* data.
ReceiveEvent(h, k) ==
  /\ pc[h] = "idle"
  /\ \E s \in FirstAtKey(k) : Begin(h, FALSE, s.id, "none")
  /\ UNCHANGED <<vars, storage, facts, fresh, plan, retired, pools>>

\* A sweep plans every slot in flight, from one load.
StartSweep(h) ==
  LET inFlight == {s.id : s \in {r \in slots : r.state = "issued"}}
  IN  /\ pc[h] = "idle"
      /\ inFlight # {}
      /\ pc' = [pc EXCEPT ![h] = "sweeping"]
      /\ plan' = [plan EXCEPT ![h] = inFlight]
      /\ UNCHANGED <<vars, storage, facts, job, fresh, retired, pools>>

\* Its slots are tried one after the other, whatever each comes to.
SweepNext(h, id) ==
  /\ pc[h] = "sweeping"
  /\ id \in plan[h]
  /\ plan' = [plan EXCEPT ![h] = @ \ {id}]
  /\ Begin(h, TRUE, id, "none")
  /\ UNCHANGED <<vars, storage, facts, fresh, retired, pools>>

\* A pool for each commit that retired objects.
PoolsFor(gone) == [n \in DOMAIN gone |-> Started(SetToSeq(gone[n]))]

\* The completion is over, and gone is what its commit retired.  A sweep goes
\* on; whoever else retired objects deletes them now.
Settle(h, gone) ==
  LET some == IF gone = {} THEN <<>> ELSE <<gone>>
      sweeping == job[h].sweep
  IN  /\ pc' = [pc EXCEPT ![h] = IF sweeping THEN "sweeping"
                                 ELSE IF gone = {} THEN "idle" ELSE "deleting"]
      /\ retired' = [retired EXCEPT ![h] = IF sweeping THEN @ \o some ELSE @]
      /\ pools' = [pools EXCEPT ![h] =
           IF sweeping THEN @ ELSE PoolsFor(some)]
      /\ job' = [job EXCEPT ![h] = NoJob]

\* HeadObject answers, and the decision follows at once.
Observe(h, t, tol) ==
  LET id == job[h].slot
      known == {s \in slots : s.id = id}
      status == IF known = {} THEN "unknown_slot"
                ELSE Decision(CHOOSE s \in known : TRUE, job[h].facts, t, tol)
  IN  /\ pc[h] = "observing"
      /\ \/ /\ status = "save"
            /\ pc' = [pc EXCEPT ![h] = "saving"]
            /\ fresh' = [fresh EXCEPT ![h] = TRUE]
            /\ UNCHANGED <<job, retired, pools>>
         \/ /\ status # "save"
            /\ Settle(h, {})
            /\ UNCHANGED fresh
      /\ UNCHANGED <<vars, storage, facts, plan>>

\* Keys of the commits that a step takes out of C.
Gone(C) == {Key(c.at) : c \in C \ commits'}

\* Fault: the save is unconditional.
SavesAlways(h) == TRUE

\* If-Match: the store holds what the handler loaded.
EtagMatches(h) == fresh[h]

\* The save goes through: the state is the one that was decided upon.
Save(h, max, t, tol) ==
  /\ pc[h] = "saving"
  /\ EtagMatches(h)
  /\ \E s \in slots :
       /\ s.id = job[h].slot
       /\ CommitUpload(s, max, t, tol)
       /\ Settle(h, Gone(RecordedMedia(s)))
  /\ facts' = [facts EXCEPT ![job[h].slot] = job[h].facts]
  /\ fresh' = NothingFresh
  /\ UNCHANGED <<storage, plan>>

\* The save is refused: another came first.  A retry loads and observes again.
LoseRace(h) ==
  /\ pc[h] = "saving"
  /\ ~EtagMatches(h)
  /\ \/ /\ job[h].attempt < MaxAttempts
        /\ pc' = [pc EXCEPT ![h] = "observing"]
        /\ job' = [job EXCEPT ![h].attempt = @ + 1]
        /\ UNCHANGED <<retired, pools>>
     \/ /\ job[h].attempt >= MaxAttempts
        /\ Settle(h, {})
  /\ UNCHANGED <<vars, storage, facts, fresh, plan>>

\* Only when all its slots have been tried does a sweep delete.
EndSweep(h) ==
  /\ pc[h] = "sweeping"
  /\ plan[h] = {}
  /\ pc' = [pc EXCEPT ![h] = IF retired[h] = <<>> THEN "idle" ELSE "deleting"]
  /\ pools' = [pools EXCEPT ![h] = PoolsFor(retired[h])]
  /\ retired' = [retired EXCEPT ![h] = <<>>]
  /\ UNCHANGED <<vars, storage, facts, job, fresh, plan>>

----------------------------------------------------------------------------
(***************************************************************************)
(* Retention, deletes and what else happens to the session.                *)
(***************************************************************************)

\* The retention route: the pruned state is saved, then the objects go.
Retain(h, t, tol) ==
  /\ pc[h] = "idle"
  /\ ApplyRetention(t, tol)
  /\ Settle(h, Gone(commits))
  /\ fresh' = NothingFresh
  /\ UNCHANGED <<storage, facts, plan>>

\* A delete succeeds also where there is no object.  The pools of a sweep
\* follow one another, or run at once where the host lets work outlive the
\* response (ctx.waitUntil): here any of them goes on.
Delete(h, n, i, outcome) ==
  /\ pc[h] = "deleting"
  /\ i \in pools[h][n].working
  /\ bucket' = IF outcome = "deleted"
               THEN [bucket EXCEPT ![pools[h][n].objects[i]] = NoSlot]
               ELSE bucket
  /\ pools' = [pools EXCEPT ![h][n] = Settled(@, i, outcome)]
  /\ UNCHANGED <<vars, issues, grants, facts, pc, job, fresh, plan, retired>>

\* Failed deletes are reported and never planned again.
Report(h) ==
  /\ pc[h] = "deleting"
  /\ \A n \in DOMAIN pools[h] : Finished(pools[h][n])
  /\ pc' = [pc EXCEPT ![h] = "idle"]
  /\ pools' = [pools EXCEPT ![h] = <<>>]
  /\ UNCHANGED <<vars, storage, facts, job, fresh, plan, retired>>

\* A handler dies, or what it awaits throws: a presigning, a HeadObject.
Die(h) ==
  /\ pc[h] # "idle"
  /\ pc' = [pc EXCEPT ![h] = "idle"]
  /\ job' = [job EXCEPT ![h] = NoJob]
  /\ plan' = [plan EXCEPT ![h] = {}]
  /\ retired' = [retired EXCEPT ![h] = <<>>]
  /\ pools' = [pools EXCEPT ![h] = <<>>]
  /\ fresh' = [fresh EXCEPT ![h] = FALSE]
  /\ UNCHANGED <<vars, storage, facts>>

\* Saves that concern no object.
Revoke(s) ==
  /\ RevokeUpload(s)
  /\ fresh' = NothingFresh
  /\ UNCHANGED <<storage, facts, pc, job, plan, retired, pools>>

Transition(next) ==
  /\ TransitionSession(next)
  /\ fresh' = NothingFresh
  /\ UNCHANGED <<storage, facts, pc, job, plan, retired, pools>>

\* What a completion under way does next.
Complete(h) ==
  \/ \E t \in Times, tol \in LateTolerances : Observe(h, t, tol)
  \/ \E max \in WindowSizes, t \in Times, tol \in LateTolerances :
       Save(h, max, t, tol)
  \/ LoseRace(h)

Sweep(h) == StartSweep(h) \/ EndSweep(h) \/ \E id \in SlotIds : SweepNext(h, id)

S3Next ==
  \/ \E h \in Handlers :
       \/ \E id \in SlotIds, f \in Facts : ReceiveHint(h, id, f)
       \/ \E k \in Keys : ReceiveEvent(h, k)
       \/ Sweep(h)
       \/ Complete(h)
       \/ \E t \in Times, tol \in LateTolerances : Retain(h, t, tol)
       \/ \E n \in DOMAIN pools[h] :
            \E i \in pools[h][n].working, o \in {"deleted", "failed"} :
              Delete(h, n, i, o)
       \/ Report(h)
       \/ Die(h)
  \/ \E id \in SlotIds, a \in Positions, t \in Times : IssueGrant(id, a, t)
  \/ \E g \in grants : Upload(g)
  \/ \E s \in slots : Revoke(s)
  \/ \E next \in Closings : Transition(next)

S3Spec == S3Init /\ [][S3Next]_s3vars

----------------------------------------------------------------------------
(***************************************************************************)
(* Properties.                                                             *)
(***************************************************************************)

\* The types of what the binding adds to the pipeline.
S3TypeOK ==
  /\ TypeOK
  /\ issues \in 0 .. MaxIssues
  /\ bucket \in [Keys -> SlotIds \cup {NoSlot}]
  /\ grants \subseteq Grants
  /\ facts \in [SlotIds -> Facts \cup {"none"}]
  /\ pc \in [Handlers -> {"idle", "observing", "saving",
                          "sweeping", "deleting"}]
  /\ job \in [Handlers -> [sweep : BOOLEAN,
                           slot : SlotIds \cup {NoSlot},
                           facts : Facts \cup {"none"},
                           attempt : 1 .. MaxAttempts]]
  /\ plan \in [Handlers -> SUBSET SlotIds]
  /\ retired \in [Handlers -> Seq(SUBSET Keys)]
  /\ fresh \in [Handlers -> BOOLEAN]

\* "Persisted state then never references an already-deleted object"
\* (spec/09-retention-reconciliation.md): what is recorded as committed is in
\* the bucket, and it is the object uploaded for that very slot, although keys
\* are used again, deletes run long after the saves that plan them, and
\* objects are observed before the save.
RecordedObjectsStored ==
  \A c \in commits \cup initCommits : bucket[Key(c.at)] = c.slot

\* No delete of a pool is skipped, made twice at a time or forgotten when
\* another fails.
PoolsAccount ==
  \A h \in Handlers : \A n \in DOMAIN pools[h] : Accounts(pools[h][n])

\* "A slot whose upload was already committed through another path MUST
\* resolve idempotent, not conflict" (spec/09-retention-reconciliation.md).
RepeatsAreIdempotent ==
  \A h \in Handlers, s \in slots, t \in Times, tol \in LateTolerances :
    pc[h] = "observing" /\ job[h].slot = s.id =>
      Decision(s, job[h].facts, t, tol) # "duplicate_commit_conflict"

=============================================================================
