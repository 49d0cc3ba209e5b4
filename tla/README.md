# OLOS in TLA+

This directory is a verification development of OLOS, the live streaming
coordinator in `src/olos`. It contains TLA+ specifications of the
coordinator's core, instances of them that TLC model-checks, and proofs that
TLAPS checks. `PROJECT.json` is the index: which definition models which lines
(`map`), which run checks which property, which deliberate fault shows that a
property can fail (`mutants`), which hazards of the code are covered by what
(`hazards`), and where the code does not do what a doc or comment says
(`findings`).

Run `tlc -config <cfg> <module>` for a run listed under `runs`, and
`tlapm <module>` for the eight `...Proofs` modules.

## 1. The system

A *publisher* streams a *session* of several *tracks*. It asks the coordinator
for an *upload slot* for one object (an init object, a segment or a part of a
segment), uploads the object to storage itself, and then *commits* the slot.
Out of the commits the coordinator derives the *committed window* and
publishes it as the live *cursor*, from which HLS playlists are rendered for
players. There is no central process: any number of short-lived handlers
(requests of one server, or of serverless functions) work on the same stored
session and meet only in the store's compare-and-swap.

| Component | State it keeps | Operations | Where |
| --- | --- | --- | --- |
| Coordinator pipeline | session state, slots, commits, init commits, cursor, publisher leases (one persisted value) | issue slot, commit, revoke, apply retention, transition | `protocol/coordinator-*.ts`, `state/*.ts`, `runtime/session-state.ts` |
| Coordinator store | record with etag, and the cursor view written with it | load, save if etag matches, load view | `protocol/serialized-store.ts`, `sqlite-store.ts`, `coordinator-snapshot.ts` |
| Optimistic loop | locals of one call: snapshot, attempts left | load, mutate, save, retry, give up | `protocol/mutate-coordinator-store.ts`, `runtime/stored.ts` |
| Publisher leases, health | leases inside the pipeline state | heartbeat, health verdict | `runtime/publisher-lease.ts`, `health.ts`, `session.ts` |
| Cursor notifier | latest cursor and parked readers per session, in memory | notify, waitForCursor, abort | `runtime/cursor-notifier.ts` |
| Blocking reload | locals of one playlist request: cursor, deadline | load, refuse, wait, wake, time out | `hls/blocking-reload*.ts`, `hls/manifest-response.ts`, `runtime/http-live-route.ts` |
| S3 binding | objects in a bucket, presigned grants; nothing of its own | grant, upload event, completion hint, reconciliation sweep, retired-object deletes | `s3/*.ts` |
| Publisher loop | position, cadence, uploads in progress | issue, upload, commit, heartbeat, step back on expiry | `runtime/publisher*.ts`, `s3/*publisher*.ts` |
| HLS rendering | none | render master and media playlists | `hls/*.ts` |
| HTTP routing, clients | none | parse, route, shape responses | `runtime/http*.ts`, `client*.ts`, `s3/http*.ts` |
| Media profile, validation | none | refuse malformed or disallowed values | `media/*.ts`, `validation/*.ts` |
| Conformance, schemas | none | tables and generated schemas | `conformance/*.ts`, `schema.ts` |

How they interact. An HTTP or event handler parses its request and calls the
optimistic loop with one pipeline operation as the mutation. The loop loads a
snapshot, awaits the mutation (which may observe an object in storage), and
saves with the etag it loaded. After a successful commit or transition the
handler tells the in-process notifier of the cursor it saved. Playlist
requests read the cursor view from the store and, when the position they name
is not there yet, park with the notifier until a newer cursor or a deadline.
Objects that retention retires are deleted from storage after the pruned state
has been saved.

### What is hard, and what correctness means

* **Pipeline.** The code is sequential, the hazards are long sequences of
  legal calls: positions reissued after pruning, parts in any order, tracks
  that advance apart, windows whose size changes with every request, and three
  different clocks for one deadline. It is correct when slots, commits and
  cursor keep agreeing, and when a player that polls the cursor sees a window
  that only slides forward.
* **Store and loop.** The mutation awaits between load and save, handlers die,
  their writes can execute after them, and clients repeat what got no answer.
  It is correct when calls are linearizable, no answered save is ever lost, no
  slot is committed twice, and every call ends.
* **Notifier and blocking reload.** Saves are serialised by the store but
  notifications are not, and a reader registers some time after it has read
  the store. It is correct when no wake-up is lost, no request moves back to
  an older playlist, and every request is answered by its deadline.
* **S3 binding.** Completion is announced by events, hints and sweeps, each
  possibly lost, late or repeated. The object can change between its
  observation and the save, keys are used again, and deletes run after the save
  that retires the objects. It is correct when what the state records is in
  the bucket and is the upload of its own slot, and when no delete of a pool is
  skipped or forgotten.
* **Publisher loop and leases.** Any answer can be lost between issue, upload
  and commit, a call can be served after its publisher gave it up, a standby
  derives the same ids as the primary, and heartbeats carry the clock of the
  server that handles them. It is correct when the timeline keeps no hole and
  when what a publisher was told is published stays as it uploaded it.
* **Byterange stream.** One drain is suspended at a dozen places while the
  viewer cancels, the session publishes and trims, the store lags and S3
  answers short. It is correct when bytes come in order and once, a response
  that closes is complete, and a drain nobody reads ends.
* **Playlists.** They are computed anew from each cursor, and players compare
  them. They are correct when a request that does not block finds what it
  asked for, when each playlist continues the one before it, when nothing that
  was advertised vanishes before it slides out, and when counters never fall.
* **HTTP.** Two sides read each other's messages, and ids become segments of
  paths. They are correct when every request of a client reaches its operation
  and is understood there, and when every answer to a success is one that the
  client can read.

## 2. Modules

```
 LiveWindow <-implements- Coordinator <- WindowDocument <- MediaPlaylist
                            ^   ^  ^      ^-- MCCoordinator   ^-- MCMediaPlaylist
                            |   |  |-- CoordinatorProofs      ^-- MediaPlaylistProofs
                            |   |----- S3Pipeline (with DeletePool)
                            |              ^-- MCS3Pipeline, S3Proofs
                            |--------- PublisherLoop (with PublisherLease, HttpMessages)
                                           ^-- MCPublisherLoop, PublisherProofs
 SessionRequests <- SessionLog <-implements- CoordinatorStore <- CoordinatorStoreProofs
 CursorNotifier <- BlockingReload <- MCBlockingReload, BlockingReloadProofs
 SessionHttp <- HttpMessages <- S3Http <- HttpProofs
 UploadGrants <- S3Proofs
 ByterangeStream <- MCByterangeStream, ByterangeProofs
```

An arrow without a word is EXTENDS. `MediaPlaylistProofs`, `S3Proofs` and
`PublisherProofs` extend `CoordinatorProofs` too.

### `Coordinator`: the pipeline of one session

The variables are the fields of `CoordinatorPipelineState`. Every operation of
the code maps one persisted state to the next, so every action is atomic. It
contains all the code does in that call: `CommitAdvances` records the commit,
rebuilds the window, moves the cursor *and* prunes with the commit's own
timestamp, as `advanceAndRetain` does. A call the code refuses is a stuttering
step.

| Code | Action or operator |
| --- | --- |
| `issueCoordinatorSlot` | `IssueSlot` with `PositionTaken` |
| `commitCoordinatorUpload`, `commitIntoState` | `CommitUpload`: `CommitHeld` while nothing becomes visible, else `CommitAdvances` |
| `createCommittedWindow`, `contiguousPartsPrefix`, `limitCommittedSegments` | `VisibleMedia`, `Contiguous`, `VisibleInits` |
| `isLateSlot`, `isAfterSlotExpiry` | `IsLateSlot`, `IsAfterSlotExpiry` |
| `resolveCursorUpdate` | `NextCursor`, ordered by `Behind` |
| `applyCoordinatorRetention` | `ApplyRetention`, `ObsoleteSlotIds`, `RetiredCommits` |
| `revokeCoordinatorUpload` | `RevokeUpload` (a library operation, no HTTP route calls it) |
| `transitionState` | `TransitionSession` with `TransitionedCursor` |

Abstractions. A commit is its slot and position: urls, sizes, etags and media
profile data are left out because the properties do not tell them apart, and
policies over them can only refuse. The absent cursor is the one without
media. `-1` stands for a missing part number, as in the code. The tolerance,
the window size and the commit time come with each request, so every step
chooses them afresh. The epoch of a session never changes.

`LiveWindow` is what a player is promised: per track, objects leave at the
front, join at the live edge, parts are gapless from 0, and an announced init
object stays. `ImplementsLiveWindow` states that every pipeline step is a step
of it.

### `CoordinatorStore`: the optimistic loop

A stored state is represented by its history of saved requests. That is
enough, because the loop sees of a state only what the mutation decides from
it (`SessionRequests!Decide`: save, or answer idempotent, rejected, not found
or conflict). One handler goes through `Load`, `Settle` or `Save`, `Execute`
(the backend compares and swaps), then `ReplySaved`, `Retry` or `Exhaust`.
`Crash` can stop it at any await, and a write already sent then becomes an
orphan that `ExecuteOrphan` executes later or never. A client that has got no
answer, or a conflict, can send the same request through any handler, since
`Load` may bring any request at any time. `Retry` takes whatever the record is
by then, because sqlite reads the conflicting record in a second statement.
Creation neither retries nor overwrites. The cursor view, which the backends
write in one statement with the record, is part of the record here.

`SessionLog` is the abstract store: a log, and callers whose requests take
effect once, at some moment between call and answer, on the latest state. The
only liberty is to give a call up after it was overtaken `Patience` times.
`ImplementsSessionLog` is the refinement, that is, linearizability.

### `CursorNotifier` and `BlockingReload`: held-open playlist requests

`CursorNotifier` has the notifier's two maps for one session: `latest` and
`waiters`. `BlockingReload` adds the stored cursor, the write handlers that
have saved a cursor and are still to notify it (`owed`), and the readers.
`Advance`, `Transition` and `Replay` are saves, or repeats that save nothing
but notify. `Announce` is one synchronous `notify`, which wakes readers. A
reader does `Load` (the read of the store), then one of `Refuse`, `Ready`,
`GiveUp`, `CatchUp` or `Wait`; a waiting one is woken or hears `TimerFires`,
and `Expire` takes its entry out. JavaScript runs to the next await without
interruption, so an action is what happens between two awaits.

Abstractions. Of a cursor's window only each track's live edge is kept, since
it is all that decides blocking and, with the session state, the order and
equality of cursors in a session of one epoch. Changes behind the live edge
(trimming, a full segment that completes visible parts) are left out: they
would only add wake-ups. Requests that name no media sequence number settle at
once and are left out. A handler that dies before it notifies is an element of
`owed` that is never announced.

### `WindowDocument` and `MediaPlaylist`: what is stored and what is rendered

`Coordinator` states the window as a set of commits. `WindowDocument` computes
it as the code does: commits sorted, grouped by segment, cut at the first
missing part, trimmed to the window size, with its bounds. It also has the
checks that each load of a stored window makes. `WindowsAgree` says that both
forms are the same window, and `StoredCursorLoads` that what was saved can be
loaded again, since a state that fails its own checks would lock the session
for good. What the code sorts with a comparison is here put in order by rank,
the number of smaller keys (`SortedBy`): no two keys are equal, so both give
the same sequence, and a rank can be reasoned about.

`MediaPlaylist` adds the profile that the media hook leaves in the cursor and
the playlists as records: sequence numbers, listed segments and parts,
discontinuities, the end tag, and which tracks the master playlist names.
Durations and the places where the stream breaks are fixed by position, because
they are the publisher's. `ReadyMeansListed` ties it to the blocking reload: a
position that is not waited for is in the playlist. `PlaylistsGoOn` compares
each playlist with the next (`Continues`): entries leave at the front, keep
what they listed, and only the last one gains anything or is followed by more.

### `S3Pipeline` and `DeletePool`: uploads that are completed by whoever hears of them

The bucket maps each key to the slot that its object's metadata names. A
publisher uses its grant at any time and as often as it likes; the signed
`If-None-Match` decides. A handler takes a hint, an event or the next slot of a
sweep (`ReceiveHint`, `ReceiveEvent`, `SweepNext`), observes the object and
decides (`Observe`), saves (`Save`) or loses the race (`LoseRace`), and deletes
what its commits retired, with one `DeletePool` per commit. `Die` stops it
anywhere. The commit, retention, revocation and transition steps are those of
`Coordinator`.

A load and the observation that follows it are one step: a save goes through
only if nothing was saved since the load, so the load may as well be made
then. `fresh` is the comparison of etags: every save clears it for all others.
Answers that save nothing may in the code rest on an older state. `DeletePool`
is a value (objects, next index, working indices, outcomes), as each pool
lives inside one call.

### `UploadGrants`: what ties an object to its slot

Pure operators, the detail behind the bucket of `S3Pipeline`, where an object
simply carries its slot. A grant signs headers, the bucket keeps some of them
as metadata, and the observation reads the slot's name out of those. A header
is a pair of prefix and name, so that the bucket's dropping the prefix is what
it is in reality: two different headers can come back under names of which one
goes before the other. `Evidence` is the check of an observation against its
slot, `Resolvable` and `Resolved` are the verdicts that end a slot.

### `PublisherLoop` and `PublisherLease`: the client of it all

A publisher runs steps of plan, heartbeat, issue, upload and commit against the
HTTP surface of `SessionHttp` and `HttpMessages`: a call counts only if its
request reaches the operation (`Route`) and is understood (`Read`), and the
publisher goes on only if `Ok(Status(outcome))`. A call can fail before or
after it is served, a call that was given up can be served late
(`ServeLate`), and publishers die at any point. A standby with the same
configuration derives the same ids from positions. `content` records whose
object a commit names, and `confirmed` what a publisher has been told.

`PublisherLease` has the list of leases, the heartbeat with its refusals, and
the health verdicts as operators.

### `ByterangeStream`: one range response

The variables are those of `ByterangeStreamState`, the demand signal and the
stream's queue. An action of the drain is what runs between two awaits:
`Loop`, `Opened`, `Pump`, `ReadChunk`, `ReadDone`, `CursorAdvanced`,
`WaitTimesOut`, `Load`; `CallFails` is any of those awaits rejecting. The
viewer has `Take`, `Cancel` and `Disconnect`. The session has `PublishCursor`,
any cursor it publishes: one that brings a part of this segment, one whose
window has moved past some, and most often one that does neither. The wait is a
callback of the embedding program, modelled by its contract: it resolves with
some cursor ahead of the one it was given. Bytes are counted and never
represented. `Return`, `Throw` and `Stop` are the ways in which a drain ends.

### `SessionHttp`, `HttpMessages` and `S3Http`: the two ends of the wire

Pure operators. `SessionHttp` has routes, statuses and the client's paths. A
path is a sequence of segments, which a client builds with `Down`, as `new URL`
does: a segment `.` goes nowhere and `..` up. The server splits what is left
(`RootOf`, `PartsOf`). `S3Http` has the S3 routes that are tried first, built
and split in the same way, and the reports of sweeps. In
`HttpMessages` a message is a function from field names to *kinds*, where a
kind stands for all values that the parsers treat alike; a reader names the
fields it requires, those it takes, and those it refuses. That makes "the
server understands what the client plans" a statement about functions, which
`HttpProofs` proves for every message rather than for examples.

## 3. Runs

| Run | What it answers |
| --- | --- |
| `Track` | one track, segments, parts and init objects, deadlines before, between and after the commits, windows of one and of three segments, and the playlist of the cursor: the pipeline's invariants, `WindowsAgree`, `ReadyMeansListed` also for a last segment with both parts and a full object, `PlaylistsGoOn`, and `ImplementsLiveWindow` |
| `Tracks` | two tracks with init objects and closing sessions, and the playlists of their cursor: neither track loses or pins the other's window, stored cursors load, `AdvertisedStay` |
| `Store` | three handlers, two attempts, four calls, crashes and orphaned writes: safety, `ImplementsSessionLog`, and every call settles |
| `BlockingReload` | one reader, two tracks, two notifications owed at a time: safety, and every request is answered |
| `S3` | two handlers, three slots issued over keys that are used again, sweeps, retention, pools of one worker for up to two objects, deletes that fail, crashes |
| `Publisher` | a primary and a standby that publish two segments of two parts, one fault, one tick of the clock, an abort: no hole in the timeline, what was confirmed stays, leases stay readable |
| `Byterange` | a segment of three parts, three cursors that bring or trim any of them or none, a store that lags by one version |
| `DuplicateInit`, `CommitAfterEnd`, `ReloadStale`, `S3Conflict`, `Discontinuity` | disagreements of code and docs, see below |

**Bounds and why they suffice.** `SlotIds` bounds the retained slots, not the
length of a behaviour: pruned ids are issued again, so windows slide further
than there are ids. Three sequence numbers with a window of one let a segment
be appended, trimmed and followed by another; two parts are the least that can
land out of order; two tracks are the least where one lags. `Times` and
`LateTolerances` of two values put a clock before, at and after a deadline
with its tolerance.

In `CoordinatorStore`, `MaxCalls` bounds the calls of a behaviour. Four calls
with `MaxAttempts = 2` allow a call to be overtaken at each attempt, to be
given up, or to die with a write in flight while its client's retry races that
write; creation, two commits of one slot and an unconditional change are all
the kinds of request the loop distinguishes. In `BlockingReload`, `MaxOwed = 2`
distinct cursors on their way to the notifier are the least that can overtake
each other; a tally is not kept, so the same cursor can be notified any number
of times. Readers share nothing but the set of waiters, whose entries name
their reader, so the run has one reader; the proofs hold for any number.

In `S3Pipeline`, `MaxIssues = 3` slots let a window of one segment retire two
objects in one sweep, and let a key that was revoked be granted again while the
first grant can still be used. With `Concurrency = 1` the worker of such a pool
settles one object and takes the next; pools of several workers are left to the
proof. Two handlers are the least that race, and `MaxAttempts = 2` has a race
that is retried and one that is given up. In
`PublisherLoop`, `MaxFaults = 1` is one lost answer, failed call, late call or
crash per behaviour, `MaxClock = 1` lets slots expire (`ObjectTtl = 1`), and
two segments of two parts let a segment be left before or after its last part.
One publisher sends heartbeats, plans anew when a step fails and keeps a window
of one segment; the other has two attempts and a window of two, so that what
one commits trims what the other shows. `Skews` lets a server's clock lag by
one tick, which puts heartbeats out of order. In `ByterangeStream`, three parts
of two, one and two bytes and `MaxVersions = 3` cursors let a part come, be
trimmed before it is reached or stay away while cursors go on, chunks of one
and three bytes end short of, at and beyond a slice, and `StoreLag = 1` is a
store behind its notifier.

Symmetry of slots, tracks and S3 handlers is used where a run checks no
liveness. Deadlock is checked for `BlockingReload`. The others may stop: an
aborted session with nothing left to prune, `MaxCalls` reached, a drain that
has ended with every cursor published, a clock and faults that are used up.

**Fairness.** `CoordinatorStore!FairSpec` has weak fairness of `Work(h)`: a
handler that is alive continues after each await and the backend executes the
statement it waits for. Nothing forces requests to come, handlers to crash, or
orphaned writes to be executed. `BlockingReload!FairSpec` has weak fairness of
the readers' own steps and of time passing (`Deadline`): the event loop runs
ready continuations and due timers. No fairness is assumed of the write
handlers, so `ReloadsSettle` does not rest on anyone being notified.
`ByterangeStream!Fairness` has the drain's microtasks (`Loop`, `Pump`), S3 that
answers or fails (`Opened \/ CallFails`, `ReadDone \/ ReadChunk`), the store
(`Load`), the timer of a wait (`WaitTimesOut`), and a viewer who reads or goes
away (`Take \/ Cancel`). No fairness of `PublishCursor`, `CursorAdvanced` or
`Disconnect`: `DrainEnds` says that a drain whose viewer is gone ends however
many cursors come, and that any other ends unless one more cursor comes. It
cannot say more, see the disagreements below.

**Faults.** Each property of a passing run is paired with a fault: an operator
that stands before the one it replaces, marked `Fault:`, such as an
unconditional PUT (`WritableAlways`), an etag compared only on insertion
(`EtagMatchesOnInsert`), a short body counted as its whole slice
(`EndPartWhole`) or any repetition of a commit taken for a retry
(`AnyContent`). With the fault in place the run finds the property violated.

### Where code and documents disagree

Shown by runs:

1. `DuplicateInit`: two init slots of one track both commit as long as no media
   has been committed, because the duplicate check is part of building a
   window and that is skipped until then. Every later media commit of the
   session then throws. The specification demands a rejection.
2. `CommitAfterEnd`: a slot granted while the session was live commits after
   the session has ended; only aborted sessions refuse. A comment says that no
   commits can occur in a terminal state.
3. `ReloadStale`: a reader that loaded the cursor before the session's end and
   registers after the end was notified finds the session evicted from the
   notifier, and sleeps until its deadline. The comment says that terminal
   sessions are resolved from the stored cursor, but that is read only once,
   before.
4. `S3Conflict`: a slot that a hint committed with profile data is completed
   again by an event, which brings none. The answer is a conflict, where the
   specification demands an idempotent one.
5. `Discontinuity`: a discontinuity that was trimmed is counted in the cursor
   of the commit that trims it and forgotten with the next, because the trimmed
   commits are pruned. The sequence number falls, and the specification demands
   that it counts every one that was trimmed.

Met while modelling, and not the subject of a run:

* At exactly deadline plus tolerance, a sweep prunes a slot which a commit at
  that time would still accept (`state/retention.ts:78`), although the comment
  of `protocol/coordinator-retention.ts:10-12` promises that matching
  tolerances prevent this.
* Two cursors at one position can differ in a lagging track. If the older one
  is notified late it counts as an update (`runtime/cursor-notifier.ts:185`)
  and wakes a reader with a playlist older than the one it held; what is
  documented is a newer cursor (`hls/blocking-reload.ts:97`).
  `PositionsGoForward`, which is proved, is the part of the promise that holds.
* A track whose id is `master.m3u8` gets the master playlist in place of its
  own (`runtime/http-live-route.ts:145`). `ClientRequestsRouted` excludes it.
* `.` and `..` are ids (`validation/ids.ts:1`), and `encodeURIComponent` leaves
  them alone, but `new URL` drops them from the path
  (`runtime/client.ts:253-255`, `s3/client.ts:185-203`). A session of such an
  id can be created, and then nothing but 404 is to be had of it
  (`DotIdsGoAstray`), nor of such a track or by a hint for such a slot. The S3
  client's request for a slot of session `.` becomes the runtime's request for
  a slot of session `s3` (`S3DotIdsGoAstray`). Route paths of a deployment are
  checked for such segments (`runtime/route.ts:141-143`), ids are not.
* `timeoutMs` of a byterange response is the "Max wall time spent waiting on
  the cursor for new bytes" (`s3/byterange-types.ts:65`), and the specification
  says that "A wait timeout bounds the hold" (`spec/08-hls-mapping.md:360-361`).
  The code gives each wait the whole timeout (`s3/byterange-stream.ts:261`), and
  a cursor of another segment or track ends a wait as well, so a drain whose
  bytes never come is held as long as the session publishes. `DrainEnds` states
  what is left.
* The specification says of a session that is ended or aborted that "The window
  can still slide as retention prunes" (`spec/08-hls-mapping.md:374-378`).
  Retention never touches the cursor that playlists are rendered from
  (`protocol/coordinator-retention.ts`); of an aborted session no playlist
  changes any more, and of an ended one only by commits that still come in.
* `lastPart` of a track's live edge is "absent when the tail is a full segment",
  and part requests "at the last MSN never block" there
  (`spec/08-hls-mapping.md:408-427`, `state/committed-window.ts:99-106`).
  `trackWindowBounds` (`state/committed-window.ts:116-132`) returns the last
  part of a full segment that came in parts too, so a request for a later part
  of a segment that is complete is made to wait. `ReadyMeansListed` is about the
  requests that are not.
* The S3 client calls the payload of a completion hint optional
  (`s3/client.ts:77-83`). Without one, a server that was not configured with a
  provider answers 400 (`HintNeedsProvider`), and the commit id of a payload
  never overrides anything.
* A grant refuses additional headers that override its slot metadata, but it
  takes `x-amz-meta-x-olos-slot-id`, and the observation prefers that name to
  the signed one (`s3/object-observation.ts:150-158`). An upload with such a
  grant can never complete its own slot (`ShadowedUploadIsNone`). The reserved
  names are refused too, but only after the URL has been presigned.
* The publisher's plan says that a position can be retried safely because its
  ids are derived. The commit is idempotent, but a slot whose answer was lost
  is refused when it is issued again, and the publisher is stuck until the slot
  expires and is pruned; for ever, if it was revoked.
* Refreshing a lease is said to push out its expiry
  (`runtime/publisher-lease.ts:99-103`). A refresh by a clock behind the last
  one, though not behind the lease's issue, shortens it. `LeasesSound` is about
  leases that can be read again.
* The heartbeat's `now` is the server's. The doc of `resolveRuntimeLiveHealth`
  says that it throws for a cursor from the future; the code clamps the age.
* The master playlist also lists a track whose media playlist fails for want of
  its init object (`hls/manifest-artifacts.ts:31-34`).
* A bounded byterange response whose outer signal aborts, while nobody cancels
  its body, is closed short of its length or left open. `PromiseKept` is about
  responses whose viewer is still there.

## 4. Proofs

All theorems hold for every value of the constants under the named assumptions
of the modules (`CoordinatorAssumption`, `RequestsAssumption`,
`StoreAssumption`, `NotifierAssumption`, `ReloadAssumption`, `PoolAssumption`,
`S3Assumption`, `ByterangeAssumption`, `LeaseAssumption`, `LoopAssumption`,
`PlaylistAssumption`), which type the constants; `Tracks` of the notifier is
also finite and not empty, and the deadlines that a server's clock can give are
among `Times`. `NamesAssumption` says of the publishers that the ids they
derive from positions are slot ids, and that having no plan or no call is told
apart from every plan and call. Every safety property of a passing run is a
theorem. The invariants are each proved from an inductive invariant with one
lemma per action or group of actions.

**`CoordinatorProofs`.** `IInv` is the conjunction of `TypeOK`,
`OpenSlotsUnique`, `CommitsMatchSlots`, `WindowBacked`, `NothingBehindWindow`
and `CursorStateInStep`. They are proved together: that pruning by slot id
removes exactly the commits intended needs unique ids, that the window stays
backed needs the two copies of "committed" to agree, and both feed
`NothingBehindWindow`. `CommitsOnlyLeaveBehind` is an action property proved
from the same invariant.

Its second part is about the window. That the stored cursor is the window of
what is recorded (`CursorAlwaysCurrent`) is hard because each commit brings a
window size of its own, and because commits are pruned from behind. The
argument avoids counting. `Shows` says what a window of any size is: of each
track, everything visible from some sequence number on, and never nothing of a
track that has something visible. Windows of `VisibleMedia` have that shape for
every size (`GreatestExists` needs the commits to be finite, which is why
`WInv` adds that to `IInv` and `CursorCurrent`). `TrimmingKeepsWindow` and
`HiddenLeaveNoTrace` then say that what retention takes, and what is recorded
but not yet visible, leave the window as it is. `PlayersSeeLiveWindow` is the
refinement: initial states map to initial states, and each action maps to a
step of `LiveWindow` or to a stutter.

**`CoordinatorStoreProofs`.** Comparing etags protects a state only if equal
etags mean equal states. `Histories` says so: each snapshot a handler holds,
and the base of each write in flight, is a prefix of the stored history whose
length is its etag. A write whose etag matches was therefore computed from the
whole history, and appends to it. `Progress` records what a handler knows at
each await. `SInv` is both with the properties; from it follow
`NoLostUpdate`, `AtMostOneCommitPerSlot` and `ConflictOnlyWhenOvertaken`.
`StoreIsLinearizable` maps the loop to `SessionLog`: the save that the backend
executes is the moment at which a call takes effect, whether or not its handler
lives to answer it. `RInv` adds `EntriesOwned` for that: no two calls are told
of the same entry of the log.

**`S3Proofs`.** `S3RunsPipeline` shows that a step of the binding is a step of
`Coordinator` or leaves it alone, so every theorem above holds of it.
`RecordedAlwaysStored` is about two delays. Deletes run long after the save
that planned them, perhaps when the key has been granted again; and a save
follows the observation of its object at a distance. `DeletesBehind` answers
the first: whatever any pool has still to delete lies at a position that the
window of its track has passed (`PassedKeys`), where nothing is recorded any
more and no commit is accepted, and the window never returns there, because it
only slides forward (`PlayersSeeLiveWindow`). `SavesStored` answers the
second: a save that will go through has its object in the bucket, at a position
not yet passed, so no pool can take it away. `PoolsAlwaysAccount` is proved
with them: the workers of a pool take each of its objects once.

Its last part is about `UploadGrants`. `GrantedUploadIsEvidence` joins the two
ends of an upload: whatever the slot, the additional headers and what else the
uploader sends, what the grant asks for is what the completion looks for.
`OthersUploadIsNone` is the converse, on which the bucket of `S3Pipeline`
rests: no upload passes for another slot's, even at a key that is used again.
What S3 does with headers (`Signed`, `MetadataOf`) is taken from how the code
uses it. `VerdictsAreFinal` says that a slot's terminal states are idempotent
and exclude each other.

**`PublisherProofs`.** `LoopRunsPipeline` makes the pipeline's theorems hold
while publishers run. `LoopInv` adds to `WInv` what a publisher and the session
know of each other: a step under way has a plan (`PlansHeld`), slots bear the
ids of their positions (`SlotsNamed`), and content is known only of what is
recorded (`ContentRecorded`). For `ConfirmedAlwaysPublished` an answer must
mean what it says at the moment it is heard. A commit that is answered with
success has been recorded with the caller's content, or its position lies
behind the window by then (`Published`); the window does not return there
(`BehindStays`), and a recorded commit's content is not overwritten, since its
slot holds the position and a repetition must bring the same content.

`TimelineAlwaysGapless` needs to know how far ahead anyone can be.
`TimelineInv` says that each plan, each call under way or late, and each slot
lies within `Reach` of the window, at most one object past its edge, and that
the window is `Solid`: parts only, consecutive, no segment missing before its
edge. A commit within reach either extends the edge by one object or changes
nothing behind it, and the window only moves forward, so what was within reach
stays so. The theorem is about sessions of one track. With more, a plan follows
the cursor of the session and not its own track
(`runtime/publisher-cadence.ts`), and reach would have to be stated of the
track that is furthest.

**`MediaPlaylistProofs`.** First the algorithm of `WindowDocument`, for every
set of commits of which no two are at one position (`OneOfEach`, which
`RecordedOneOfEach` derives from open slots being unique). `Sorting` shows that
a rank puts each member in its place, `PrefixIsContiguous` that the prefix of
the sorted parts is what `Contiguous` admits, `SegmentsInOrder` that there is
one segment for each sequence number that shows something, and `LimitedTrack`
that cutting at the front keeps those with fewer than `max` newer ones: the
count of `VisibleMedia` is a length (`SegmentsBeyond`). From these follow
`WindowsAlwaysAgree` and `StoredCursorsAlwaysLoad`, the latter for a window as
large as the cursor's own, which is how a stored window is read.
`ReadyAlwaysMeansListed` looks at the last entry of a playlist: it is past what
was asked for, or is a full segment, or lists its parts from 0 to the edge.
`AdvertisedAlwaysStay` and `PlaylistsAlwaysGoOn` are action properties, both
by what every step of the pipeline leaves in `LiveWindow`'s view: the first
track by track, the second segment by segment. `EntriesTell` reads an entry as
the objects it stands for, and `TrackContinues` carries what `LiveWindow` says
of objects over to entries; that the last entry alone may gain is the refusal
of late objects.

**`BlockingReloadProofs`.** `IInv` joins `WaitersAreParked`,
`NobodySleepsOnLatest` and `NoEarlyTimeout` with `ExpiredAreLate` (only its
timer makes a reader expire). `Announce` wakes by entries, so that nobody
sleeps on what was just notified needs every sleeper to have an entry with the
cursor it holds. `PositionsAlwaysGoForward` adds that the order of positions is
asymmetric.

**`ByterangeProofs`.** `BytesInOrder` is not inductive: what a chunk adds is
clamped by the slice of the part at hand, so the invariant has to say where in
which part the drain is. `IInv` adds `Fresh` (before the answer nothing has
moved), `Answered` (a drain that runs has answered, on an open stream unless
the viewer is gone), `InsideSlice` (what is written lies within the part and
the range), `BetweenParts` (nothing is half written where no part is fetched),
`NothingQueuedWhileReading` (the queue's bound) and `WaitedFor` (a cursor the
drain loads for is ahead of the one it has seen).
`SliceLength` is the arithmetic of a slice, `EndPartKeeps`, `StopKeeps`,
`ReturnKeeps` and `ThrowKeeps` are about the fragments that several actions
share.

**`HttpProofs`.** Statements about the operators of the wire, for every
message. `ClientRequestsRouted` and `RequestsHandled`: each request of either
client reaches its operation, also through the handler that tries the S3 routes
first, for all ids that the check lets pass but `.` and `..` (and a track
`master.m3u8`); `DotIdsGoAstray` and `S3DotIdsGoAstray` say where requests with
those go. `PathsGrow`, `DotsShorten` and `PathsSplit` are what paths rest on.
`OkIffDone` and `StepsAgree`: a client goes on exactly when the server
did what was asked. `PlannedSlotParses` and `PlannedCommitParses`: what the
publisher's plan lets pass, the server's parsers let pass too. `AnswersParse`,
`S3AnswersParse` and `ReportsParse`: the client reads every answer to a
success. `SweepReportAdds`: the counts of a sweep's report add up.

**Only model-checked.** The liveness properties `Settles`, `ReloadsSettle` and
`DrainEnds` are outside the prover's reach, as is anything that needs
`ENABLED`. The five properties that runs violate are about what the code does
not do. `TimelineGapless` is proved for one track, as the run has it.

## 5. Not modelled, and why

* The text of playlists, errors and presigned URLs, response headers (CORS,
  caching), base URLs, skip tags and the older forms of playlist attributes:
  functions of their input, with no state and no decision that another part
  rests on.
* Latency profiles, provider capabilities, the object-level fields of epochs,
  and codec validation: they refuse calls, which are stuttering steps. What
  validation leaves possible is each `TypeOK`.
* The sqlite schema migration, and deletion of records, which no code does.
* Notifications across processes: the Durable Object of `examples/api` is an
  example of a deployment and not part of the library.
* Conformance tables, generated schemas, benchmarks and examples.
* The media bytes and the callbacks of the program that embeds the publisher.
* Revocation beside running publishers: `PublisherLoop` leaves it to
  `Coordinator` and `S3Pipeline`, because a revoked slot ends the use of its
  derived position for good and the loop would only retry.

## 6. Plan

Done: the pipeline, the store and its loop, the notifier with the blocking
reload, the S3 binding with the delete pool, the publishers with their leases,
playlists, the byterange stream, and the wire, with the proofs of section 4.
Left, in this order:

1. Liveness of the S3 binding: an object that was uploaded in time is committed
   or its slot expires, under fairness of sweeps.
2. A second track in `PublisherLoop`, with lighter leases, and `Reach` stated
   per track.
3. An abstract specification of the publishers' timeline, with `PublisherLoop`
   shown to implement it.
