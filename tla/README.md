# A verification of Sofie Core

Sofie Core automates live TV. It takes running orders from a newsroom system, lets blueprints turn them
into segments, parts and pieces, and plays them out by writing a timeline that the playout gateway executes.
The repository is a TypeScript monorepo (`src/packages`). This directory holds TLA+ models of its core, the
TLC runs that check them on small instances, and proofs, checked by TLAPS, of what holds for every instance.

Contents: 1 inventory, 2 plan; the models: 3 job queue, 4 locks, 5 playout, 6 ingest, 7 worker thread and
external messages, 8 change feeds, 9 publications, DDP and commands; 10 runs and bounds, 11 fairness,
12 proofs, 13 limits and observations.

## 1. Inventory

Paths are relative to `src/packages`; `core` is `sofie-core/src`, `worker` is `job-worker/src`, `sci` is
`server-core-integration/src/lib`.

| Part | Where | State | Operations |
|---|---|---|---|
| Job queue manager | `core/worker/jobQueue.ts` | per queue: two priority lists, the parked worker, debounce timers; running jobs and their completion handlers | queue (plain, debounced, merged), wait, pop, finish, interrupt, reject on thread close |
| Worker launcher | `core/worker/worker.ts` | the worker process | start, restart, route IPC calls |
| Worker thread loop | `worker/workers/parent-base.ts` | status, watchdog, pending invalidations, terminate promise | init, run a job, restart, terminate |
| Locks | `worker/locks.ts`, `workers/locks.ts`, `workers/context` | holder and waiting locks of each resource; pending locks of each thread | lock, unlock, grant, time out, release all |
| Playout | `worker/playout` | the playlist (activation, previous, current, next, queued segment, hold), part and piece instances | activate, reset, deactivate, take, set next, hold, adlibs, playback reports |
| Ingest | `worker/ingest` | rundowns, segments and parts with their orphaned state; NRCS and Sofie caches | update, remove, commit, sync to part instances, ensure that next is valid |
| External messages | `worker/events/ExternalMessageQueue.ts` | stored messages with tries and expiry, one timer | queue, send, retry |
| Change feeds | `corelib/src/collectionChangeFeed.ts`, `core/collections/changeStream` | one shared stream per collection, one multiplexer per query, its task queue and published set | subscribe, restart, resync, process a change, replay to a newcomer |
| Publications | `core/publications`, `core/lib/customPublication` | shared observers, new and active subscribers, pending update | join, leave, update, stop |
| DDP server | `core/ddp-server` | per session: message queue, subscriptions, merge box | method with `unblock`, sub, unsub, added/changed/removed, heartbeat, close |
| DDP client | `sci` | socket, pending calls, subscriptions, queue, watchdog | connect, reconnect, call, renew subscriptions, ping |
| Peripheral devices | `core/api/peripheralDevice` | commands and replies | `executeFunction` with its time-out |
| Gateways | `playout-gateway`, `mos-gateway`, `live-status-gateway` | connections and device libraries outside this repository | execute a timeline, report playback, forward ingest |
| User actions, HTTP API, web UI | `core/api`, `webui`, `openapi` | none of their own | check access, queue a job; present subscriptions |

How they interact. A user action or a gateway's call becomes a job in the queue of its studio; the thread
that serves the queue long-polls it over IPC from another process. The job takes the lock of its playlist or
rundown from the LocksManager in the worker's parent process, again by messages, loads its documents, changes
them in memory, saves them and is reported finished, upon which the parent frees what locks it left. Saved
documents reach subscribers through change streams, multiplexers, observers and merge boxes. The playout
gateway plays the timeline by itself and reports what started and stopped; those reports are jobs again, and
meet whatever users did meanwhile.

What is hard, and what correctness means for each part:

- *Job queue*: a worker may park while a job arrives, its process may die with a promise in the queue's hands
  or with a job. No wake-up may be lost, no job lost, run twice or overtaken; every caller hears once.
- *Locks*: grants arrive after their time-out or not at all, threads die and terminate. One owner at a time,
  no idle resource with locks waiting, no lock left behind, no deadlock of nested locks.
- *Thread loop*: restarts by the watchdog and by the loop overlap; invalidations must not get lost, and
  whatever crashes or hangs, the loop must come back to its jobs.
- *Playout*: reports race with takes, set-next and holds; removal and reset of instances must never hit a
  selected one; a crash within a save must be recoverable.
- *Ingest*: Parts and segments disappear while on air; next must stay valid, rundowns on air stay put.
- *Change feeds, publications, DDP*: what subscribers see must follow the database through restarts of
  streams, snapshots that overlap with changes, and subscribers that come and go; a document shared by
  subscriptions is added and removed once.
- *External messages, `executeFunction`, DDP client*: time-outs race late answers; retries repeat; one bad
  message must not hold up the others.

`PROJECT.json` lists every hazard at its line with the properties that would catch it, or why none does yet.

## 2. Plan

| Step | Modules | Composition, abstraction | State |
|---|---|---|---|
| 1 | `JobQueue`, `JobQueueProofs` | queue and worker together | checked, proved |
| 2 | `WorkerLocks`, `LockService`, `WorkerLocksProofs` | both lock managers, messages, jobs and loop; refines `LockService` | checked, proved |
| 3 | `PlayoutModel`, `Playout`, `PlayoutProofs` | the pure model under the jobs that use it | checked, proved |
| 4 | `RundownIngest`, `RundownIngestProofs` | extends `Playout`: a rundown that changes while it plays | checked, proved |
| 5 | `ChangeFeed`, `ChangeFeedProofs` | shared stream, multiplexers, observers | checked, proved |
| 6 | `WorkerThread` | one thread, its watchdog, its child, its cache | checked, proved |
| 7 | `ExternalMessages`; `WorkerServices`, `WorkerServicesProofs` | the collection of messages and its runner; what runs around the job worker | checked, proved |
| 8 | `OptimizedObserver`, `ObserverGroup` | one shared publication; one group of observers | checked, proved |
| 9 | `DdpSession`, `DdpClient` | a session of the server; the client's connection | checked, the session proved |
| 10 | `PeripheralCommand`; `CoreServices`, `CoreServicesProofs` | Core, a gateway, and the document between them; what runs between Core's database and its clients | checked, proved |
| 11 | quickloop, queued adlib Parts in `PlayoutModel`; pieces that reach into later Parts | | open |

`MCQueueAndLocks`, `MCLockService`, `MCPlayout`, `MCRundownIngest` and `MCChangeFeed` give the constants values
and put together what one run checks. `WorkerServices` and `CoreServices` put components side by side that share
no state, too, but leave their constants open, so that the theorems are about the same properties that the runs
check. `NaturalLemmas` holds facts about numbers and sequences that several proofs share.

What is worth proving next: `AskedAgain` of `DdpClient`, the part of `SubscriptionsRenewed` that is an invariant.

## 3. The job queue (`JobQueue`)

One queue of `WorkerJobQueueManager` with the worker thread that long-polls it. Entries are numbers of
submissions, `null` entries the constant `Interrupt`; `name`, `data`, `notBefore` are the job's fields,
`timer` the entries whose debounce timer is armed. `notifyWorker` holds the *incarnation* of the worker whose
promise is parked in the queue; `waking` and `replacing` are promises that a queued `setImmediate` will
resolve or reject, so that every interleaving of those callbacks with later calls is there. Actions:

| Action | Code |
|---|---|
| `QueueJob`, `QueueDebounced`, `QueueEvent` | `queueJobWithoutResult`/`queueJobAndWrapResult` with and without `debounce`, `mergeOrQueueJob` |
| `WaitForNextJob`, `GetNextJob`, `ReportResult` | the IPC calls of the worker: long-poll, pop, `jobFinished` (which may be repeated) |
| `ResolveWaiter`, `RejectWaiter`, `TimerFires` | the deferred callbacks |
| `InterruptJobStream`, `ThreadClosed`, `Restarted` | interruption by a child, `rejectAllRunning`, autoRestart |
| `Tick` | time; only what debounce compares with |

`NoLostWakeup`: a parked worker has a wake-up on its way whenever something is ready. `ExactlyOnce`: a job is
in one list or running, never in two places, its handler runs at most once, and no caller waits for a job
that is gone. `MergeKeepsOrder` and `FirstComeFirstServed` are about order; `EveryJobDispatched` about the end.
Left out: metrics and timings; other queues, which share no state with this one.

## 4. Locks (`LockService`, `WorkerLocks`)

`WorkerLocks` has the parent's `LocksManager` (`holder`, `waiting`), the children's (`phase` of each lockId),
the messages between them as sets (`locking`, `unlocking`, `granting`, `freeing`, and `failing` for grants
whose delivery failed and whose failure the parent is about to learn), and the loop of every thread: a job is
started, ends only when its own branches end, is reported, and then `releaseAllForThread` runs. A lock has at
most one message under way because every call over IPC is awaited by the branch that made it; that is why
sets suffice. Constants say which threads may meet which trouble: die (`MortalThreads`), have time-outs of
either call (`HastyThreads`), be told to terminate (`Shutdowns`), leave a branch of a `Promise.all` behind
(`StrayThreads`), fail to report a job twice in a row (`DeafThreads`). Jobs nest as the code does: playlists
inside rundowns (`ingest/commit.ts`), never the other way.

| Action | Code |
|---|---|
| `HandleLock`, `HandleUnlock`, `GrantFailed`, `Serve` | `worker/locks.ts`: subscriber of lock events, `lockNextWorker`, the rejected `lockChange` |
| `Aquire`, `Granted`, `AquireTimeout` | `workers/locks.ts`: `aquire`, `changeEvent(true)`, its time-out |
| `Release`, `Freed`, `ReleaseTimeout` | the same file: `release`, `changeEvent(false)`, its time-out |
| `StartJob`, `FinishJob`, `ReportJob`, `ReportFails`, `ThreadDies`, `InitWorker`, `Terminate`, `StopIdle` | `workers/parent-base.ts` |

`Exclusive` says that two jobs own one resource only if one of their threads was told to terminate or left a
branch behind. `ResourcesComeBack` has two parts: no resource is free while locks wait for it, and between
jobs a thread holds nothing and waits for nothing, whatever was granted to a lock that had given up.

`LockService` is what the documentation promises: one owner at a time, in the order of arrival. The
refinement mapping takes for the owners of a resource the locks whose *child* believes to hold them, and for
its line the locks that wait at the parent, or were granted and not told yet, and have not given up.
`EveryLockServed` and `LeakedLockFreed` are the liveness of it: nobody waits forever, and no lock that was
given up keeps its resource.

## 5. Playout (`PlayoutModel`, `Playout`)

`PlayoutModel` has what all playout jobs share: loading (which instances are in memory), the operations of
`PlayoutModelImpl`, `selectNextPart`, `setNextPart` with `blueprint.onSetAsNext`, the reset of instances when
the segment changes, and what a save leaves in the database. These are functions from a model to the set of
models that may result; a choice stands for time (whether an earlier Part still reaches into the present) or
for a blueprint. `Playout` has the jobs as actions, one each; a job is one step, since it runs under the
playlist lock and writes only at its end, except that the worker may die between the writes of the save
(`CrashDuringSave`: the playlist alone, the instances alone, or both without what was deferred). A job that
throws is a disabled action: it saves nothing. Reports of the gateway come in any order and any number,
about anything that some timeline told it to play (`OnTimeline`).

| Model | Code |
|---|---|
| `playlist.previous/current/next` | `previousPartsInfo`, `currentPartInfo`, `nextPartInfo` |
| `playlist.activation`, `rehearsal`, `hold`, `queued` | `activationId`, `rehearsal`, `holdState`, `queuedSegmentId` |
| `instances[<<p, k>>]` | the k-th instance of Part p: `playlistActivationId`, `rehearsal`, `isTaken`, `reset`, `timings.reportedStartedPlayback`, `orphaned` |
| `setting` | one studio and rundown out of `Settings`: the Parts, the modes, the studio's settings, and the bounds of a run |
| `HandleTakeNextPart`, `TakeNext` | `take.ts` |
| `HandleSetNext*`, `HandleMoveNextPart`, `HandleQueueNextSegment` | `setNextJobs.ts`, `setNext.ts`, `moveNextPart.ts` |
| `HandleActivateHold`, `HandleDeactivateHold` | `holdJobs.ts` |
| `Handle{Activate,Deactivate,Reset}RundownPlaylist`, `HandlePrepareForBroadcast` | `activePlaylistJobs.ts`, `activePlaylistActions.ts` |
| `OnPartPlaybackStarted`, `OnPartPlaybackStopped` | `timings/partPlayback.ts` |

`SlotsMatchInstances` relates the slots of the playlist to the stored instances, `SlotsDistinct`,
`SelectedShareActivation` and `HoldPairs` the slots to each other and to the activation; all four are promised
of what jobs leave (`Whole`: no save was cut short). `ResetRecovers` says what is promised after one that was.
`MovesCompletely` is about steps: what was planned for a move of the playhead is over with it.

`HandleSetNextInstance` is "play from here". The job makes any instance next that it has in memory, and asks
neither whether it is reset nor of which activation it is (`setNextJobs.ts:41-57`, `setNext.ts:130-148`); only
what the UI offers is filtered so (`partInstancesUI/rundownContentObserver.ts:98-105`), and a click may come
late. So does the model. Where users play from anywhere (`PlayFromAnywhere`), what is next may therefore be
reset, or of another activation, and `SlotsMatchInstances` and `SelectedShareActivation` promise nothing of
these two: they say the rest of what they say, and all of it in the other settings.

Part p is the p-th of the ordered Parts; their order does not change. `TrackPlayed` says whether instances
that were played and are in no slot are remembered; it matters only to what a reset does to them. The ids of
instances are without bound; a new instance takes the first id that no job can meet any more (`Remembered`).
`PreserveUnsynced` is a constant of the code (`shared-lib/src/core/constants.ts:5`), which is off.
Pieces, timings, quickloop and adlibs are not modelled.

## 6. Ingest (`RundownIngest`)

`RundownIngest` extends `Playout` with a newsroom. `nrcs` is what the newsroom has, as Core caches it;
`rundown` has of each Part whether it is there and playable, and of each Segment whether it is there, and
whether it is an orphan (deleted, or hidden while it plays); `manual` is `nextPartInfo.manuallySelected`, and
`cleanup` the set of `RemoveOrphanedSegments` jobs that are queued. A job of ingest is one step: it holds the
rundown's lock, what it computes before it takes the playlist's depends only on what the first protects.

| Action or operator | Code |
|---|---|
| `HandleUpdatedSegment`, `HandleRemovedSegment`, `HandleRegenerateRundown` | `ingestSegmentJobs.ts`, `ingestRundownJobs.ts`, `runOperation.ts` |
| `HandleRemoveOrphanedSegments`, `QueueCleanup` | `ingestSegmentJobs.ts`; `cleanupOrphanedItems` in `playout/setNext.ts` |
| `Commit`, `RemoveSegments`, `UpdatePartInstances` | `commit.ts`: removal, hiding and orphaning of segments, `updatePartInstancesBasicProperties` |
| `EnsureNextPartIsValid` | `updateNext.ts` |
| `PlayoutStep` | the jobs of `Playout`, with what they do to `manual` and `cleanup` |

`SlotsFollowRundown`: what is on air or next is never taken away, an instance is an orphan exactly while its
Part is gone, and what was chosen automatically is what follows in the rundown as it is now.
`RundownFollowsNrcs`: the rundown has what the newsroom has. `OrphansStayTended` is about steps: an orphaned
Segment is tended while it is in a slot or a clean-up for it is queued, and `Forgotten` otherwise. Reports that
a Part has stopped drop earlier instances (`partPlayback.ts:233`) and queue no clean-up, so they forget the
Segments of what they drop (`Dropped`, `StopReported`); nothing else forgets any, and every move of what is
current or next finds those that were forgotten. Without a gateway a take reports to itself, after its
clean-up was queued by the slots as they were: `PreviousAtCleanup`. A regeneration of the rundown
always commits, other operations when something changed.

Assumed: the rundown stays in its playlist, Parts keep their order, a blueprint leaves Parts out only before the
others of their segment (the code places instances of missing Parts by rank, and not always where they were), no
show style syncs changes into instances, and no crash within a commit.

## 7. Worker thread (`WorkerThread`) and external messages (`ExternalMessages`)

`WorkerThread` is one thread as its parent sees it. `loop` is what `startWorkerLoop` awaits, `call` how its
call to the child stands; the child process, its crashes, and the library that restarts it are external.
A part of the configuration is a number of changes: `config` in the database, `told` what the change streams
have said of it, `cached` what the child has loaded; `pendingInvalidations` and `taken` (what the open call
carries) are between the two.

| Action | Code |
|---|---|
| `LoopStep` (`Rests`, `RestartsThread`, `InitialisesWorker`, `Waits`, `PopJob`, ... `Reported`, `LoopEnds`) | `startWorkerLoop`, `parent-base.ts:205-440` |
| `TryRestartThread`, `RestartThread`, `ThreadIsRestarted`, `RestartFails` | `restartWorkerThread`, by the loop and by the watchdog |
| `Watchdog`, `Terminate`, `QueueCacheInvalidation` | the interval; `terminate()`; `queueCacheInvalidation` of `worker-set.ts` |
| `ChildCrashes`, `ChildRestarted`, `JobIsSlow` | what the code sees of threadedclass and of the child |

`StaleIsPending`: the parent does not forget an invalidation it was told of, through every crash and restart;
the exception, `lost`, is in section 13. `ReadyThread`: a thread that counts as ready has a child with its data,
whoever restarted it meanwhile. `JobsAreTaken`: the loop comes back to its jobs.

`ExternalMessages` is `ExternalMessageQueueRunner`, with the collection (`message`: state and flags), its
change stream, `triggerTimeout`, `running`, `probablyHasMoreToSend`, and the sends so far: a batch waits ten
seconds for each of its sends; one that takes longer goes on unwatched (`awaited`). Of time two facts are kept:
whether a message was tried within the last minute, and whether its `retryUntil` has passed. Users hold,
retry and remove messages (`Edit`). `PostedOnce`: a message reaches its receiver once, and once more at most
for each send that timed out or could not be recorded. `EveryMessageTried`: unless skipped messages fill
every batch, its change was missed, or it is held or too old, a message is tried.

## 8. Change feeds (`ChangeFeed`)

One collection (`log`, its oplog), the feed that all observers share (`stream`, `opening`, `restart`), and
for each query a multiplexer with its queue of tasks: snapshots (`sync`), events, and joins of observers. A
snapshot is read in batches (`reading`: when each document was read), and its time is the one that comes with
the last batch (`asyncCollection.ts:83-93`); the collection, the stream and the observers go on in between. An
event of an update carries what is stored when it is looked up, which may be later than the write.

The batches have a consequence in the code: a document that is written after its batch was read and before the
snapshot's time is not in the snapshot as it is now, and the event of that write is dropped as older than the
snapshot (`observeMultiplexer.ts:243-252`), though the comment at line 83 says that such events "are already
reflected in it". The view shows what the batch read until the document's next event or the next snapshot. The
same holds of every document when a snapshot after the first one fails, which is only logged (line 142). Two
history fields of a multiplexer name these documents: `asOf`, up to when the view was told of each, and
`unsynced`; a document is `Behind` in these two cases and no other.

| Action | Code |
|---|---|
| `StartFeed`, `AttachStream`, `DeliverChange`, `StreamBreaks`, `OpeningFails`, `RestartFeed`, `StopFeed` | `corelib/src/collectionChangeFeed.ts` |
| `AddSubscriber`, `RemoveSubscriber`, `Abort`, `JoinLive` | `observeMultiplexer.ts`: `addObserver`, `stop`, replay to a newcomer |
| `ReadBatch` | `asyncCollection.ts`: `observeDeps`, `snapshot` |
| `ApplySnapshot`, `SnapshotFails`, `ProcessEvent` | `observeMultiplexer.ts`: the tasks |
| `ApplyChange`, `Matched` | `memoryCollection/observeView.ts` |

`ObserversFollow`: an observer has seen exactly the view (`SeenIsView`); no event takes a document back behind
what was read of it, or behind an earlier event (`NeverBack`, for every document, behind or not); and the view
is what is stored, but for documents that are behind, once the queue is empty and the stream has delivered
everything (`CaughtUp`). `Converges`: whoever joins goes live or hears that it cannot, and in the end sees what
is stored, with the same exception.

## 9. Publications, DDP and commands

- `OptimizedObserver`: one identifier of `optimizedObserverBase.ts`. `wrapper` has all wrappers, the one that is
  `registered` and those that still stop; `timer` is the one timer that `lazyIgnore` keeps for the identifier.
  The sources are a version. Actions: subscribe, unsubscribe, the steps of setting up (`ObserversReady`,
  `FirstData`, `FinishLoading`, `Abandon`, ...), of an update (`TimerFires`, `FinishUpdate`, `UpdateFails`,
  `Retrigger`) and of stopping. `SharesWorker` and `AllSeeLatest` hold while no two wrappers overlap; what
  happens when they do is run `optimized_observer_overlap`.
- `ObserverGroup`: `ReactiveMongoObserverGroup`. `stop` and `restart` leave requests, `runCheck` serves them,
  and several invocations of it may be under way (`check`); each start of the observers is a generation. An
  invocation stops those observers that were known when it began to stop them (`captured`), and then forgets
  those that are known by then, as `stopAll` does.
  `GroupServed` is `NoneLeftRunning` and `RequestsServed`; `StopReturns`, in `EverythingAnswered`, is of the end.
  `NoneLeftRunning` ends with the first overlap of two checks, after which the code may leave observers running
  for ever (section 13).
- `DdpSession`: one session of `core/ddp-server`: its queue of messages with `unblock`, its subscriptions, the
  merge box of one field of each document, and what the client has. `ClientSeesMerge`: the client has a
  document exactly if a subscription publishes it, and of the field a value that one of them published last.
  `MessagesInTurn`: a message waits only while one thing is to take it, and a subscription is ready before it
  ends, each once. `PrecedenceKept`: nobody's joining or changing takes a value away from the first publisher.
- `DdpClient`: the connection of a gateway (`sci`): sockets that were given up deliver their last events,
  and the handlers do not tell sockets apart; `autoSubscriptions` are renewed on every new connection.
  The server is `session`, the subscriptions it has of each socket. `SubscriptionsRenewed` has two parts.
  `AskedAgain`: a client that believes that it is connected, with no event of an earlier socket to come, has
  asked for all its automatic subscriptions on the socket it has. `StaysRenewed`: it gets there and stays there,
  unless it starts to connect again and again for ever (`ConnectsForEver`). A subscription becomes
  automatic when it is first answered, so this is not said of one whose connection broke before (section 13).
- `PeripheralCommand`: `executePeripheralDeviceFunction` in Core, the command's document, and the gateway that
  sees it (`playout-gateway/src/coreHandler.ts`). A look at the document is a query whose answer may be old.
  `RunOnce`, and `CallSettles`: the caller gets an outcome, and no timer, observer or document is left. The
  timer (`executeFunction.ts:137`) and the comparison by which a check finds the time-out passed (line 95) go by
  different clocks, and the time of the command is taken after the timer was set (line 143): `TimerFires` does
  not ask for `elapsed`, and the clock may be set back (`ClockSetBack`). The timer is not set again, so a call
  that it came too early for waits until the gateway replies, if it ever does: `Overlooked`, which
  `CallSettles` names as one of its exceptions. One command to one device is modelled; in the gateway, a
  sub-device that is made anew while a command is open is not.

## 10. The runs

Components that share no state are checked side by side in one run: a variable `focus` says which of them a
behaviour is about, the others stay where they started. A temporal property of one of them holds
trivially in behaviours of another. In `lock_service` it says which threads, resources and locks take part.

| Run | Question | Bounds, and why they suffice |
|---|---|---|
| `queue_and_locks` | Are wake-ups, jobs, handlers and the order of events safe? One owner, no idle resource, nothing kept between jobs, with every kind of trouble? | *queue*: 3 submissions of 2 names (an event can be merged ahead of a job queued between, a debounced one can find an equal one in either list), one interruption, one restart; *locks*: 2 threads, 2 rundowns, 3 locks (an owner, one that waits, and a ghost of an earlier job); one thread may die, time out, terminate and stray, the other may fail to report. Names and rundowns are symmetric; the temporal property is about steps of job numbers and names no name. |
| `lock_service` | Does the protocol implement `LockService`, is every lock served, and does none keep what its job gave up? | *contended*: 3 threads want one playlist, so that two can wait and be told apart by arrival; one dies and times out; *nested*: 2 threads with a rundown and a playlist each, 4 locks, the smallest deadlock, and no faults, so that none is resolved by luck |
| `playout_safety` | Do the slots stay consistent with the instances and with each other, and does a reset lead out of any crash? | seven settings: `Holds` (4 Parts in 3 segments: a neighbour within, a next and a skipped segment; an autonexting Part, a hold pair, a gateway), `Resets` (both modes, reset on air), `Earlier` (two previous instances: where order and duplicates show), `Moves` (a blueprint moves next), `Anywhere` ("play from here"), `Crashes` (one crash within a save, two Parts), `Remains` (a crash among instances of earlier activations) |
| `rundown_ingest` | Does what is on air or next follow the newsroom? | four settings: `Hiding` (2 segments, one sent, hidden, removed), `Autonexting` (both come and go, the first autonexts), `Rewriting` (one segment of 3 Parts that lose and regain Parts), `Reported` (a gateway, two earlier instances); one clean-up job may wait; `MaxInstances` of a Part in use at once: 3 (on air before, on air, next), or 2 in `Autonexting` and `Reported`. 80,984 states |
| `worker_services` | Are jobs dispatched and taken, invalidations kept, messages tried, and posted once? | *queue*: 2 names, 2 jobs, one interruption, one restart, a debounce that elapses; *thread*: 2 jobs, 2 changes of one document, 2 faults (a crash during the restart that followed another); *external*: 2 messages, batches of one (so that one has to wait), 3 sends, one fault, one edit |
| `change_feed` | Do observers follow the collection? | 2 observers of one query, which matches a document only while it is on; each joins and leaves once at most. 2 documents, so that a snapshot has two batches and a write may come between them; 2 of 3 `Writes` (an update that stops the match, a deletion, an insert: the least that an old event can undo); one fault (a break, a failed opening, or any snapshot that fails); a second query keeps the stream open. 542,168 states |
| `core_services` | Groups, shared publications, sessions, clients, commands | *group*: 3 overlapping checks, 4 restarts, one failure; *observer*: 2 subscribers, 2 wrappers, one change, one failure; *session*: 2 subscriptions and a call, one document with 2 values; *client*: one subscription, 3 sockets (one given up that is still to close, its successor, and that one's), one break (the client gives up sockets without any); *command*: 3 faults (one of them may set the clock back). 117,707 states |
| `job_queue_promises` | *violation*: does every caller's promise settle? | 3 jobs of 2 names |
| `worker_locks_stray` | *violation*: is a lock always ownership? | 2 threads, 3 locks, one thread with parallel locks |
| `playout_queue` | *violation*: does an autonext clear the queued segment it consumes? | setting `Holds` |
| `rundown_ingest_marked` | *violation*: is a removed segment always marked? | as `rundown_ingest` |
| `optimized_observer_overlap` | *violation*: does each listener receive the result? | 2 subscribers, 2 wrappers, 2 changes, no failure |

What the violations show:

- `job_queue_promises`: a debounced `queueJobAndWrapResult` that finds an equal job queued is dropped with its
  completion handler; the caller's `complete` promise never settles.
- `worker_locks_stray`: `Promise.all` over rundown locks ends with the first failure; a branch left behind is
  granted its rundown after the job ended, and loses it to the clean-up of the thread's next job.
- `playout_queue`: on an autonext the check whether the next Part consumes the queued segment reads the
  playlist after it was cycled, when `nextPartInfo` is null; the segment stays queued.
- `rundown_ingest_marked`: a segment that the newsroom removed while it was on air loses its mark when another
  ingest operation finds it empty and no longer selected; the clean-up that was queued for it passes it by.
- `optimized_observer_overlap`: a wrapper that still stops when the next one of its identifier is made takes
  away that one's entry, or its timer, and its subscribers keep old documents or wait for ever.

## 11. Fairness

Each specification states what the code's scheduling gives, and nothing of what users, devices and networks
may or may not do.

- `JobQueue`: the event loop runs what was queued, timers fire, the worker keeps looping and reports, a closed
  worker is restarted (`autoRestart`), time passes. Submissions, interruptions, crashes are owed by nobody.
- `WorkerLocks`: while there are messages some are handled (`MessageHandled`), jobs end and their end is
  reported (`JobEnds`). Time-outs have none: what is served is served without them.
- `WorkerThread`: the parent's event loop, the library that restarts a crashed child, the watchdog's interval
  and the change streams; a slow job ends only by the watchdog.
- `ExternalMessages`: sends that a batch waits for come back (at the latest when they time out); of one that
  was given up nothing is assumed. Minutes pass.
- `ChangeFeed`: tasks are run, an open stream delivers, a restart that was scheduled happens. Writes and
  observers are owed by nobody.
- `OptimizedObserver`, `ObserverGroup`, `DdpSession`: promises settle, immediates and timers fire, handlers of
  methods and publications end.
- `DdpClient`: weak fairness of each socket's events and of the reconnection's interval, nothing more. Nothing in
  the code keeps the interval from giving up a socket before it is connected, or the close of an old one from
  ending the connection of its successor, time after time: `SubscriptionsRenewed` therefore excepts behaviours in which
  the client starts to connect for ever.
- `PeripheralCommand`: Core's timers, event loop and database, and that its clock goes on; of the gateway nothing.

The eventual properties have the form `<>[]`: the bounds on faults, writes and submissions stop every
behaviour of the model, so that a `~>` of every request follows from the state in which all has settled.
Where `~>` says more (an observer that joins, a group that is stopped) it is used.

## 12. What is proved

All proofs are for every value of the constants that meets the module's assumption, unless a hypothesis is
named. Inductive invariants were checked by TLC before they were proved.

- **`JobQueueProofs`**: `TypeCorrect` (`TypeOK` is inductive by itself; the lemmas say what each operation on
  the lists does to the set of entries). `NoWakeupIsLost`, with `EarlyBy = 0` (timers do not fire early), by
  `WakeInv`: besides `TypeOK`, submissions to come have left no trace, and an entry without an armed timer is
  ready, because a parked worker rests on the timers of the entries it did not take. `ServedExactlyOnce`,
  `MergesKeepOrder` and `ServedInTurn` (an action property) by `QueueInv`: submissions to come have left
  no trace, and an undebounced job stands behind another one only if it was submitted later than that one and
  all that was merged into it.
- **`WorkerLocksProofs`**: `TypeCorrect`, `ExclusiveOwnership` and `OneOwner` (without terminations and stray
  branches `MutualExclusion` holds) by `OwnInv`: `ClaimStands` (who owns, or is about to be told so, is the
  holder), `GivenUp` (the parent frees only what the child gave up), `DoneWhenEnded`, `DoneWhenDead` (a thread
  that ended its job or died has no live lock), `KnownLocks`. Without `GivenUp` an unlock still under way could
  take a resource from its next owner; without `DoneWhenEnded` `releaseAllForThread` could. `NothingKept`
  (`ResourcesComeBack`) by `BackInv`: a lock that is asked for still wants its resource and was not granted, and
  a thread between jobs asks for nothing; otherwise a late request would join after the clean-up.
  `LocksAreAService`: without terminations and stray branches (`Shutdowns = {}`, `StrayThreads = {}`, for reasons
  that the last section and `worker_locks_stray` give) `LocksSpec` implements `LockService`, by `BackInv` and `LineInv`: what the parent
  knows of a resource has arrived there and is about that resource, and who was granted it and does not know
  yet was first in line. `HandleLock` is a `Join`, a `Granted` in time an `Enter`; every other step is a
  `Leave` of the locks that it gives up, often none: handing a resource to the next lock is hidden from jobs.
- **`PlayoutProofs`**: type correctness and all seven properties of `playout_safety`. A job is a chain of
  operators on models, so there is a chain of lemmas: `Fits` (a model has its types), `AiredInOrder` and
  `NextInOrder` (what the slots say of the instances, in memory) are kept by each operator, `Good` puts them
  together with what a job must establish before it saves, and `SaveKeeps` brings it to the database.
  *Inductive invariant* `PlayoutInv`: the types, the checked properties together, and `NextIsProper` (what is
  on air is not next, across crashes, too; and only an instance can consume the queued segment). They need
  each other: that an instance that is removed is in no slot rests on `OnlyNextIsUntaken`, a take of a hold on
  `HoldPairs`, and what a re-activation finds in memory on `SelectedShareActivation`. Where users play from
  anywhere, `SlotsMatch` and `OneActivation` say nothing of whether what is next is reset or of the running
  activation, as a late click may choose any instance (section 5). `ResetsRecover` follows
  from the types alone, whatever a crash left; `MovesAreComplete` holds across crashes, too.
  The chain is stated so that the ingest proofs can use it where only a part of the invariant is known:
  `Sourced` says where each instance that a job saves comes from (in memory before it, or the instance that the
  job created); `InPlace` is `Good` without holds; `Lingers` says that a job which leaves the current instance
  leaves the earlier ones, too, unless it reports that a Part has stopped (`StopReported`);
  `GoesOn` that a job which is not about what is next has selected anew what follows (`Follows`), or left it.
- **`RundownIngestProofs`**: six theorems by one inductive invariant, `IngestInv`.
  - `IngestTypeCorrect`, by the types.
  - `RundownIsAsTold` (`RundownFollowsNrcs`), with the hypothesis `~PlayFromAnywhere`. It rests on `Concealed`: a
    concealed Segment (whose Parts are not to be played) has no Part that is next or on air, and `Shown`: a Segment
    of what is next or on air is stored. A commit gives the marks of a concealed Segment that is live a different
    meaning (it becomes an orphan, `commit.ts:830-843`), so without them the Parts of a Segment that the newsroom
    still has could go. A commit keeps them by its own order (`CommitKeeps`); a playout job because it selects
    only instances that were selected, or new ones of Parts that are playable (`LiveComesFrom`, by `Sourced`).
    Play from anywhere breaks that: an instance that was taken and lies in a Segment that has been concealed
    since may be made next again (`setNextJobs.ts:50`), and nothing is promised then.
  - `SlotsMatchThroughEdits` (`SlotsMatchInstances`, `SlotsDistinct` and `SelectedShareActivation`, of `Playout`,
    when the rundown changes, too), by `SlotsInPlace`. `HoldPairs` is not kept: `ensureNextPartIsValid` does not
    look at the state of a hold, so the Part it is held to may be taken away.
  - `SlotsStay` (`SlotsStayInRundown`, half of `SlotsFollowRundown`), with `~PlayFromAnywhere` and no crash within
    a save, by those and `OrphanedGone`: an instance is orphaned exactly while its Part is gone, which
    every commit establishes anew and a job inherits from the instances in memory.
  - `SlotsFollow` (`SlotsFollowRundown`: `SlotsStayInRundown` and `NextFollows`) with the same hypotheses and without
    moves by a blueprint (`BlueprintMoves = {}`), by `Following`. `NextFollows` alone is not inductive: it is silent
    while a Segment is queued, and clearing the queue must bring it back. So `Follows` holds whatever is queued,
    unless what is next consumes the queue, and adds that what is next is of the queued Segment only where that is
    on air, too. Without that, an edit could keep the next copy as the first Part of the queued
    Segment (`KeptFollows`), and when the queue is cleared something else would follow. A commit that keeps what
    is next has compared it with the rundown (`EnsureFollows`); one that does not, and every take, activation and
    reset, selects by the same rule (`SelectedFollows`); a Segment is queued only while what is next is of the
    Segment on air (`QueueKeepsSlots`).
  - `OrphansTended` (`OrphansStayTended`), for every setting and without a hypothesis, across crashes, too. It
    rests on `NothingBehind` (nothing was on air before when nothing is) and on what is out of the newsroom's hands
    (`Away`). A job that takes an instance from a slot sets the next one, and so queues a clean-up
    for what the saved slots no longer hold (`QueueCleanupTends`); every other job leaves the
    slots as they are, but for the earlier instances that a stop report drops (`Lingers`, `MayForget`).
    A commit removes an orphan or leaves it to a clean-up that is still queued.
- **`ChangeFeedProofs`**: `TypeCorrect`; `ViewsKeepUp` (`NeverBack` and `SeenIsView`) and `Following` (all of
  `ObserversFollow`), without a hypothesis: whatever fails, and in whichever batches documents are read.
  `FeedInv`: who is there is counted and joins once, only the first task reads, an event tells what was stored at
  its time or later, there is one stream at most (`OneStream`), and the events of a queue ascend, those of an
  earlier stream first: one that will not be dropped as older than the snapshot tells of a later time than the
  view knows of its document (`Ascends`). Without that an event could take a document back. `FollowInv`: while
  there is a stream, behind the last snapshot of a queue are all events of this stream in their order
  (`InTurn`), and each document will be read again (`WillRead`), is behind, or has its last delivered write still
  to come, or in the view, or in what its batch has read (`Covered`). When the last batch is there, a document
  that was written between is behind from then on, and the others are covered.
- **`WorkerServicesProofs`**: `MessagesArePostedOnce` (`PostedOnce`) by a *credit*: what was posted, plus the
  sends nobody waits for that may still post, plus one if the message may be sent again, is at most one more than
  the number of its troubles. That needs that batches do not overlap (`OneBatch`). `DataReachTheThread`
  (`ThreadHasItsData`) by `ThreadInv`: which states of the child go with which status and which place of the loop
  (`ReadyThread` rests on it, through every restart of the loop, the watchdog and the library); a call stands for
  the loop that waits for it (`CallStands`); and what is stale in the child is pending, or with the open call
  (`InvalidationsKept`).
- **`CoreServicesProofs`**, each part with the inductive invariant of one component:
  - `ClientHasTheMerge`, `FirstPublisherIsSeen` (an action property) and `OneMessageAtATime`, of `DdpSession`, by
    `SessionInv`. `MergeInv`: the precedence list of a field has one entry for each subscription that publishes
    it, with what that one published last, and the client has what is first in it. One lemma for each operation
    on such a list says that the others keep their entries and their order (`Entered`); a document that nobody
    publishes has an empty list (`NobodyHolds`), which is why `removed` may drop it. `ContextInv`: a context holds
    documents only from its start to its stop, and what the client heard of it follows from where it is between
    the two. `QueueInv`: a message that waits to start a handler is the only one of its id; without it a handler
    could start twice. `TurnInv`: one immediate, or one method that blocks, or nothing and an empty queue.
  - `SubscribersShareTheWorker`, by `ObserverInv`: nobody is in two wrappers, only a wrapper that works has
    members, and until two overlap there is one that is not unused, in the registry as long as it works.
  - `GroupIsServed`, by `GroupInv`: as long as something is to be done there is a check, or the timer will start
    one (`CheckWillCome`); until two checks overlap one at most is under way, and it knows what runs.
  - `CommandsRunOnce`, by `CommandInv`: runs are counted against `#executedFunctions`, which only a restart of
    the gateway empties; notifications against the changes of the document.

`WorkerServices` and `CoreServices` assume of their constants what the components do (`ServicesAssumption`):
that a subscription's values are not `NoDoc` or `NoField`, that there is an invocation of `runCheck` at all,
and that bounds are numbers.

Only model-checked, and why: all liveness (fairness, `ENABLED` and temporal induction are beyond these
provers); and `AskedAgain`, so that nothing is proved of `DdpClient`.

## 13. Limits and observations

Not modelled and why: see `components` in `PROJECT.json`. Generated code, types, the UI and the gateways'
device libraries (not in the repository) stay outside; timeline generation is a pure transformation.

Seen while modelling; no run reports them. The first three show in the models when a constant is changed; each of
the others is in the model, under an exception that a property names, or left out of it, as is said:

- `EarlyBy = 1`: a debounce timer that fires while `Date.now()` reads less than `notBefore` (NTP may step it
  back) notifies a worker that parks again, and nobody wakes it later (`jobQueue.ts:324`).
- `Shutdowns = {t1}`: `terminate()` frees the locks of a job that still runs (`parent-base.ts:441`), so that
  the next job owns what the first one still uses.
- `DeafThreads = {t1}`: when `jobFinished` fails twice, `releaseAllForThread` is skipped and a lock granted
  after its time-out stays held until the thread's next report (`parent-base.ts:319`).
- *Playout.* Instances of segments left earlier are not in memory, so `resetPartInstancesWhenChangingSegment`
  (`setNext.ts:363`) does not see them. With "play from here" an instance may be previous and next at once, and
  after a late click what is next may be reset, or of an earlier activation, while `LoadPlayoutModel.ts:311` loads
  the pieces of the running one alone (section 5). After a crash that saved the playlist alone,
  `rundown.ts:105-115` throws for every job that updates the timeline until the playlist is reset.
- *Ingest.* A report that a Part has stopped prunes the previous instances (`partPlayback.ts:233`) without
  queueing a clean-up, so the Segment of one that was dropped stays until current or next moves again: the
  exception in `OrphansStayTended`. With crashes, play from anywhere or moves by a blueprint `SlotsFollowRundown`
  is false. A next instance keeps the copy of its Part when that becomes unplayable. An orphaned instance of a
  later Part is placed before earlier Parts when its deleted segment returns without it (`commit.ts`,
  `updatePartInstanceRanksAndOrphanedState`). A rundown moves between playlists under two locks taken one after
  the other (`commit.ts:151`); a crash between the saves of a commit (`commit.ts:205-214`) is not modelled.
- *Worker thread.* An invalidation whose call fails in a child that lives on is lost (`parent-base.ts:253-256,
  284-289`). `terminate()` of an idle loop waits for the next job (433-447); a change stream that ends
  terminates the worker set (`worker-set.ts:123-128`); a restart by the watchdog may end after the loop's.
- *External messages.* A failed send is not retried until another change comes; changes without a stream are
  missed (`ExternalMessageQueue.ts:86`); a `publish` that returns false counts as sent
  (`integration/rabbitMQ.ts:245-249`).
- *Change feeds.* A write that comes between a snapshot's batches is lost to the view until the document's next
  event (`observeMultiplexer.ts:243-252`), and so is what a failed resync was to find (line 142): section 8. A
  cursor may return a document twice, or miss one that moves in the index it goes by; the model reads each once.
  A multiplexer whose start failed never recovers while someone keeps joining it; a late `end` of a stream that
  was replaced (`collectionChangeFeed.ts:186`) is left out.
- *Publications.* When a generator throws, `stop()` of an `ObserverGroup` hangs. Each invocation of `runCheck` that
  returns clears `checkRunning`, though it may not have set it (`observerGroup.ts:46, 86`), so checks can overlap,
  and two that overlap may each start the observers; the group then knows one of the two sets and stops only
  that one. `NoneLeftRunning` is excepted from the first overlap on, and no run reports the leak.
- *DDP.* A subscription id that is used twice, and a document that is added twice by one subscription, are left
  out. The client's `collections` are not cleared on a reconnect (`ddpClient.ts:110`); a renewal that is refused
  stays in `#autoSubscriptions`. An `autoSubscribe` that is under way at a break never settles and is not renewed,
  although `coreConnection.ts:341` says "Upon reconnecting to Sofie, this publication will be restarted";
  `SubscriptionsRenewed` is about those that were answered once. Reconnecting may go on for ever (section 11).
- *Commands.* A query that fails at the time-out leaves the caller waiting (`executeFunction.ts:62`), and so does a
  timer that fires when by `Date.now()` the time-out has not quite passed since `cmd.time`, which is taken after
  the timer is set (lines 95, 137, 143): `Overlooked`. An insert
  that fails after it was stored (147-149) and a crash of Core (140) leave the document.
