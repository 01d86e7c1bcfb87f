# GUSIP, specified and checked

A verification development of GUSIP (Gujarat Unified Surveillance Intelligence
Platform): TLA+ modules of the parts of the backend in which several processes,
requests or messages meet, TLC runs on small instances of them, and theorems
that TLAPS checks for every value of the constants. Paths below are relative to
`src/backend/app/` unless they say otherwise. `PROJECT.json` is the index: it
maps every definition to the lines it stands for, lists the runs with the
properties they check, the hazards of the code, and the theorems.

## 1. The system

Cameras (departmental adapters, the Sentinel grid, a simulator) yield
*detections*. Workers sample frames and run detectors; adapters push signed
envelopes. Each detection becomes a row, usually a *trail point*, and, when it
matches the *watchlist*, an *alert*. The control room sees alerts over web
sockets and acknowledges them. Administrators manage roles and accounts, and
may hold a time-boxed *break-glass* grant that widens their scope. State is in
PostgreSQL (READ COMMITTED), in Redis (messages, grants, the grid's session
cookie, locks), in files (encrypted snapshots), and in the memory of each
process. `src/k8s/apps.yaml` runs three backend and three worker replicas, and
every worker replica runs every loop: nothing is a singleton.

### Inventory

| Component | Code | State | Operations | What makes it hard | What makes it correct |
|---|---|---|---|---|---|
| Alert engine | `api/ingest.py`, `services/pipeline.py`, `services/matching.py`, `api/alerts.py` | receipts, events, alerts (open row per key, hit count), camera rows | push_detection, ingest_detection, maybe_raise_alert, ack_alert | overlapping transactions, unique-index races, savepoints, publishing before commit, retries | one open card per key, nothing recorded twice, counts and cards belong together, everything is answered |
| Camera-grid session | `services/sentinel_auth.py`, `fetch_catalog` | cookie per process, cookie and login lock in Redis, the grid's one session | session_cookie, peek_token, invalidate_session, fetch | election by SET NX with a TTL, threads and replicas, time-outs, stale copies | one login at a time, no valid session discarded, calls return |
| Roles and accounts | `api/admin.py`, `core/policy.py`, `services/iam.py`, `create_user` | users, roles, a cache of custom roles per replica | create, edit, remove and give roles; change accounts | check-then-act on counts, stale caches, partial failure | an administrator remains, no role vanishes under its users, nobody gains the administration |
| Live sockets | `api/ws.py`, `services/event_bus.py`, `ControlRoom.tsx` | hub of sockets with scopes, Redis subscription | connect, look up again, relay, broadcast | snapshot while sockets change, dead peers, scope read and used later | own alerts reach a wall, foreign ones never do, access ends when it should |
| Break-glass | `core/break_glass.py`, `api/auth.py` | grants with a TTL in Redis, audit rows | grant, revoke, expiry | two stores, no transaction over both | no grant without audit, none outlives its TTL |
| Retention | `services/retention.py`, `workers/main.py` | events, trail points, files, what refers to them | sweep: select, unlink, delete, delete trail points | files before rows, foreign keys, shared frames, several sweepers, crash in between | what is referred to stays, what has expired goes, no orphan files |
| Stream sampling | `workers/sentinel.py` (sync_catalog, sample_camera, advance_stream_clock) | the camera row, whose `extra` holds the stream clock; the camera's tracker | catalogue sync, listing, sample, commit | both loops write the whole JSON column they read, feeds stall and start over, processes die | time never runs ahead, a cut of the stream starts an epoch, the row ends up as the catalogue says |
| Frame grabbing | `workers/sentinel.py` (_ensure_local_publisher, _grab_frame_*, _renew_hls_session, anpr_loop) | the publisher process, RTSP back-off, HLS session, OpenCV threads, failure streaks | publish, burst, single frame, renew, back off | three ways to a frame that fail each in its own manner, threads that do not come back, a power that grows too large | no publisher is lost, HLS is the way out, samples end, frames come back |
| Face engine | `services/face.py`, `workers/inference.py`, `api/search.py`, `api/watchlist.py` | two files on a shared volume; sessions, meta data and remembered error per process | warm-up, load, download, enrol, search; embedding of persons in live frames, which is switched off for the cameras there are | no lock between threads or processes, partial loads | what is loaded serves, the files end whole, some process gets its engine |
| Tracker and scenes | `services/byte_track.py`, `services/scene.py` | tracks per camera and epoch | update, tracker_for, analyze_scene | greedy matching in two rounds, missed frames, epochs | one id per box, best overlap first, no new id for an old vehicle |
| Track and trail | `services/tracking.py`, `services/pipeline.py`, `api/search.py` | events, trail points | resolve_global_track, _same_camera_dwell, commit; plate_route, track_history, appearance_route | check-then-insert by several ingests, sightings out of order | no sighting is missing from its route, a route counts what it shows |
| Start-up | `seed.py`, `main.py`, `workers/main.py`, `matching.py`, `src/docker-compose.yml` | schema, roles, watchlist, faces, open alerts, unique index | migrate, seed, lifespan, collapse, index | each reads, then writes in a later commit, while others start or an older release still serves; killed at any point | a repeated start changes nothing twice, loses nothing and comes up |
| Cameras and health | `api/cameras.py`, `health_loop` | camera status | CRUD, probe | write-back of stale reads | status follows the last evidence |
| Cases, evidence | `api/cases.py`, `api/evidence.py` | cases, exhibits | add, export, decrypt | scope checks with reads in between | an exhibit stays in its department |
| Watchlist, GIS, feeds, plate OCR, simulator, front end, plumbing | see `PROJECT.json` | mostly none of their own | queries, streams, image processing | - | - |

Interactions: the sampler grabs a frame, the tracker numbers its vehicles within
the epoch the stream clock gives, and ingest
turns each detection into an event, a trail point and perhaps an alert, which it
publishes on Redis channels that every backend relays to its sockets. The sweep
deletes what ingest, acknowledgement and case work refer to; the role cache
decides who may acknowledge, grant or sweep; the grid session feeds the
catalogue and every HLS grab; a break-glass grant changes the scope that sockets
and requests read; the index that start-up creates is what ingest relies on for
one open card per key.

## 2. The modules

| Module | Models | State and actions |
|---|---|---|
| `AlertEngine` | one run of push_detection or of a worker's ingest_detection per *delivery*, and ack_alert | A step is one round trip to PostgreSQL or Redis: receipt look-up, receipt insert, camera row, `SELECT ... FOR UPDATE`, savepoint insert, fallback read, publish, commit, rollback. What a transaction has written is private until its commit step; the locks it holds are derived from how far it is. |
| `AlertInbox` | the abstract inbox of a control room | file, raise, stack, close, each in one step; `AlertEngine` implements it (`ImplementsInbox`). |
| `GridSession` | the shared session cookie over replicas and threads | One step per Redis command or login; the process lock is held while a thread posts and, after a failed POST, through the DEL of the login lock until it returns. The grid (external) accepts one session. |
| `RoleAdmin` | the administration requests over replicas | One step per statement; row locks by "written and not committed"; caches per replica refreshed where the code does. |
| `LiveHub` | sockets, relay and grants of one backend process | One step per await: token and user read, scope read, accept, silence, send; the broadcast works on its snapshot. |
| `Retention` | overlapping sweeps and what refers to the rows and files they delete | One step per statement and per unlinked file; ingest, acknowledge, add_evidence and ageing happen in between. |
| `StreamSampler` | one camera's row under sync_loop and anpr_loop of several processes | `row.extra` is read whole and written whole by both; a sample reads the row, takes a frame, and commits its clock later. Time and PTS count half seconds, the tolerance of advance_stream_clock. The feed (stalls, loops) and the catalogue are the environment. |
| `FrameGrab` | one worker's way to a frame | `pc` is the place in sample_camera's loop over URLs: publisher (kept, stopped, started, waited for), burst, single frames, HLS session renewals, back-off. A thread that does not return stays in `threads`. |
| `FaceEngine` | loading of the ArcFace engine by the API and the workers, and its use by the API | A warm-up thread per process and a loop thread per API process; files are absent, torn or whole; one step per check, file opened, file written, session set. |
| `Tracker` | CameraTracker.update, tracker_for and analyze_scene | A frame is one step from a list of boxes to a set of tracks, marks and scenes. Boxes are intervals of one width on a line, with overlaps in hundredths. |
| `Trail` | concurrent ingests that give ids and points, and the routes made of the points | Resolve, CheckDwell and Commit per ingest; the routes are operators over committed points, two folds as the code has two loops. |
| `Startup` | a backend and a worker that start, with an older release still serving | One step per SELECT-and-decide and per commit; `mode` is a first start in order (compose), a local one, or a rolling update. That a local deployment is brought up in order and what failed is started again is the operator's part (`src/docs/deployment.md:60`), not the code's; in a rolling update the older release's inserts end at `MaxRows`. |

`MC...` modules instantiate these for TLC. Eight `...Proofs` modules hold the
theorems, of one component or of those that follow each other in the code:
`AlertEngineProofs`, `GridSessionProofs`, `RoleAdminProofs`, `RetentionProofs`
and `StartupProofs`; `SentinelProofs` of `StreamSampler` and `FrameGrab`
(`workers/sentinel.py`); `VisionProofs` of `FaceEngine` and `Tracker`;
`ConsoleProofs` of `Trail` and `LiveHub` (what the operator's page shows). So
that such a pair can be extended together, one of the two has its own names for
Init, Next and Spec (`GrabSpec`, `TrackerSpec`, `TrailSpec`).

The modules share no variables; what one takes from another is its
interface: `Retention` takes an ingest as the atomic step that `AlertEngine`
shows it to be towards committed rows, `LiveHub` takes "the account is active"
as given by `RoleAdmin`, `Tracker` takes a cut of the stream from
`StreamSampler`, `Trail` takes epochs and local ids from both, and
`StreamSampler` takes "a frame or none" from `FrameGrab`.

Conventions. What a statement waits for in PostgreSQL is a guard. A failure
(commit, Redis, process, unlink) is an action of its own, switched on or bounded
by a constant, so that a run says which failures it covers. Payloads are model
values; counters that code increases without limit are limited by the finite
sets of deliveries, tokens, requests and by the `Max...` constants. A comment that
starts with "Mutant of" or "Fault:" marks a deliberately wrong variant of the
definition after it; it is used by nothing but a check that the named property
would notice.

## 3. What the runs show

All listed runs pass (bounds in the `.cfg`):

| Run | Instance | Shows |
|---|---|---|
| `alert` | any 2 of: 2 envelopes and a worker's detection on one key, a retried envelope, a reused sequence number, an unmatched detection, an unknown camera; 1 operator | `OneOpenAlert`, `LockedBumpIsCurrent`, `DetectionHasAlert` in every order of locks, savepoint, fallback and rollback; the refinement `ImplementsInbox`; every delivery is answered (`DeliveryIsAnswered`). |
| `grid_election` | 2 replicas, one of which syncs the catalogue beside a grab thread; sessions lapse, the shared cookie and the copies of one replica expire, logins prompt | `OneElected`: one election at a time; `RefreshIsNew`: a rejected cookie is not handed back, unless another thread of the process put it back. |
| `grid_calls` | a catalogue fetch and a grab in one replica; slow and failing logins, Redis that comes and goes, kills | `CallReturns`: nobody waits for ever, whatever locks are left behind. |
| `roles` | 2 requests at once in one replica, statements that fail | `OnlySuperAdminsAct`, `DeactivationKept`, and `RequestEnds` although they wait for each other's rows. |
| `hub` | a confined and a statewide socket that do not ping, an alert of another department, 1 grant, Redis and database failing | `NeverForeign`, `AccessDies`, `WallSeesAlert`. |
| `retention` | 3 detections, two of them with one frame, 2 alerts, 2 sweeps, batch of 1, a failure, files that cannot be removed | `AlertKeepsEvidence`: an alert keeps its event, and its picture until another detection of the frame that no alert refers to has expired; `CaseKeepsEvent`, `RecentSurvives`. |
| `sampler` | one process with both loops, a feed that stalls and starts over, a changing catalogue, a kill | `NeverFuture`: no event is later than it was seen; `CutUnlessLost`, `EpochHasOneTracker`: epochs and tracks are cut where the PTS falls back, unless a clock is written back older or the process dies; `CatalogueReturns`. |
| `grab` | 3 cameras, 2 sharing the publisher; HLS and RTSP fail and come back, 5 rejected sessions, hanging threads | `NoOrphanPublisher`, `HlsFallback`, `Recovers`, `SampleEnds`. |
| `face` | an API process and a worker on one volume, a kill, a failing download | `LoadedServes`, `WholeWhenQuiet`, `SomeoneReady`. |
| `tracker` | every order of frames of up to 2 boxes on 5 places, a missed frame, a cut | `OneTrackPerBox`, `NewOnlyIfAlone`, `NoBetterPair`, `ScenesOfOneEpoch`. |
| `trail` | 2 ingests at once, 3 sightings of vehicles, persons, faces at 3 cameras (one a stream) in any order of times | `SightingCovered`: no sighting of a plate is missing from its route; `RouteComplete`: the route counts and spans every point. |
| `startup` | a backend and a worker, an empty database or one left by an earlier release, in order, locally or as a rolling update, a kill | `HitsKept`, `TargetsOnce`, `MinorHasNoFace`, `PhotosKept` of an ordered start, and `Starts`: processes come up. |

Four more configurations pass and are run by hand, because they take an
instance or an assumption of their own (`tlc -config X.cfg MC...`):

| Configuration | Shows |
|---|---|
| `AlertEngine_inbox` | the invariants of `alert`, with `HitCountSound`, `RejectedIsSilent`, `RecordedOnce` and the refinement, for 3 deliveries: what it takes to have one insert, one bump and one fallback at once |
| `RoleAdmin_serial` | `LastSuperAdminStays`, `AssignedRoleExists` for one request at a time over 2 replicas: the guards work when requests do not overlap, stale caches or not |
| `Retention_purge` | `ExpiredPurged`, when no trail point holds an unalerted event |
| `Retention_FilesFollowRows` | `NoOrphanFile`, when files can be removed |

What the code does not do, though the repository says so, is in the
`..._refuted.cfg` files: each lists the properties that TLC refutes of a module,
one of them active and the others to be put in its place, with the constants
they want. They explain why the passing runs have the assumptions they have:

| Property (`<module>_refuted.cfg`) | What TLC finds | Said otherwise at |
|---|---|---|
| `AlertEngine`: `DuplicateIsDuplicate` | a first-time detection is refused as a duplicate when the open card is acknowledged between a failed INSERT and the re-read | `api/ingest.py:62` |
| `HitCountExact` | the unlocked fallback overwrites another bump | `src/PROJECT_OVERVIEW.md:62` |
| `PublishedIsDurable` | an alert is on the bus although its commit failed | `src/docs/architecture.md:131` |
| `GridSession`: `OneReplicaLogsIn` | a waiter gives up after 9 s and logs in beside the elected replica | `services/sentinel_auth.py:171` |
| `KeepsRefreshedSession` | a session published between GET and DEL is deleted | `services/sentinel_auth.py:110` |
| `RefreshIsAlwaysNew` | a grab thread that read the rejected cookie before writes it into the process's copy after `invalidate_session` cleared it, and the renewal hands it out again | `services/sentinel_auth.py:106` |
| `LoginsSettle` | replicas end each other's sessions for ever although nothing fails | `services/sentinel_auth.py:174` |
| `RoleAdmin`: `LastSuperAdminStays` | two overlapping requests leave no super administrator | `api/admin.py:418,428` |
| `AssignedRoleExists` | a role is given between the count and its removal | `api/admin.py:314` |
| `CachesSettle` | other replicas never learn of a role | `src/docs/security.md:37` |
| `LiveHub`: `SignedOutEnds`, `AccessDies` | a page that pings every 15 s keeps its access | `src/frontend/src/pages/AdminPage.tsx:358`, `core/break_glass.py:3` |
| `HomeSeesAlert` | `broadcast` reads `department_id` beside the payload, so a confined socket is sent nothing | `src/PROJECT_OVERVIEW.md:491` |
| `GrantIsAudited` | a grant may hold without an audit row | `core/break_glass.py:4` |
| `Retention`: `ExpiredPurged` | an expired event with its trail point makes every sweep fail, so nothing is purged | `src/docs/deployment.md:102` |
| `AlertKeepsPicture` | the picture of an alert is unlinked for another detection of its frame, which no alert refers to | `services/retention.py:6` |
| `NoOrphanFile` | a file whose unlink failed once stays for ever | `src/docs/deployment.md:102` |
| `StreamSampler`: `SceneCut` | sync_catalog writes back the clock it read before a cut, and the next sample repeats an old epoch | `workers/sentinel.py:14` |
| `CatalogueWins` | a sample whose plates are ingested after a sync puts a camera that the catalogue took off online again, for ever | - |
| `FrameGrab`: `LoopLives`, `HlsFallback` | after 1024 failures the power in the delay exceeds a float: the loop ends, or the sample ends before HLS is tried | `workers/sentinel.py:1259`, `workers/sentinel.py:7` |
| `OneCapture` | a thread left behind holds a capture while the next one opens | `workers/sentinel.py:15` |
| `FaceEngine`: `NeverBroken` | a call meets the two sessions before the meta data and raises KeyError | docstring of `warmup_arcface` |
| `BackAfterCrash` | a file torn by a kill has its name, so no start downloads it again and every load fails | - |
| `Trail`: `RouteOrdered` | a camera that sees the vehicle again moves its first hop to the later time, at the first place | `src/docs/HLD.md:80` |
| `RouteKeepsReturns` | a return to a camera is no hop of the route | docstring of `coalesce_consecutive_camera_hops` |
| `OnePlateOneTrack` | a stream names its own track, and what is seen after it takes that name | docstring of `resolve_global_track` |
| `TrackHasPoint` | a new epoch names a new track while the camera still dwells, so the track has no point | docstring of `appearance_route` |
| `OnePointPerDwell` | two ingests ask for the last point before either has committed | `_same_camera_dwell` |
| `NoneLost` | the dot product of an appearance (64) and a face (512) raises, and the sighting is lost | - |
| `Startup`: `LeftoversMerged` | the migration creates the unique index over doubled open alerts and fails before anything merges them; the worker waits for a healthy backend | `services/matching.py:99` |
| `HitsAreKept`, `TargetsAreOnce`, `MinorIsFaceless`, `PhotosStay` | in a rolling update, what was read before the older release or another start wrote is written back, or inserted twice | - |

### Bounds

Two or three actors of a kind suffice for the races here, which are between an
actor and the one that overtakes it; a third is there where a pair can leave a
trap for someone else (a lock left behind, a card closed in between). Every
instance lets each failure it has happen at any step. Constants that bound:

- deliveries, requests, tokens, grants and events are finite sets, each used
  once; `Paths` is the number of catalogue URLs; `MaxFailures` the failures of
  sweeps; `Batch` stands for 500 and is 1 or 2 so that full and short batches
  occur. Deliveries are symmetric in `AlertEngine_inbox`, which checks no
  liveness; elsewhere the instances give model values roles.
- `GridSession`: the names of cookies are interchangeable, because the code only
  compares them; `GridSession_election` takes states that differ in nothing else
  as one (its VIEW renames the cookies in the order in which the state's variables
  hold them), so the run is not bounded by logins, and no state can hold as many
  cookies as there are names. `GridSession_calls` checks liveness and does without. What lapses
  (`Lapse`), whose copies expire (`Expiring`) and who is killed (`Mortal`) is set
  per run; the proofs leave all of it open.
- `Retention`: an expired detection shares its frame with the one that alerts, and
  a third has a frame of its own.
- `StreamSampler`: `MaxNow` half seconds of wall clock, `MaxEdits` changes of the
  catalogue, `MaxCrashes` kills, and `Lag` for the age of a frame. Three or four
  half seconds hold a cut of the stream and what follows it.
- `FrameGrab`: `FloatLimit` stands for the 1024 failures after which the power
  overflows; `MaxRtspFails` and `MaxStreak` are where the counters stop growing,
  below the limit in the passing run and above it in the refuted ones;
  `MaxOutages` the times HLS goes away. `Attempts` is the code's 5.
- `FaceEngine`: one kill, one failing download. The file has two members, as the
  code asks for.
- `Tracker`: 5 places, 2 boxes, ids up to 4 and one cut; `MaxMisses` 1 stands for
  the frames a track survives. Two boxes and two tracks are what a wrong order
  of matching needs, the thresholds are the code's.
- `Trail`: 3 sightings on times 0..3, dwell and window of 2 and two slots: two
  ingests that overlap and one before or after.
- `Startup`: `MaxRows` alerts, `MaxHits` raises, one kill, one key, one role, two
  targets of which one is the child of the seed.

### Fairness

- `AlertEngine`, `GridSession`, `RoleAdmin`: strong fairness of each started
  delivery, call or request. An event loop resumes what is ready (weak
  fairness); strong fairness is for waiting on a row or process lock that is
  free again and again, which PostgreSQL's queue and a thread lock grant sooner
  or later. HTTP and Redis calls have time-outs, so they end. Nobody has to send
  a request.
- `LiveHub`: weak fairness of serving, broadcasting and of a TTL running out. A
  page that does not ping is silent for 60 s sooner or later; one that pings
  never is: this difference is what two of the refuted properties turn on.
- `Retention`: weak fairness of each sweep's next step, since the loop starts a
  sweep every day. Failures and ageing are never forced.
- `StreamSampler`: weak fairness of both loops, which run for ever and time every
  call out. The feed and the catalogue need not move.
- `FrameGrab`: weak fairness of the sampling loop, in which every wait has a
  limit, and of the restart of a worker that ended. `Recovers` assumes that from
  some time on HLS delivers frames (`hlsUp`: playlist, session, segment and ffmpeg
  all succeed); before that any of them may fail.
- `FaceEngine`: weak fairness of loading and of a call under way. Nobody has to
  ask.
- `Startup`: weak fairness of a start's next step; containers that failed are
  restarted (`restart: on-failure` in `src/docker-compose.yml`, and Kubernetes likewise).
- `Tracker`, `Trail`: none; they check safety only.

Deadlock is checked in every run but `trail` and `startup`, whose supply of
sightings, alerts and kills is finite: when it is used up and everything is
committed or serves, nothing is left to do. Elsewhere a specification whose
supply is used up has an explicit step for it, or rests in steps that ageing,
restarts or requests keep enabled.

## 4. What is proved

Every safety property that a run checks, invariant or action property, is a
theorem, and so is the refinement. The theorems hold for any sets of actors; each
module's named `ASSUME`s are the only assumptions, except where a theorem states
another one as its hypothesis. None of the properties is inductive except
`CaseKeepsEvent` and `NoOrphanPublisher`: they speak of what is committed or
shown, and what makes them true is under way. Each proof names what it adds, and
TLC checked the additions on the run's instance before they were proved. A proof
has one step, or one lemma, per action.

`AlertEngineProofs`, about `AlertEngine`:

- `TypeCorrect`; `OneOpenAlertHolds`, `RecordedOnceHolds`,
  `LockedBumpIsCurrentHolds`. The invariant `IInv` adds who holds what: receipts
  of open transactions exclude one another and the recorded ones (`Receipts`), an
  insert under way excludes open rows and other inserts of its key (`Inserts`),
  and a lock under FOR UPDATE pins the row as it was read (`RowLocks`).
- `DetectionHasAlertHolds` adds `CardsFit`: the row a delivery is about to insert
  or bump, and those an operator is about to close, are of one watchlist entry
  and camera.
- `EngineImplementsInbox`: under the mapping of `ImplementsInbox` a delivery's
  commit is one filing, with the card it raises or stacks on; an acknowledgement
  closes; each other step, private to its transaction, is a stutter. The step
  lemmas take `IInv` for what the abstract guards ask (no open card of the key
  where one is raised, an open one where one is stacked).

`GridSessionProofs`, about `GridSession`:

- `TypeCorrect`; `OneElectedHolds`, whichever replicas die, if logins end within
  the lock's TTL and Redis answers (`OneReplicaLogsIn` shows that the first is
  needed). Elected callers are at the steps between SET NX and DEL.
- `RefreshIsNewHolds`, if Redis answers, for any number of replicas and of threads
  in each: a worker syncs the catalogue beside its grab threads. A rejected cookie
  can come back in one way, through a thread of the same process that read it
  earlier and now writes it into the process's copy; the history variable
  `restored` marks the calls to which that happened. The invariant `Refresh` says of
  every other call that neither the process's copy nor Redis gives the cookie back
  once it is suspected (`Renewed`), and that a cookie about to be published is known
  to its thread only (`Unpublished`). The refuted `RefreshIsAlwaysNew` shows the
  excepted case.

`RoleAdminProofs`, about `RoleAdmin`:

- `TypeCorrect`; `OnlySuperAdminsActHolds`. The invariant adds that no row, no
  uncommitted write, no read result and no cache of any replica ever holds a
  super-administrator capability in a custom role (`Clean`), so staleness cannot
  help.
- `DeactivationKeptHolds`: an uncommitted write is its request's alone (row
  locks), and what it has in `is_active` is what the table has or what the
  request asks for (`Pending`).

`RetentionProofs`, about `Retention`:

- `TypeCorrect`; `AlertKeepsEvidenceHolds`, whether detections share a frame or
  not (all persons and vehicles of a frame have one snapshot). What a sweep selected
  can never come to be referred to by an alert (`Spared`), because an alert refers
  to an event only in the transaction that records it; so its event stays, and
  its picture is there or was unlinked for another detection of the frame, expired
  and without an alert (`Pictured`). `CaseKeepsEventHolds`; `NoOrphanFileHolds`, if
  files can be removed: the files a sweep has worked off are gone and stay gone
  (`Unlinked`).
- `RecentSurvivesHolds`, for shared frames too: the cutoff of a sweep, and the
  rows it selected under it, are of expired frames however long the sweep has
  been under way (`Expired`).

`SentinelProofs`:

- `TypeCorrect` and `EventsNeverInFuture` of `StreamSampler`, for any number of
  samplers. A clock is *sound* if its base time plus what its PTS adds is not
  later than now; the invariant says so of the row, of every clock a sync or a
  sample has read, and of the frame under way, so it does not matter whose write
  wins.
- `CutUnlessLostHolds` and `EpochHasOneTrackerHolds`, for one sampling process
  (`OneSampler`) and any number that sync the catalogue. Two samplers of one
  camera overwrite each other's clock; with one, the invariant
  `Unlost` says that as long as no clock was written back older and the process
  lives, what it starts from is what its last sample left, whatever the syncs
  write, and that no tracker has used a later epoch.
- `NoPublisherIsOrphaned` of `FrameGrab`: one case per exit of the publisher's
  steps; nothing else touches the process.
- `HlsFallbackHolds`, if the delay after a failure can be computed
  (`BackoffComputes`: fewer than 1024 failures in a row; beyond, the float
  overflows and the property is refuted). The invariant `HlsLeft` says that
  while HLS has refused nothing its URL is among those left to try.

`VisionProofs`:

- Of `FaceEngine`: `FilesEndWhole`: a torn file has a writer that opened it last
  and has not yet written; `LoadedAlwaysServes`: the sessions of a process stay
  once they are there, and a call which began with them is past every test that
  could refuse it.
- Of `Tracker`, for any number of boxes and tracks: `TrackerTypeCorrect`;
  `OneTrackPerBoxHolds`: ids given lie below the next one (`Numbered`), and a
  frame's assignment is one to one; `ScenesOfOneEpochHolds`: no track of the epoch
  was seen in more frames than the epoch has had (`Young`); `NewOnlyIfAloneHolds`
  and `NoBetterPairHolds`: what the greedy rounds leave over. The rounds are a
  recursion over the pairs left; the proof takes a smallest set of pairs that
  would be a counterexample (below).

`ConsoleProofs`:

- Of `Trail`: `SightingsAreCovered`: a point that a slot's dwell test saw is
  committed and stays. `RouteIsComplete`: an ingest has a number of its own and
  so has the point it commits (`Numbered`), so the points of a plate have one
  order (`Ordered`); the loop over stays makes of them what a loop over the single
  points would (`StayIsGathered`, because joining two hops is associative,
  `GatherTwice`); and the next point in time, gathered into a route, gives the
  route of one point more (`GatherShows`).
- Of `LiveHub`: `TypeCorrect`; `NeverForeignHolds`: from the read of the user to
  the hub, no scope of a user who never held a grant is wider than the home
  department (`Confined`), and the broadcast under way is aimed at such sockets
  only with alerts of their department (`OnlyOwn`).

`StartupProofs`, for a deployment with one backend container (`OneBackend`, as in
`src/docker-compose.yml`) and any number of workers, which is not being replaced
by a newer release (the properties say so):

- `TargetsOnceHolds`, `MinorHasNoFaceHolds`, `PhotosKeptHolds`: until a backend is
  healthy no worker starts (`Ordered`); what a seed under way has read still
  decides as the database would (`Looked`); once one seed is committed everything
  is there (`AllThere`). Two backends that seed an empty database at once insert
  the targets twice.
- `HitsKeptHolds`: a collapse writes sums it has read before. Either what it read
  had no two open rows of a key, and it writes nothing, or no backend has been
  healthy since and the rows are as it read them (`Reread`); once one is healthy
  the index keeps one open row per key (`Indexed`). The rest is about the sum
  itself: that it is the sum of its parts (`HitsUnion`) and so what a merge keeps.

The library's induction theorems take an operator as a parameter, which none of
the provers here can instantiate. Where a proof needs induction (the sum over
rows, the matching of boxes, the loops over points) it is written with sets: the
set of counterexamples has a smallest member (`Least`, `Smallest`, from the
library's well-founded minimum), which one step shows to be none; and that a
recursive function exists is proved the same way (`HitsDefined`, `LoopDefined`).
The modules that are proved about use recursive functions and the folds of the
community modules, never recursive operators.

Only model-checked: liveness under fairness and ENABLED, which are out of the
prover's reach: `DeliveryIsAnswered`, `CallReturns`, `RequestEnds`, `AccessDies`,
`WallSeesAlert`, `CatalogueReturns`, `Recovers`, `SampleEnds`, `SomeoneReady` and
`Starts`; and the safety properties of the configurations run by hand, but for
`RecordedOnce` and `NoOrphanFile`.

## 5. What is not modelled

Image processing and neural networks (plate OCR, YOLO, embeddings), cryptography
and token formats, byte streams, geometry and the filters of read-only queries,
layout, and configuration. The embedding of persons in live frames with its
cool-down (`workers/inference.py:33-58`): `_maybe_embed_person` returns at its
first test for Sentinel cameras (line 247), and no other frames reach it. Of components with behaviour of their own: the
statuses that `health_loop` writes back after awaiting its adapters, the scope
checks of cases and exports, the front end's merge of live and polled alerts, and
the production start, which neither seeds nor creates the index but finds a
schema upgraded beforehand. `PROJECT.json` lists each part with its reason, and
each hazard no property covers with a note.

## 6. Plan

Done: the modules and proofs above. Next, in this order:

1. Proofs: `HitCountSound` and `RejectedIsSilent` of `AlertEngine`;
   `LastSuperAdminStays` and `AssignedRoleExists` of `RoleAdmin` for requests that
   do not overlap.
2. `CameraHealth`: health_loop against ingest and sync_catalog on one status
   column.
3. `CaseScope` and the inbox merge of the front end as pure operators.
