---------------------------- MODULE StreamSampler ----------------------------
(***************************************************************************)
(* One Sentinel camera and the worker processes that keep its row: every   *)
(* process runs sync_loop (the catalogue into the row) and the Samplers    *)
(* also run anpr_loop (one frame, its clock, its tracks, into the row).    *)
(* Both keep what they know in the JSON column "extra", which each writes  *)
(* whole.  Time and PTS are counted in half seconds, the tolerance of      *)
(* advance_stream_clock.                                                   *)
(***************************************************************************)
EXTENDS Integers, FiniteSets

CONSTANTS
    Workers,     \* processes of app.workers.main
    Samplers,    \* those with sentinel_anpr_enabled
    Lag,         \* a frame is at most this much older than the feed's newest
    MaxNow,      \* bound: half seconds of wall clock
    MaxEdits,    \* bound: changes of the grid's catalogue
    MaxCrashes   \* bound: processes that die and restart

ASSUME SamplersAssumption == Samplers \subseteq Workers
ASSUME LagAssumption == Lag \in Nat
ASSUME BoundsAssumption == {MaxNow, MaxEdits, MaxCrashes} \subseteq Nat

VARIABLES
    now,      \* wall clock
    feed,     \* PTS of the newest frame of the feed, which loops
    cat,      \* what the catalogue says of the camera
    row,      \* the cameras row, its extra column included
    sample,   \* per sampler: the sample_camera call in progress
    sync,     \* per process: the sync_catalog call in progress
    tracker,  \* per process: the epoch of its tracker of the camera, or None
    taken,    \* history: the last PTS-timed sample
    used,     \* history: epochs under which tracks were numbered
    lost,     \* history: a clock was written back older, or a process died
    edits, crashes

vars == <<now, feed, cat, row, sample, sync, tracker, taken, used, lost, edits, crashes>>

None == -1                            \* a key that is absent, a PTS unread

(* The four stream_* keys of extra. *)
Clocks == [epoch : Nat, basePts : Nat \cup {None}, baseTime : Nat, lastPts : Nat \cup {None}]
NoClock == [epoch |-> 0, basePts |-> None, baseTime |-> 0, lastPts |-> None]

Rows == [present : BOOLEAN, active : BOOLEAN, online : BOOLEAN, live : BOOLEAN, clock : Clocks]
NoRow == [present |-> FALSE, active |-> FALSE, online |-> FALSE, live |-> FALSE, clock |-> NoClock]
Catalogue == {"live", "down", "gone"}

NoSample == [pc |-> "idle", clock |-> NoClock, row |-> NoRow]
NoSync == [pc |-> "idle", cat |-> "gone", row |-> NoRow]

(***************************************************************************)
(* advance_stream_clock: the clock after a frame with this PTS at time t,  *)
(* and the time given to the events of that frame.                         *)
(***************************************************************************)
(* Mutant of SceneCutAt: only a PTS that falls back by two seconds counts. *)
SceneCutAtTwoSeconds(c, pts) == c.lastPts # None /\ pts < c.lastPts - 3

SceneCutAt(c, pts) == c.lastPts # None /\ pts < c.lastPts - 1

(* Mutant of Advance: the first PTS of an epoch counts from 0. *)
AdvanceFromZero(c, pts, t) ==
    IF pts = None THEN c
    ELSE [epoch |-> IF SceneCutAt(c, pts) THEN c.epoch + 1 ELSE c.epoch,
          basePts |-> IF SceneCutAt(c, pts) \/ c.basePts = None THEN 0 ELSE c.basePts,
          baseTime |-> IF SceneCutAt(c, pts) \/ c.basePts = None THEN t ELSE c.baseTime,
          lastPts |-> pts]

Advance(c, pts, t) ==
    IF pts = None THEN c
    ELSE [epoch |-> IF SceneCutAt(c, pts) THEN c.epoch + 1 ELSE c.epoch,
          basePts |-> IF SceneCutAt(c, pts) \/ c.basePts = None THEN pts ELSE c.basePts,
          baseTime |-> IF SceneCutAt(c, pts) \/ c.basePts = None THEN t ELSE c.baseTime,
          lastPts |-> pts]

EventTime(c, pts) ==
    IF pts < c.basePts THEN c.baseTime ELSE c.baseTime + (pts - c.basePts)

TypeOK ==
    /\ now \in 0..MaxNow /\ feed \in Nat \ {0}
    /\ cat \in Catalogue
    /\ row \in Rows
    /\ sample \in [Samplers -> [pc : {"idle", "listed", "grabbed", "emitted", "merging", "plates"},
                                clock : Clocks, row : Rows]]
    /\ sync \in [Workers -> [pc : {"idle", "fetched", "selected"}, cat : Catalogue, row : Rows]]
    /\ tracker \in [Workers -> Nat \cup {None}]
    /\ taken \in [epoch : Nat, pts : Nat, ts : Nat]
    /\ used \subseteq Nat
    /\ lost \in BOOLEAN
    /\ edits \in 0..MaxEdits /\ crashes \in 0..MaxCrashes

Init ==
    /\ now = 0 /\ feed = 1 /\ cat = "live" /\ row = NoRow
    /\ sample = [w \in Samplers |-> NoSample]
    /\ sync = [w \in Workers |-> NoSync]
    /\ tracker = [w \in Workers |-> None]
    /\ taken = [epoch |-> 0, pts |-> 0, ts |-> 0]
    /\ used = {} /\ lost = FALSE /\ edits = 0 /\ crashes = 0

(***************************************************************************)
(* The grid: the feed runs no faster than the wall clock, may stall, and   *)
(* starts over; the catalogue changes.                                     *)
(***************************************************************************)
Tick ==
    /\ now < MaxNow
    /\ now' = now + 1
    /\ feed' \in {feed, feed + 1, 1}
    /\ UNCHANGED <<cat, row, sample, sync, tracker, taken, used, lost, edits, crashes>>

CatalogueChanges ==
    /\ edits < MaxEdits
    /\ edits' = edits + 1
    /\ cat' \in Catalogue \ {cat}
    /\ UNCHANGED <<now, feed, row, sample, sync, tracker, taken, used, lost, crashes>>

(***************************************************************************)
(* sync_catalog: fetch, select, one commit.  Only the columns that differ  *)
(* from the row as it was selected are in the UPDATE, except extra, which  *)
(* flag_modified always puts there, merged into the extra that was read.   *)
(***************************************************************************)
Fetch(w) ==
    /\ sync[w].pc = "idle"
    /\ sync' = [sync EXCEPT ![w] = [pc |-> "fetched", cat |-> cat, row |-> NoRow]]
    /\ UNCHANGED <<now, feed, cat, row, sample, tracker, taken, used, lost, edits, crashes>>

Select(w) ==
    /\ sync[w].pc = "fetched"
    /\ sync' = [sync EXCEPT ![w].pc = "selected", ![w].row = row]
    /\ UNCHANGED <<now, feed, cat, row, sample, tracker, taken, used, lost, edits, crashes>>

(* Mutant of Changed: a column is written only where it turns TRUE. *)
ChangedOn(new, read, current) == IF new /\ ~read THEN new ELSE current

Changed(new, read, current) == IF new # read THEN new ELSE current

Synced(y) ==
    IF y.cat = "gone"
    THEN [row EXCEPT !.online = Changed(FALSE, y.row.online, @),
                     !.active = Changed(FALSE, y.row.active, @)]
    ELSE [present |-> TRUE,
          active |-> Changed(TRUE, y.row.active, row.active),
          online |-> Changed(y.cat = "live", y.row.online, row.online),
          live |-> y.cat = "live",
          clock |-> y.row.clock]

(* The INSERT of a row another process inserted breaks cameras.code, and   *)
(* the rollback leaves everything as it was.                               *)
SyncCommit(w) ==
    LET y == sync[w] IN
    /\ y.pc = "selected"
    /\ row' = IF y.row.present = row.present THEN Synced(y) ELSE row
    /\ lost' = (lost \/ row'.clock # row.clock)
    /\ sync' = [sync EXCEPT ![w] = NoSync]
    /\ UNCHANGED <<now, feed, cat, sample, tracker, taken, used, edits, crashes>>

(***************************************************************************)
(* anpr_loop and sample_camera.  The row listed may be old when the frame  *)
(* comes: its clock is what the sample advances.                           *)
(***************************************************************************)
List(w) ==
    /\ sample[w].pc = "idle"
    /\ row.present /\ row.active /\ row.online /\ row.live
    /\ sample' = [sample EXCEPT ![w] = [pc |-> "listed", clock |-> row.clock, row |-> NoRow]]
    /\ UNCHANGED <<now, feed, cat, row, sync, tracker, taken, used, lost, edits, crashes>>

(* A frame of the burst, not always its newest; the PTS 0 of a container   *)
(* that has none counts as unread.  No frame from any URL: give up.        *)
Pts == {p \in (feed - Lag)..feed : p > 0} \cup {None}

Grab(w, pts) ==
    LET c == Advance(sample[w].clock, pts, now) IN
    /\ sample[w].pc = "listed"
    /\ sample' = [sample EXCEPT ![w].pc = "grabbed", ![w].clock = c]
    /\ taken' = IF pts = None THEN taken
                ELSE [epoch |-> c.epoch, pts |-> pts, ts |-> EventTime(c, pts)]
    /\ UNCHANGED <<now, feed, cat, row, sync, tracker, used, lost, edits, crashes>>

GrabFails(w) ==
    /\ sample[w].pc = "listed"
    /\ sample' = [sample EXCEPT ![w] = NoSample]
    /\ UNCHANGED <<now, feed, cat, row, sync, tracker, taken, used, lost, edits, crashes>>

(* A tracker is kept for one epoch: one of another epoch is dropped, and    *)
(* its numbering starts again with the next.                                *)
TrackerFor(w, epoch) == [tracker EXCEPT ![w] = epoch]

(* detect_jpeg numbers the tracks; ingest_detection brings a camera back    *)
(* that is offline.  A frame without detections skips both.                 *)
Detect(w) ==
    /\ sample[w].pc = "grabbed"
    /\ sample' = [sample EXCEPT ![w].pc = "emitted"]
    /\ \/ UNCHANGED <<tracker, used, row>>
       \/ /\ tracker' = TrackerFor(w, sample[w].clock.epoch)
          /\ used' = used \cup {tracker'[w]}
          /\ row' = [row EXCEPT !.online = TRUE]
    /\ UNCHANGED <<now, feed, cat, sync, taken, lost, edits, crashes>>

ReadFresh(w) ==
    /\ sample[w].pc = "emitted"
    /\ sample' = [sample EXCEPT ![w].pc = "merging", ![w].row = row]
    /\ UNCHANGED <<now, feed, cat, row, sync, tracker, taken, used, lost, edits, crashes>>

(* Mutant of Merged: stream_epoch is not among the keys carried over. *)
MergedButEpoch(s) == IF s.clock = NoClock THEN s.row.clock
                     ELSE [s.clock EXCEPT !.epoch = s.row.clock.epoch]

(* The clock keys of the sample into the extra read, if it has any. *)
Merged(s) == IF s.clock = NoClock THEN s.row.clock ELSE s.clock

SampleCommit(w) ==
    LET s == sample[w] IN
    /\ s.pc = "merging"
    /\ row' = [row EXCEPT !.live = s.row.live, !.clock = Merged(s),
                          !.online = Changed(TRUE, s.row.online, @)]
    /\ sample' = [sample EXCEPT ![w] = [NoSample EXCEPT !.pc = "plates"]]
    /\ UNCHANGED <<now, feed, cat, sync, tracker, taken, used, lost, edits, crashes>>

(* Each plate read is ingested, which brings the camera back once more. *)
Plates(w) ==
    /\ sample[w].pc = "plates"
    /\ row' \in {row, [row EXCEPT !.online = TRUE]}
    /\ sample' = [sample EXCEPT ![w] = NoSample]
    /\ UNCHANGED <<now, feed, cat, sync, tracker, taken, used, lost, edits, crashes>>

(* A process dies with the calls it has in hand and its tracker. *)
Crash(w) ==
    /\ crashes < MaxCrashes
    /\ crashes' = crashes + 1
    /\ sync' = [sync EXCEPT ![w] = NoSync]
    /\ sample' = [v \in Samplers |-> IF v = w THEN NoSample ELSE sample[v]]
    /\ tracker' = [tracker EXCEPT ![w] = None]
    /\ lost' = (lost \/ w \in Samplers)
    /\ UNCHANGED <<now, feed, cat, row, taken, used, edits>>

SyncStep(w) == Fetch(w) \/ Select(w) \/ SyncCommit(w)
SampleStep(w) ==
    \/ List(w) \/ GrabFails(w) \/ Detect(w) \/ ReadFresh(w) \/ SampleCommit(w) \/ Plates(w)
    \/ \E pts \in Pts : Grab(w, pts)

Next ==
    \/ Tick \/ CatalogueChanges
    \/ \E w \in Workers : SyncStep(w) \/ Crash(w)
    \/ \E w \in Samplers : SampleStep(w)

(* Both loops run for ever and every call of theirs is timed out. *)
Fairness ==
    /\ \A w \in Workers : WF_vars(SyncStep(w))
    /\ \A w \in Samplers : WF_vars(SampleStep(w))

Spec == Init /\ [][Next]_vars
FairSpec == Spec /\ Fairness

-----------------------------------------------------------------------------
(* No event is dated later than it was seen by more than the age a frame   *)
(* can have, whatever clock the sample started from and whoever wrote it:  *)
(* advance_stream_clock adds PTS to a base time that a loop of the feed    *)
(* leaves behind.                                                          *)
NeverFuture == taken.ts <= now + Lag

(* "A PTS regression is a scene cut" (header of sentinel.py): a sample      *)
(* whose PTS falls back by more than half a second starts a later epoch,   *)
(* and no sample returns to an earlier epoch.                              *)
CutSound ==
    /\ taken'.epoch >= taken.epoch
    /\ taken'.epoch = taken.epoch =>
        /\ taken'.pts >= taken.pts - 1
        /\ taken'.ts >= taken.ts - 1
SceneCut == [][CutSound]_taken

(* The same while no clock was written back older and no process died:     *)
(* those two are the only ways it fails.                                   *)
CutUnlessLost == [][lost \/ CutSound]_taken

(* Numbers of one tracker only in an epoch: ids "obj-camera-tN-eE" of two  *)
(* vehicles never meet (tracker_for, resolve_global_track) while no clock  *)
(* was written back older and no process died.                             *)
EpochHasOneTracker ==
    [][\A w \in Workers :
        ~lost /\ tracker'[w] # tracker[w] => tracker'[w] \notin used]_tracker

(* Once the catalogue stays as it is, the row agrees with it again and     *)
(* again, in spite of samples that put a camera online and write back the  *)
(* extra they read ...                                                     *)
RowAgrees ==
    IF cat = "gone" THEN row.present => ~row.online /\ ~row.active
    ELSE row.present /\ row.active /\ row.online = (cat = "live") /\ row.live = (cat = "live")
CatalogueReturns == []<>RowAgrees

(* ... but not for good: a sample that read extra before the sync commits  *)
(* and whose plates are ingested after it makes the camera one to sample   *)
(* again, and each next sample may do the same.                            *)
CatalogueWins == <>[]RowAgrees
=============================================================================
