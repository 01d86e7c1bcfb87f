--------------------------- MODULE SentinelProofs ---------------------------
(***************************************************************************)
(* What is proved of the two loops of workers/sentinel.py: of how a stream *)
(* is sampled and its clock kept (StreamSampler), and of how the loop gets *)
(* its frames (FrameGrab).  The two models share no variable.              *)
(***************************************************************************)
EXTENDS StreamSampler, FrameGrab, SequenceTheorems, TLAPS

(***************************************************************************)
(* StreamSampler: type correctness and NeverFuture, for every set of       *)
(* processes and every bound.  NeverFuture is not inductive: the time an   *)
(* event gets depends on the clock the sample started from, which may be   *)
(* that of the row, one a sampler or a sync holds, or one written back     *)
(* long after.  What all of them keep is ClockSound: since the base of the *)
(* clock was taken the feed has not gained on the wall clock by more than  *)
(* the age of a frame.                                                     *)
(***************************************************************************)
ClockSound(c) ==
    c.basePts # None => c.baseTime <= now /\ feed - c.basePts <= now - c.baseTime + Lag

ClocksSound ==
    /\ ClockSound(row.clock)
    /\ \A w \in Samplers : ClockSound(sample[w].clock) /\ ClockSound(sample[w].row.clock)
    /\ \A w \in Workers : ClockSound(sync[w].row.clock)

IInv == TypeOK /\ ClocksSound /\ NeverFuture

LEMMA BoundsNat == MaxNow \in Nat /\ MaxEdits \in Nat /\ MaxCrashes \in Nat /\ Lag \in Nat
BY BoundsAssumption, LagAssumption

(* NoRow and NoClock are values a clock and a row may have.                *)
LEMMA NothingTyped == NoClock \in Clocks /\ NoRow \in Rows /\ NoClock.basePts = None
BY DEF NoClock, NoRow, Clocks, Rows, None

(* A clock that is advanced is a clock.                                    *)
LEMMA AdvanceTyped ==
    ASSUME NEW c \in Clocks, NEW pts \in Nat \cup {None}, NEW t \in Nat
    PROVE  Advance(c, pts, t) \in Clocks
<1>1. CASE pts = None
  BY <1>1 DEF Advance
<1>2. CASE pts # None
  <2>1. pts \in Nat
    BY <1>2
  <2>2. (IF SceneCutAt(c, pts) THEN c.epoch + 1 ELSE c.epoch) \in Nat
    BY DEF Clocks
  <2>3. (IF SceneCutAt(c, pts) \/ c.basePts = None THEN pts ELSE c.basePts) \in Nat \cup {None}
    BY <2>1 DEF Clocks
  <2>4. (IF SceneCutAt(c, pts) \/ c.basePts = None THEN t ELSE c.baseTime) \in Nat
    BY DEF Clocks
  <2>5. QED
    BY <1>2, <2>1, <2>2, <2>3, <2>4 DEF Advance, Clocks
<1>3. QED
  BY <1>1, <1>2

(* Advancing a sound clock by a PTS the feed gives now leaves it sound,    *)
(* and dates the event no later than now and the age of a frame.           *)
LEMMA AdvanceSound ==
    ASSUME TypeOK, NEW c \in Clocks, ClockSound(c), NEW pts \in Pts
    PROVE  /\ ClockSound(Advance(c, pts, now))
           /\ pts # None => /\ EventTime(Advance(c, pts, now), pts) \in Nat
                            /\ EventTime(Advance(c, pts, now), pts) <= now + Lag
<1> USE BoundsNat
<1>1. CASE pts = None
  BY <1>1 DEF Advance
<1>2. CASE pts # None
  <2>1. pts \in Nat /\ pts > 0 /\ feed - Lag <= pts /\ pts <= feed /\ now \in Nat /\ feed \in Nat
    BY <1>2 DEF Pts, TypeOK, None
  <2>2. CASE SceneCutAt(c, pts) \/ c.basePts = None
    <3>1. Advance(c, pts, now).basePts = pts /\ Advance(c, pts, now).baseTime = now
      BY <1>2, <2>2 DEF Advance
    <3>2. QED
      BY <2>1, <3>1 DEF ClockSound, EventTime
  <2>3. CASE ~(SceneCutAt(c, pts) \/ c.basePts = None)
    <3>1. /\ Advance(c, pts, now).basePts = c.basePts
          /\ Advance(c, pts, now).baseTime = c.baseTime
      BY <1>2, <2>3 DEF Advance
    <3>2. c.basePts \in Nat /\ c.baseTime \in Nat
      BY <2>3 DEF Clocks
    <3>3. QED
      BY <2>1, <2>3, <3>1, <3>2 DEF ClockSound, EventTime
  <2>4. QED
    BY <2>2, <2>3
<1>3. QED
  BY <1>1, <1>2

LEMMA PtsTyped == ASSUME TypeOK PROVE Pts \subseteq Nat \cup {None}
BY BoundsNat DEF Pts, TypeOK, None

LEMMA InitSound == Init => IInv
<1>1. SUFFICES ASSUME Init PROVE IInv
  OBVIOUS
<1>2. TypeOK
  <2>1. NoSample \in [pc : {"idle", "listed", "grabbed", "emitted", "merging", "plates"},
                      clock : Clocks, row : Rows]
    BY NothingTyped DEF NoSample
  <2>2. NoSync \in [pc : {"idle", "fetched", "selected"}, cat : Catalogue, row : Rows]
    BY NothingTyped DEF NoSync, Catalogue
  <2>3. 0 \in 0..MaxNow /\ 0 \in 0..MaxEdits /\ 0 \in 0..MaxCrashes
    BY BoundsNat
  <2>4. [epoch |-> 0, pts |-> 0, ts |-> 0] \in [epoch : Nat, pts : Nat, ts : Nat]
    OBVIOUS
  <2>5. now \in 0..MaxNow /\ feed \in Nat \ {0} /\ cat \in Catalogue /\ row \in Rows
    BY <1>1, NothingTyped, <2>3 DEF Init, Catalogue
  <2>6. /\ sample \in [Samplers -> [pc : {"idle", "listed", "grabbed", "emitted", "merging", "plates"},
                                   clock : Clocks, row : Rows]]
        /\ sync \in [Workers -> [pc : {"idle", "fetched", "selected"}, cat : Catalogue, row : Rows]]
        /\ tracker \in [Workers -> Nat \cup {None}]
    BY <1>1, <2>1, <2>2 DEF Init
  <2>7. /\ taken \in [epoch : Nat, pts : Nat, ts : Nat] /\ used \subseteq Nat /\ lost \in BOOLEAN
        /\ edits \in 0..MaxEdits /\ crashes \in 0..MaxCrashes
    BY <1>1, <2>3, <2>4 DEF Init
  <2>8. QED
    BY <2>5, <2>6, <2>7 DEF TypeOK
<1>3. ClocksSound
  BY <1>1, NothingTyped DEF Init, ClocksSound, ClockSound, NoSample, NoSync, NoRow
<1>4. NeverFuture
  BY <1>1, BoundsNat DEF Init, NeverFuture
<1>5. QED
  BY <1>2, <1>3, <1>4 DEF IInv

(* A process's read of the row and a column of it are of their types.      *)
LEMMA SyncedTyped ==
    ASSUME TypeOK, NEW w \in Workers
    PROVE  /\ Synced(sync[w]) \in Rows
           /\ Synced(sync[w]).clock \in {row.clock, sync[w].row.clock}
<1>1. row \in Rows /\ sync[w].row \in Rows
  BY DEF TypeOK
<1>2. CASE sync[w].cat = "gone"
  BY <1>1, <1>2 DEF Synced, Changed, Rows
<1>3. CASE sync[w].cat # "gone"
  BY <1>1, <1>3 DEF Synced, Changed, Rows
<1>4. QED
  BY <1>2, <1>3

LEMMA MergedTyped ==
    ASSUME TypeOK, NEW w \in Samplers
    PROVE  Merged(sample[w]) \in {sample[w].clock, sample[w].row.clock} /\ Merged(sample[w]) \in Clocks
BY DEF Merged, TypeOK, Rows

(* Every step keeps the types. *)
LEMMA StepTyped == ASSUME TypeOK, [Next]_vars PROVE TypeOK'
<1> USE BoundsNat, NothingTyped
<1>1. CASE Tick
  <2>1. feed' \in Nat \ {0} /\ now' \in 0..MaxNow
    BY <1>1 DEF Tick, TypeOK
  <2>2. QED
    BY <1>1, <2>1 DEF Tick, TypeOK
<1>2. CASE CatalogueChanges
  BY <1>2 DEF CatalogueChanges, TypeOK
<1>3. ASSUME NEW w \in Workers, Fetch(w) PROVE TypeOK'
  BY <1>3 DEF Fetch, TypeOK
<1>4. ASSUME NEW w \in Workers, Select(w) PROVE TypeOK'
  BY <1>4 DEF Select, TypeOK
<1>5. ASSUME NEW w \in Workers, SyncCommit(w) PROVE TypeOK'
  <2>1. row' \in Rows
    BY <1>5, SyncedTyped DEF SyncCommit, TypeOK
  <2>2. sync' \in [Workers -> [pc : {"idle", "fetched", "selected"}, cat : Catalogue, row : Rows]]
    BY <1>5 DEF SyncCommit, TypeOK, NoSync, Catalogue
  <2>3. lost' \in BOOLEAN
    BY <1>5 DEF SyncCommit, TypeOK
  <2>4. QED
    BY <1>5, <2>1, <2>2, <2>3 DEF SyncCommit, TypeOK
<1>6. ASSUME NEW w \in Samplers, List(w) PROVE TypeOK'
  <2>1. row.clock \in Clocks
    BY DEF TypeOK, Rows
  <2>2. QED
    BY <1>6, <2>1 DEF List, TypeOK
<1>7. ASSUME NEW w \in Samplers, NEW pts \in Pts, Grab(w, pts) PROVE TypeOK'
  <2> DEFINE c == Advance(sample[w].clock, pts, now)
  <2>1. c \in Clocks
    <3>1. sample[w].clock \in Clocks /\ now \in Nat /\ pts \in Nat \cup {None}
      BY PtsTyped DEF TypeOK
    <3>2. QED
      BY <3>1, AdvanceTyped
  <2>a. sample' = [sample EXCEPT ![w].pc = "grabbed", ![w].clock = c]
    BY <1>7 DEF Grab
  <2>2. sample' \in [Samplers -> [pc : {"idle", "listed", "grabbed", "emitted", "merging", "plates"},
                                  clock : Clocks, row : Rows]]
    <3>1. sample \in [Samplers -> [pc : {"idle", "listed", "grabbed", "emitted", "merging", "plates"},
                                   clock : Clocks, row : Rows]]
      BY DEF TypeOK
    <3> HIDE DEF c
    <3>2. QED
      BY <2>a, <2>1, <3>1
  <2>3. taken' \in [epoch : Nat, pts : Nat, ts : Nat]
    <3>1. CASE pts = None
      BY <1>7, <3>1 DEF Grab, TypeOK
    <3>2. CASE pts # None
      <4>1. pts \in Nat /\ c.epoch \in Nat
        BY <3>2, <2>1, PtsTyped DEF Clocks
      <4>2. c.basePts \in Nat /\ c.baseTime \in Nat
        BY <3>2, <4>1, <2>1 DEF Advance, Clocks, None, TypeOK
      <4>3. EventTime(c, pts) \in Nat
        BY <4>1, <4>2 DEF EventTime
      <4>4. taken' = [epoch |-> c.epoch, pts |-> pts, ts |-> EventTime(c, pts)]
        BY <1>7, <3>2 DEF Grab
      <4>5. QED
        BY <4>1, <4>3, <4>4
    <3>3. QED
      BY <3>1, <3>2
  <2>4. QED
    BY <1>7, <2>2, <2>3 DEF Grab, TypeOK
<1>8. ASSUME NEW w \in Samplers, GrabFails(w) PROVE TypeOK'
  BY <1>8 DEF GrabFails, TypeOK, NoSample
<1>9. ASSUME NEW w \in Samplers, Detect(w) PROVE TypeOK'
  <2>1. sample' \in [Samplers -> [pc : {"idle", "listed", "grabbed", "emitted", "merging", "plates"},
                                  clock : Clocks, row : Rows]]
    BY <1>9 DEF Detect, TypeOK
  <2>2. w \in Workers /\ sample[w].clock.epoch \in Nat
    BY SamplersAssumption DEF TypeOK, Clocks
  <2>3. row' \in Rows
    BY <1>9 DEF Detect, TypeOK, Rows
  <2>4. tracker' \in [Workers -> Nat \cup {None}] /\ used' \subseteq Nat
    <3>1. CASE UNCHANGED <<tracker, used, row>>
      BY <3>1 DEF TypeOK
    <3>2. CASE tracker' = TrackerFor(w, sample[w].clock.epoch) /\ used' = used \cup {tracker'[w]}
      BY <3>2, <2>2 DEF TypeOK, TrackerFor
    <3>3. QED
      BY <1>9, <3>1, <3>2 DEF Detect
  <2>5. QED
    BY <1>9, <2>1, <2>3, <2>4 DEF Detect, TypeOK
<1>10. ASSUME NEW w \in Samplers, ReadFresh(w) PROVE TypeOK'
  <2>1. sample' \in [Samplers -> [pc : {"idle", "listed", "grabbed", "emitted", "merging", "plates"},
                                  clock : Clocks, row : Rows]]
    <3> DEFINE r == [sample[w] EXCEPT !.pc = "merging", !.row = row]
    <3>1. r \in [pc : {"idle", "listed", "grabbed", "emitted", "merging", "plates"},
                 clock : Clocks, row : Rows]
      <4>1. /\ row \in Rows
            /\ sample[w] \in [pc : {"idle", "listed", "grabbed", "emitted", "merging", "plates"},
                              clock : Clocks, row : Rows]
        BY DEF TypeOK
      <4>2. QED
        BY <4>1
    <3>2. sample' = [sample EXCEPT ![w] = r]
      BY <1>10 DEF ReadFresh
    <3> HIDE DEF r
    <3>3. QED
      BY <3>1, <3>2 DEF TypeOK
  <2>2. QED
    BY <1>10, <2>1 DEF ReadFresh, TypeOK
<1>11. ASSUME NEW w \in Samplers, SampleCommit(w) PROVE TypeOK'
  <2>1. row' \in Rows
    <3>1. sample[w].row \in Rows /\ row \in Rows
      BY DEF TypeOK
    <3>2. QED
      BY <1>11, <3>1, MergedTyped DEF SampleCommit, Changed, Rows
  <2>2. QED
    BY <1>11, <2>1 DEF SampleCommit, TypeOK, NoSample
<1>12. ASSUME NEW w \in Workers, Crash(w) PROVE TypeOK'
  <2>1. sample' \in [Samplers -> [pc : {"idle", "listed", "grabbed", "emitted", "merging", "plates"},
                                  clock : Clocks, row : Rows]]
    BY <1>12 DEF Crash, TypeOK, NoSample
  <2>2. sync' \in [Workers -> [pc : {"idle", "fetched", "selected"}, cat : Catalogue, row : Rows]]
    BY <1>12 DEF Crash, TypeOK, NoSync, Catalogue
  <2>3. tracker' \in [Workers -> Nat \cup {None}] /\ lost' \in BOOLEAN /\ crashes' \in 0..MaxCrashes
    BY <1>12 DEF Crash, TypeOK
  <2>4. QED
    BY <1>12, <2>1, <2>2, <2>3 DEF Crash, TypeOK
<1>13. ASSUME NEW w \in Samplers, Plates(w) PROVE TypeOK'
  <2>1. row' \in Rows
    BY <1>13 DEF Plates, TypeOK, Rows
  <2>2. QED
    BY <1>13, <2>1 DEF Plates, TypeOK, NoSample
<1>14. CASE UNCHANGED vars
  BY <1>14 DEF vars, TypeOK
<1>15. QED
  BY <1>1, <1>2, <1>3, <1>4, <1>5, <1>6, <1>7, <1>8, <1>9, <1>10, <1>11, <1>12, <1>13, <1>14
  DEF Next, SyncStep, SampleStep

(* A clock that is sound stays sound while the wall clock and the feed     *)
(* stand still, and when both move on.                                     *)
LEMMA SoundMoves ==
    ASSUME TypeOK, NEW c \in Clocks, ClockSound(c), Tick \/ UNCHANGED <<now, feed>>
    PROVE  ClockSound(c)'
<1> USE BoundsNat
<1>1. c.baseTime \in Nat /\ c.basePts \in Nat \cup {None} /\ now \in Nat /\ feed \in Nat \ {0}
  BY DEF Clocks, TypeOK
<1>2. CASE Tick
  BY <1>1, <1>2 DEF Tick, ClockSound
<1>3. CASE UNCHANGED <<now, feed>>
  BY <1>3 DEF ClockSound
<1>4. QED
  BY <1>2, <1>3

(* Every step keeps the clocks sound and no event in the future. *)
LEMMA StepSound == ASSUME IInv, [Next]_vars PROVE (ClocksSound /\ NeverFuture)'
<1> USE BoundsNat, NothingTyped
<1>0. TypeOK /\ ClocksSound /\ NeverFuture /\ now \in Nat /\ taken.ts \in Nat
  BY DEF IInv, TypeOK
<1>a. /\ row.clock \in Clocks
      /\ \A v \in Samplers : sample[v].clock \in Clocks /\ sample[v].row.clock \in Clocks
      /\ \A v \in Workers : sync[v].row.clock \in Clocks
  BY <1>0 DEF TypeOK, Rows
<1>b. ASSUME NEW c \in Clocks, Tick \/ UNCHANGED <<now, feed>>, ClockSound(c) PROVE ClockSound(c)'
  BY <1>0, <1>b, SoundMoves
<1>c. ClockSound(NoClock)' /\ ClockSound(NoSample.clock)' /\ ClockSound(NoSample.row.clock)'
      /\ ClockSound(NoSync.row.clock)' /\ ClockSound(NoRow.clock)'
  BY DEF ClockSound, NoSample, NoSync, NoRow
<1>1. CASE Tick
  <2>1. ClocksSound'
    BY <1>0, <1>1, <1>a, <1>b DEF ClocksSound, Tick, ClockSound
  <2>2. NeverFuture'
    BY <1>0, <1>1 DEF Tick, NeverFuture
  <2>3. QED
    BY <2>1, <2>2
<1>2. CASE CatalogueChanges \/ UNCHANGED vars
  BY <1>0, <1>2 DEF CatalogueChanges, ClocksSound, ClockSound, NeverFuture, vars
<1>3. ASSUME NEW w \in Workers, Fetch(w) PROVE (ClocksSound /\ NeverFuture)'
  BY <1>0, <1>3, <1>c DEF Fetch, ClocksSound, ClockSound, NeverFuture, TypeOK
<1>4. ASSUME NEW w \in Workers, Select(w) PROVE (ClocksSound /\ NeverFuture)'
  BY <1>0, <1>4 DEF Select, ClocksSound, ClockSound, NeverFuture, TypeOK
<1>5. ASSUME NEW w \in Workers, SyncCommit(w) PROVE (ClocksSound /\ NeverFuture)'
  <2>1. row'.clock \in {row.clock, sync[w].row.clock}
    BY <1>0, <1>5, SyncedTyped DEF SyncCommit
  <2>2. ClockSound(row.clock)'
    BY <1>0, <1>5, <2>1 DEF SyncCommit, ClocksSound, ClockSound
  <2>3. \A v \in Workers : sync'[v] = sync[v] \/ sync'[v] = NoSync
    BY <1>0, <1>5 DEF SyncCommit, TypeOK
  <2>4. \A v \in Workers : ClockSound(sync[v].row.clock)'
    BY <1>0, <1>5, <1>c, <2>3 DEF SyncCommit, ClocksSound, ClockSound
  <2>5. QED
    BY <1>0, <1>5, <2>2, <2>4 DEF SyncCommit, ClocksSound, ClockSound, NeverFuture
<1>6. ASSUME NEW w \in Samplers, List(w) PROVE (ClocksSound /\ NeverFuture)'
  <2>1. \A v \in Samplers :
          sample'[v] = sample[v] \/ sample'[v] = [pc |-> "listed", clock |-> row.clock, row |-> NoRow]
    BY <1>0, <1>6 DEF List, TypeOK
  <2>2. \A v \in Samplers : ClockSound(sample[v].clock)' /\ ClockSound(sample[v].row.clock)'
    BY <1>0, <1>6, <1>c, <2>1 DEF List, ClocksSound, ClockSound
  <2>3. QED
    BY <1>0, <1>6, <2>2 DEF List, ClocksSound, ClockSound, NeverFuture
<1>7. ASSUME NEW w \in Samplers, NEW pts \in Pts, Grab(w, pts) PROVE (ClocksSound /\ NeverFuture)'
  <2> DEFINE c == Advance(sample[w].clock, pts, now)
  <2>1. /\ ClockSound(c)
        /\ pts # None => EventTime(c, pts) \in Nat /\ EventTime(c, pts) <= now + Lag
    BY <1>0, <1>a, AdvanceSound DEF ClocksSound
  <2>2. \A v \in Samplers :
          /\ sample'[v].clock = sample[v].clock \/ sample'[v].clock = c
          /\ sample'[v].row = sample[v].row
    BY <1>0, <1>7 DEF Grab, TypeOK
  <2>3. \A v \in Samplers : ClockSound(sample[v].clock)' /\ ClockSound(sample[v].row.clock)'
    <3> HIDE DEF c
    <3>1. UNCHANGED <<now, feed>>
      BY <1>7 DEF Grab
    <3>2. QED
      BY <1>0, <2>1, <2>2, <3>1 DEF ClocksSound, ClockSound
  <2>4. NeverFuture'
    <3>1. CASE pts = None
      BY <1>0, <1>7, <3>1 DEF Grab, NeverFuture
    <3>2. CASE pts # None
      <4>1. taken'.ts = EventTime(c, pts) /\ now' = now
        BY <1>7, <3>2 DEF Grab
      <4>2. QED
        BY <2>1, <3>2, <4>1 DEF NeverFuture
    <3>3. QED
      BY <3>1, <3>2
  <2>5. QED
    BY <1>0, <1>7, <2>3, <2>4 DEF Grab, ClocksSound, ClockSound
<1>8. ASSUME NEW w \in Samplers, GrabFails(w) PROVE (ClocksSound /\ NeverFuture)'
  <2>1. \A v \in Samplers : sample'[v] = sample[v] \/ sample'[v] = NoSample
    BY <1>0, <1>8 DEF GrabFails, TypeOK
  <2>2. \A v \in Samplers : ClockSound(sample[v].clock)' /\ ClockSound(sample[v].row.clock)'
    BY <1>0, <1>8, <1>c, <2>1 DEF GrabFails, ClocksSound, ClockSound
  <2>3. QED
    BY <1>0, <1>8, <2>2 DEF GrabFails, ClocksSound, ClockSound, NeverFuture
<1>9. ASSUME NEW w \in Samplers, Detect(w) PROVE (ClocksSound /\ NeverFuture)'
  <2>1. \A v \in Samplers : sample'[v].clock = sample[v].clock /\ sample'[v].row = sample[v].row
    BY <1>0, <1>9 DEF Detect, TypeOK
  <2>2. row'.clock = row.clock
    BY <1>0, <1>9 DEF Detect, TypeOK, Rows
  <2>3. QED
    BY <1>0, <1>9, <2>1, <2>2 DEF Detect, ClocksSound, ClockSound, NeverFuture
<1>10. ASSUME NEW w \in Samplers, ReadFresh(w) PROVE (ClocksSound /\ NeverFuture)'
  <2>1. \A v \in Samplers :
          /\ sample'[v].clock = sample[v].clock
          /\ sample'[v].row = sample[v].row \/ sample'[v].row = row
    BY <1>0, <1>10 DEF ReadFresh, TypeOK
  <2>2. QED
    BY <1>0, <1>10, <2>1 DEF ReadFresh, ClocksSound, ClockSound, NeverFuture
<1>11. ASSUME NEW w \in Samplers, SampleCommit(w) PROVE (ClocksSound /\ NeverFuture)'
  <2>1. row'.clock \in {sample[w].clock, sample[w].row.clock}
    <3>1. row'.clock = Merged(sample[w])
      BY <1>0, <1>11 DEF SampleCommit, TypeOK, Rows
    <3>2. QED
      BY <1>0, <3>1, MergedTyped
  <2>2. ClockSound(row.clock)'
    BY <1>0, <1>11, <2>1 DEF SampleCommit, ClocksSound, ClockSound
  <2>3. \A v \in Samplers :
          sample'[v] = sample[v] \/ sample'[v] = [NoSample EXCEPT !.pc = "plates"]
    BY <1>0, <1>11 DEF SampleCommit, TypeOK
  <2>a. ClockSound([NoSample EXCEPT !.pc = "plates"].clock)'
        /\ ClockSound([NoSample EXCEPT !.pc = "plates"].row.clock)'
    BY <1>c DEF NoSample
  <2>4. \A v \in Samplers : ClockSound(sample[v].clock)' /\ ClockSound(sample[v].row.clock)'
    BY <1>0, <1>11, <2>a, <2>3 DEF SampleCommit, ClocksSound, ClockSound
  <2>5. QED
    BY <1>0, <1>11, <2>2, <2>4 DEF SampleCommit, ClocksSound, ClockSound, NeverFuture
<1>12. ASSUME NEW w \in Workers, Crash(w) PROVE (ClocksSound /\ NeverFuture)'
  <2>1. \A v \in Samplers : sample'[v] = sample[v] \/ sample'[v] = NoSample
    BY <1>12 DEF Crash
  <2>2. \A v \in Workers : sync'[v] = sync[v] \/ sync'[v] = NoSync
    BY <1>0, <1>12 DEF Crash, TypeOK
  <2>3. QED
    BY <1>0, <1>12, <1>c, <2>1, <2>2 DEF Crash, ClocksSound, ClockSound, NeverFuture
<1>13. ASSUME NEW w \in Samplers, Plates(w) PROVE (ClocksSound /\ NeverFuture)'
  <2>1. \A v \in Samplers : sample'[v] = sample[v] \/ sample'[v] = NoSample
    BY <1>0, <1>13 DEF Plates, TypeOK
  <2>2. row'.clock = row.clock
    BY <1>0, <1>13 DEF Plates, TypeOK, Rows
  <2>3. QED
    BY <1>0, <1>13, <1>c, <2>1, <2>2 DEF Plates, ClocksSound, ClockSound, NeverFuture
<1>14. QED
  BY <1>1, <1>2, <1>3, <1>4, <1>5, <1>6, <1>7, <1>8, <1>9, <1>10, <1>11, <1>12, <1>13
  DEF Next, SyncStep, SampleStep

LEMMA Inductive == IInv /\ [Next]_vars => IInv'
BY StepTyped, StepSound DEF IInv

(* Type correctness of every reachable state. *)
THEOREM TypeCorrect == Spec => []TypeOK
<1>1. IInv => TypeOK
  BY DEF IInv
<1>2. QED
  BY InitSound, Inductive, <1>1, PTL DEF Spec

(* No event is dated in the future, whatever replicas sample the camera    *)
(* and however their writes of the row interleave or die.                  *)
THEOREM EventsNeverInFuture == Spec => []NeverFuture
<1>1. IInv => NeverFuture
  BY DEF IInv
<1>2. QED
  BY InitSound, Inductive, <1>1, PTL DEF Spec

-----------------------------------------------------------------------------
(***************************************************************************)
(* One sampler: the clock it starts from is the clock of its last sample,  *)
(* while no clock was written back older and it did not die.  What the     *)
(* catalogue sync of any number of processes writes is then what the row   *)
(* has.                                                                    *)
(***************************************************************************)
OneSampler == \A v, w \in Samplers : v = w

(* A sampler holds a clock the row does not have yet.                      *)
Held(w) == sample[w].pc \in {"grabbed", "emitted", "merging"}
Current(w) == IF Held(w) THEN sample[w].clock ELSE row.clock

(* The clock is that of the last sample with a PTS, or there was none.     *)
Follows(c) ==
    IF c = NoClock THEN taken = [epoch |-> 0, pts |-> 0, ts |-> 0]
    ELSE /\ c.basePts # None /\ c.lastPts = taken.pts /\ c.epoch = taken.epoch
         /\ taken.ts = EventTime(c, taken.pts)

(* What a sampler starts from is what its last sample left, and a sample   *)
(* that read no PTS found no clock and leaves none.                        *)
Continues(w) ==
    /\ Follows(Current(w))
    /\ sample[w].pc = "listed" => sample[w].clock = row.clock
    /\ Held(w) /\ sample[w].clock = NoClock => row.clock = NoClock
    /\ sample[w].pc = "merging" /\ sample[w].clock = NoClock => sample[w].row.clock = NoClock

(* No tracker numbered anything in an epoch after that of the one kept,    *)
(* and the one kept is not ahead of the frames.                            *)
Numbered(w) == tracker[w] <= taken.epoch /\ \A e \in used : e <= tracker[w]

Unlost == lost \/ \A w \in Samplers : Continues(w) /\ Numbered(w)

LEMMA FollowsEpoch ==
    ASSUME NEW c \in Clocks, Follows(c) PROVE c.epoch = taken.epoch
BY DEF Follows, NoClock

(* The next PTS read leaves a clock that follows the sample, and the cut   *)
(* is made where it has to be.                                             *)
LEMMA AdvanceFollows ==
    ASSUME TypeOK, NEW c \in Clocks, Follows(c), NEW pts \in Nat
    PROVE  LET d == Advance(c, pts, now)
           IN  /\ d.basePts # None /\ d.lastPts = pts /\ d # NoClock
               /\ d.epoch >= taken.epoch
               /\ d.epoch = taken.epoch =>
                    pts >= taken.pts - 1 /\ EventTime(d, pts) >= taken.ts - 1
<1> DEFINE d == Advance(c, pts, now)
<1>1. /\ taken.epoch \in Nat /\ taken.pts \in Nat /\ taken.ts \in Nat /\ now \in Nat
      /\ c.epoch \in Nat /\ c.baseTime \in Nat
      /\ c.basePts \in Nat \cup {None} /\ c.lastPts \in Nat \cup {None}
  BY BoundsNat DEF TypeOK, Clocks
<1>2. pts # None
  BY DEF None
<1>3. /\ d.lastPts = pts
      /\ d.epoch = IF SceneCutAt(c, pts) THEN c.epoch + 1 ELSE c.epoch
      /\ d.basePts = IF SceneCutAt(c, pts) \/ c.basePts = None THEN pts ELSE c.basePts
      /\ d.baseTime = IF SceneCutAt(c, pts) \/ c.basePts = None THEN now ELSE c.baseTime
  BY <1>2 DEF Advance
<1>4. d.basePts # None /\ d # NoClock
  BY <1>1, <1>2, <1>3 DEF NoClock
<1>5. c.epoch = taken.epoch
  BY FollowsEpoch
<1>6. CASE SceneCutAt(c, pts)
  BY <1>1, <1>3, <1>4, <1>5, <1>6
<1>7. CASE ~SceneCutAt(c, pts) /\ c = NoClock
  <2>1. taken.pts = 0 /\ taken.ts = 0 /\ c.basePts = None
    BY <1>7 DEF Follows, NoClock
  <2>2. EventTime(d, pts) = now
    BY <1>1, <1>3, <2>1 DEF EventTime
  <2>3. QED
    BY <1>1, <1>3, <1>4, <1>5, <1>7, <2>1, <2>2
<1>8. CASE ~SceneCutAt(c, pts) /\ c # NoClock
  <2>1. /\ c.basePts \in Nat /\ c.lastPts = taken.pts /\ c.lastPts # None
        /\ taken.ts = EventTime(c, taken.pts)
    BY <1>1, <1>8 DEF Follows, None
  <2>2. pts >= taken.pts - 1
    BY <1>1, <1>8, <2>1 DEF SceneCutAt
  <2>3. EventTime(d, pts) = EventTime(c, pts)
    BY <1>1, <1>3, <1>8, <2>1 DEF EventTime, None
  <2>4. EventTime(c, pts) >= EventTime(c, taken.pts) - 1
    BY <1>1, <2>1, <2>2 DEF EventTime
  <2>5. QED
    BY <1>1, <1>3, <1>4, <1>5, <1>8, <2>1, <2>2, <2>3, <2>4
<1>9. QED
  BY <1>6, <1>7, <1>8

(* What the two action properties say of one step.                         *)
Cut == taken' = taken \/ lost \/ CutSound
NumberedAnew ==
    \A w \in Workers : ~lost /\ tracker'[w] # tracker[w] => tracker'[w] \notin used

LEMMA UnlostStep ==
    ASSUME OneSampler, TypeOK, TypeOK', Unlost, [Next]_vars
    PROVE  Unlost' /\ Cut /\ NumberedAnew
<1> USE BoundsNat
<1>0. CASE lost
  <2>1. lost'
    BY <1>0 DEF Next, SyncStep, SampleStep, vars, Tick, CatalogueChanges, Fetch, Select, SyncCommit,
                List, Grab, GrabFails, Detect, ReadFresh, SampleCommit, Plates, Crash
  <2>2. QED
    BY <1>0, <2>1 DEF Unlost, Cut, NumberedAnew
<1> SUFFICES ASSUME ~lost PROVE Unlost' /\ Cut /\ NumberedAnew
  BY <1>0
<1>a. \A w \in Samplers : Continues(w) /\ Numbered(w)
  BY DEF Unlost
<1>b. /\ row \in Rows /\ row.clock \in Clocks
      /\ \A w \in Samplers : sample[w].clock \in Clocks /\ sample[w].row.clock \in Clocks
      /\ \A w \in Samplers : w \in Workers /\ tracker[w] \in Nat \cup {None}
      /\ taken.epoch \in Nat /\ used \subseteq Nat
  BY SamplersAssumption DEF TypeOK, Rows
<1>c. ASSUME NEW w \in Samplers, sample'[w] = sample[w], row'.clock = row.clock, taken' = taken
      PROVE  Continues(w)'
  BY <1>a, <1>c DEF Continues, Current, Held, Follows, EventTime
<1>d. ASSUME UNCHANGED <<taken, tracker, used>>, \A w \in Samplers : Continues(w)'
      PROVE  Unlost' /\ Cut /\ NumberedAnew
  BY <1>a, <1>d DEF Unlost, Cut, NumberedAnew, Numbered
<1>1. CASE UNCHANGED <<row, sample, taken, tracker, used>>
  BY <1>1, <1>c, <1>d
<1>2. ASSUME NEW w \in Workers, SyncCommit(w) PROVE Unlost' /\ Cut /\ NumberedAnew
  <2>1. CASE row'.clock = row.clock
    BY <1>2, <1>c, <1>d, <2>1 DEF SyncCommit
  <2>2. CASE row'.clock # row.clock
    BY <1>2, <2>2 DEF SyncCommit, Unlost, Cut, NumberedAnew
  <2>3. QED
    BY <2>1, <2>2
<1>3. ASSUME NEW w \in Workers, Crash(w) PROVE Unlost' /\ Cut /\ NumberedAnew
  <2>1. Cut
    BY <1>3 DEF Crash, Cut
  <2>2. tracker' = [tracker EXCEPT ![w] = None] /\ None \notin Nat
    BY <1>3 DEF Crash, None
  <2>3. NumberedAnew
    BY <2>2, <1>b DEF NumberedAnew, TypeOK
  <2>4. CASE w \in Samplers
    BY <1>3, <2>1, <2>3, <2>4 DEF Crash, Unlost
  <2>5. CASE w \notin Samplers
    <3>1. \A v \in Samplers : v # w /\ sample'[v] = sample[v]
      BY <1>3, <2>5 DEF Crash
    <3>2. \A v \in Samplers : tracker'[v] = tracker[v]
      BY <2>2, <3>1, <1>b DEF TypeOK
    <3>3. \A v \in Samplers : Numbered(v)'
      BY <1>3, <1>a, <3>2 DEF Crash, Numbered
    <3>4. \A v \in Samplers : Continues(v)'
      BY <1>3, <1>c, <3>1 DEF Crash
    <3>5. QED
      BY <2>1, <2>3, <3>3, <3>4 DEF Unlost
  <2>6. QED
    BY <2>4, <2>5
<1>4. ASSUME NEW w \in Samplers, List(w) PROVE Unlost' /\ Cut /\ NumberedAnew
  <2>1. /\ sample'[w].pc = "listed" /\ sample'[w].clock = row.clock
        /\ sample[w].pc = "idle" /\ UNCHANGED <<row, taken, tracker, used>>
    BY <1>4 DEF List, TypeOK
  <2>2. Continues(w)'
    BY <1>a, <2>1 DEF Continues, Current, Held, Follows, EventTime
  <2>3. QED
    BY <1>d, <2>1, <2>2 DEF OneSampler
<1>5. ASSUME NEW w \in Samplers, GrabFails(w) PROVE Unlost' /\ Cut /\ NumberedAnew
  <2>1. /\ sample'[w].pc = "idle"
        /\ sample[w].pc = "listed" /\ UNCHANGED <<row, taken, tracker, used>>
    BY <1>5 DEF GrabFails, TypeOK, NoSample
  <2>2. Continues(w)'
    BY <1>a, <2>1 DEF Continues, Current, Held, Follows, EventTime
  <2>3. QED
    BY <1>d, <2>1, <2>2 DEF OneSampler
<1>6. ASSUME NEW w \in Samplers, NEW pts \in Pts, Grab(w, pts)
      PROVE  Unlost' /\ Cut /\ NumberedAnew
  <2> DEFINE d == Advance(sample[w].clock, pts, now)
  <2>1. /\ sample'[w].pc = "grabbed" /\ sample'[w].clock = d
        /\ sample[w].pc = "listed" /\ UNCHANGED <<row, tracker, used>>
    BY <1>6 DEF Grab, TypeOK
  <2>2. Follows(sample[w].clock) /\ sample[w].clock = row.clock
    BY <1>a, <2>1 DEF Continues, Current, Held
  <2>3. CASE pts = None
    <3>1. d = sample[w].clock /\ taken' = taken
      BY <1>6, <2>3 DEF Grab, Advance
    <3>2. Continues(w)'
      BY <2>1, <2>2, <3>1 DEF Continues, Current, Held, Follows, EventTime
    <3>3. QED
      BY <1>d, <2>1, <3>1, <3>2 DEF OneSampler
  <2>4. CASE pts # None
    <3>1. pts \in Nat
      BY <2>4, PtsTyped
    <3>2. taken' = [epoch |-> d.epoch, pts |-> pts, ts |-> EventTime(d, pts)]
      BY <1>6, <2>4 DEF Grab
    <3>3. /\ d.basePts # None /\ d.lastPts = pts /\ d # NoClock
          /\ d.epoch >= taken.epoch
          /\ d.epoch = taken.epoch =>
               pts >= taken.pts - 1 /\ EventTime(d, pts) >= taken.ts - 1
      BY <1>b, <2>2, <3>1, AdvanceFollows
    <3>4. d.epoch \in Nat
      <4>1. now \in Nat /\ pts \in Nat \cup {None}
        BY <3>1 DEF TypeOK
      <4>2. d \in Clocks
        BY <1>b, <4>1, AdvanceTyped
      <4>3. QED
        BY <4>2 DEF Clocks
    <3> HIDE DEF d
    <3>5. Cut
      BY <3>2, <3>3 DEF Cut, CutSound
    <3>6. Continues(w)'
      BY <2>1, <3>2, <3>3 DEF Continues, Current, Held, Follows, EventTime
    <3>7. Numbered(w)'
      BY <1>a, <1>b, <2>1, <3>2, <3>3, <3>4 DEF Numbered, None
    <3>8. NumberedAnew
      BY <2>1 DEF NumberedAnew
    <3>9. QED
      BY <3>5, <3>6, <3>7, <3>8 DEF Unlost, OneSampler
  <2>5. QED
    BY <2>3, <2>4
<1>7. ASSUME NEW w \in Samplers, Detect(w) PROVE Unlost' /\ Cut /\ NumberedAnew
  <2>1. /\ sample[w].pc = "grabbed" /\ sample'[w].pc = "emitted"
        /\ sample'[w].clock = sample[w].clock /\ taken' = taken
    BY <1>7 DEF Detect, TypeOK
  <2>2. row'.clock = row.clock
    BY <1>7, <1>b DEF Detect, Rows
  <2>3. Continues(w)'
    BY <1>a, <2>1, <2>2 DEF Continues, Current, Held, Follows, EventTime
  <2>4. CASE UNCHANGED <<tracker, used>>
    BY <1>d, <2>1, <2>3, <2>4 DEF OneSampler
  <2>5. CASE /\ tracker' = TrackerFor(w, sample[w].clock.epoch)
             /\ used' = used \cup {tracker'[w]}
    <3>1. /\ tracker' = [tracker EXCEPT ![w] = sample[w].clock.epoch]
          /\ tracker'[w] = sample[w].clock.epoch
      BY <1>b, <2>5 DEF TrackerFor, TypeOK
    <3>2. sample[w].clock.epoch = taken.epoch
      BY <1>a, <1>b, <2>1, FollowsEpoch DEF Continues, Current, Held
    <3>3. tracker[w] <= tracker'[w] /\ \A e \in used : e <= tracker[w]
      BY <1>a, <3>1, <3>2 DEF Numbered
    <3>4. \A e \in used' : e <= tracker'[w]
      <4>1. /\ tracker'[w] \in Nat /\ tracker[w] \in Nat \cup {None}
            /\ used' = used \cup {tracker'[w]} /\ used \subseteq Nat
        BY <1>b, <2>5, <3>1, <3>2
      <4>2. ASSUME NEW e \in used PROVE e <= tracker'[w]
        <5>1. e \in Int /\ tracker[w] \in Int /\ tracker'[w] \in Int
          BY <4>1 DEF None
        <5>2. e <= tracker[w] /\ tracker[w] <= tracker'[w]
          BY <3>3
        <5>3. QED
          BY <5>1, <5>2
      <4>3. QED
        BY <4>1, <4>2
    <3>5. Numbered(w)'
      BY <1>b, <2>1, <3>1, <3>2, <3>4 DEF Numbered
    <3>6. \A v \in Workers : tracker'[v] # tracker[v] => v = w
      BY <3>1 DEF TypeOK
    <3>7. tracker'[w] # tracker[w] => tracker'[w] \notin used
      BY <1>b, <3>1, <3>2, <3>3 DEF None
    <3>8. QED
      BY <2>1, <2>3, <3>5, <3>6, <3>7 DEF Unlost, Cut, NumberedAnew, OneSampler
  <2>6. QED
    BY <1>7, <2>4, <2>5 DEF Detect
<1>8. ASSUME NEW w \in Samplers, ReadFresh(w) PROVE Unlost' /\ Cut /\ NumberedAnew
  <2>1. /\ sample[w].pc = "emitted" /\ sample'[w].pc = "merging"
        /\ sample'[w].clock = sample[w].clock /\ sample'[w].row = row
        /\ UNCHANGED <<row, taken, tracker, used>>
    BY <1>8 DEF ReadFresh, TypeOK
  <2>2. Continues(w)'
    BY <1>a, <2>1 DEF Continues, Current, Held, Follows, EventTime
  <2>3. QED
    BY <1>d, <2>1, <2>2 DEF OneSampler
<1>9. ASSUME NEW w \in Samplers, SampleCommit(w) PROVE Unlost' /\ Cut /\ NumberedAnew
  <2>1. /\ sample[w].pc = "merging" /\ sample'[w].pc = "plates"
        /\ row'.clock = Merged(sample[w]) /\ UNCHANGED <<taken, tracker, used>>
    BY <1>9, <1>b DEF SampleCommit, TypeOK, NoSample, Rows
  <2>2. Merged(sample[w]) = sample[w].clock
    BY <1>a, <2>1 DEF Merged, Continues
  <2>3. Continues(w)'
    BY <1>a, <2>1, <2>2 DEF Continues, Current, Held, Follows, EventTime
  <2>4. QED
    BY <1>d, <2>1, <2>3 DEF OneSampler
<1>10. ASSUME NEW w \in Samplers, Plates(w) PROVE Unlost' /\ Cut /\ NumberedAnew
  <2>1. /\ sample[w].pc = "plates" /\ sample'[w].pc = "idle"
        /\ UNCHANGED <<taken, tracker, used>>
    BY <1>10 DEF Plates, TypeOK, NoSample
  <2>2. row'.clock = row.clock
    BY <1>10, <1>b DEF Plates, Rows
  <2>3. Continues(w)'
    BY <1>a, <2>1, <2>2 DEF Continues, Current, Held, Follows, EventTime
  <2>4. QED
    BY <1>d, <2>1, <2>3 DEF OneSampler
<1>11. QED
  BY <1>1, <1>2, <1>3, <1>4, <1>5, <1>6, <1>7, <1>8, <1>9, <1>10
  DEF Next, SyncStep, SampleStep, vars, Tick, CatalogueChanges, Fetch, Select

LEMMA UnlostInvariant ==
    ASSUME OneSampler
    PROVE  Spec => [](TypeOK /\ Unlost) /\ [][Cut /\ NumberedAnew]_vars
<1>1. Init => Unlost
  <2> SUFFICES ASSUME Init, NEW w \in Samplers PROVE Continues(w) /\ Numbered(w)
    BY DEF Unlost
  <2>1. w \in Workers
    BY SamplersAssumption
  <2>2. QED
    BY <2>1 DEF Init, Continues, Current, Held, Follows, NoSample, NoRow, Numbered, None
<1>2. Init => TypeOK
  BY InitSound DEF IInv
<1>3. TypeOK /\ Unlost /\ [Next]_vars => TypeOK' /\ Unlost' /\ [Cut /\ NumberedAnew]_vars
  BY StepTyped, UnlostStep
<1>4. QED
  BY <1>1, <1>2, <1>3, PTL DEF Spec

(* With one sampling process, however many others sync the catalogue: a    *)
(* sample whose PTS falls back starts a later epoch, and none returns to   *)
(* an earlier one or goes back in time, as long as no clock was written    *)
(* back older and the sampler did not die.                                 *)
THEOREM CutUnlessLostHolds == ASSUME OneSampler PROVE Spec => CutUnlessLost
<1>1. [Cut /\ NumberedAnew]_vars => [lost \/ CutSound]_taken
  BY DEF Cut, vars
<1>2. QED
  BY <1>1, UnlostInvariant, PTL DEF CutUnlessLost

(* Under the same conditions a tracker that is made anew numbers its       *)
(* tracks in an epoch no tracker has numbered any in.                      *)
THEOREM EpochHasOneTrackerHolds == ASSUME OneSampler PROVE Spec => EpochHasOneTracker
<1> DEFINE Anew == \A w \in Workers :
                      ~lost /\ tracker'[w] # tracker[w] => tracker'[w] \notin used
<1>1. [Cut /\ NumberedAnew]_vars => [Anew]_tracker
  BY DEF NumberedAnew, vars
<1>2. QED
  BY <1>1, UnlostInvariant, PTL DEF EpochHasOneTracker

-----------------------------------------------------------------------------
(***************************************************************************)
(* FrameGrab: NoOrphanPublisher, for every set of cameras and every bound. *)
(* It is inductive by itself; the proof is one step per place that starts, *)
(* stops or loses a publisher, and a frame lemma for the others.           *)
(***************************************************************************)
LEMMA PublisherFrame ==
    ASSUME NoOrphanPublisher, UNCHANGED publisher
    PROVE  NoOrphanPublisher'
BY DEF NoOrphanPublisher, publisher

LEMMA PublisherInductive == NoOrphanPublisher /\ [GrabNext]_grabVars => NoOrphanPublisher'
<1> SUFFICES ASSUME NoOrphanPublisher, [GrabNext]_grabVars PROVE NoOrphanPublisher'
  OBVIOUS
<1>1. Stopped = {}
  BY DEF NoOrphanPublisher, Stopped
<1>2. CASE StartPublisher
  BY <1>1, <1>2 DEF StartPublisher, NoOrphanPublisher
<1>3. CASE NoPlaylist \/ PublisherNotReady
  BY <1>1, <1>3 DEF NoPlaylist, PublisherNotReady, NoOrphanPublisher
<1>4. CASE PublisherExits \/ WorkerRestarts
  BY <1>4 DEF PublisherExits, WorkerRestarts, NoOrphanPublisher
<1>5. ASSUME NEW c \in Cams, Pick(c) PROVE NoOrphanPublisher'
  BY <1>5, PublisherFrame DEF Pick
<1>6. CASE KeepPublisher \/ PublisherReady \/ Burst \/ SampleLocal \/ TryRtsp \/ SkipRtsp
           \/ SampleHls \/ HlsRefused \/ HlsRejected
  <2>1. UNCHANGED publisher
    BY <1>6 DEF KeepPublisher, PublisherReady, Burst, SampleLocal, TryRtsp, SkipRtsp,
                SampleHls, HlsRefused, HlsRejected
  <2>2. QED
    BY <2>1, PublisherFrame
<1>7. CASE HlsChanges \/ BackoffEnds \/ ThreadReturns
  BY <1>7, PublisherFrame DEF HlsChanges, BackoffEnds, ThreadReturns
<1>8. CASE UNCHANGED grabVars
  BY <1>8, PublisherFrame DEF grabVars
<1>9. QED
  BY <1>2, <1>3, <1>4, <1>5, <1>6, <1>7, <1>8 DEF GrabNext, Sampling

(* No publisher process ever outlives the worker's knowledge of it. *)
THEOREM NoPublisherIsOrphaned == GrabSpec => []NoOrphanPublisher
<1>1. GrabInit => NoOrphanPublisher
  BY DEF GrabInit, NoOrphanPublisher
<1>2. QED
  BY <1>1, PublisherInductive, PTL DEF GrabSpec

-----------------------------------------------------------------------------
(***************************************************************************)
(* HlsFallback.  While nothing was refused, the HLS URL is among those     *)
(* left, so the loop of sample_camera does not run out of them.  It does   *)
(* need the back-off of :8554 to be computed: FloatLimit failures in a row *)
(* raise, and the sample ends without having tried HLS.                    *)
(***************************************************************************)
BackoffComputes == MaxRtspFails <= FloatLimit

Left(us) == us \in Seq(Kinds) /\ us # <<>> /\ \E i \in 1..Len(us) : us[i] = "hls"

HlsLeft ==
    /\ urls \in Seq(Kinds)
    /\ rtspFails \in 0..MaxRtspFails
    /\ pc \in Steps /\ (~running => pc = "idle")
    /\ pc # "idle" => urls # <<>>
    /\ pc # "idle" /\ cam \in HasHls /\ ~hlsFailed => Left(urls)

(* What follows a URL that is not HLS still has it.                        *)
LEMMA TailKeepsHls ==
    ASSUME NEW us, Left(us), Head(us) # "hls"
    PROVE  Len(us) # 1 /\ Left(Tail(us))
<1>1. us \in Seq(Kinds) /\ us # <<>> /\ Len(us) \in Nat /\ Head(us) = us[1]
  BY LenProperties DEF Left
<1>2. PICK i \in 1..Len(us) : us[i] = "hls"
  BY DEF Left
<1>3. /\ Tail(us) \in Seq(Kinds) /\ Len(Tail(us)) = Len(us) - 1
      /\ \A k \in 1..Len(Tail(us)) : Tail(us)[k] = us[k + 1]
  BY <1>1, HeadTailProperties
<1>4. i # 1
  BY <1>1, <1>2
<1>5. i - 1 \in 1..Len(Tail(us)) /\ (i - 1) + 1 = i
  BY <1>1, <1>2, <1>3, <1>4
<1>6. Tail(us)[i - 1] = "hls"
  BY <1>2, <1>3, <1>5
<1>7. Tail(us) # <<>>
  BY <1>3, <1>5, EmptySeq
<1>8. Len(us) # 1
  BY <1>1, <1>2, <1>4
<1>9. Left(Tail(us))
  BY <1>3, <1>5, <1>6, <1>7 DEF Left
<1>10. QED
  BY <1>8, <1>9

(* So does a list of URLs with others put in front.                        *)
LEMMA ConcatKeepsHls ==
    ASSUME NEW front \in Seq(Kinds), NEW us, Left(us)
    PROVE  Left(front \o us)
<1>1. us \in Seq(Kinds) /\ Len(us) \in Nat /\ Len(front) \in Nat
  BY LenProperties DEF Left
<1>2. PICK i \in 1..Len(us) : us[i] = "hls"
  BY DEF Left
<1>3. /\ front \o us \in Seq(Kinds) /\ Len(front \o us) = Len(front) + Len(us)
      /\ \A k \in 1..(Len(front) + Len(us)) :
           (front \o us)[k] = IF k <= Len(front) THEN front[k] ELSE us[k - Len(front)]
  BY <1>1, ConcatProperties
<1> DEFINE k == Len(front) + i
<1>4. k \in 1..(Len(front) + Len(us)) /\ ~(k <= Len(front)) /\ k - Len(front) = i
  BY <1>1, <1>2
<1>5. (front \o us)[k] = "hls"
  BY <1>2, <1>3, <1>4
<1> HIDE DEF k
<1>6. front \o us # <<>>
  BY <1>1, <1>3, <1>4, EmptySeq
<1>7. QED
  BY <1>3, <1>4, <1>5, <1>6 DEF Left

LEMMA HlsAlone == Left(<<"hls">>) /\ <<"hls">> \in Seq(Kinds)
BY DEF Left, Kinds

(* Leaving RTSP out, and putting the local restream in front, keep HLS.    *)
LEMMA FiltersKeepHls ==
    ASSUME NEW us \in Seq(Kinds)
    PROVE  /\ WithLocal(us) \in Seq(Kinds) /\ WithoutLocal(us) \in Seq(Kinds)
           /\ WithLocal(us) # <<>> /\ (us # <<>> => WithoutLocal(us) # <<>>)
           /\ Left(us) => Left(WithLocal(us)) /\ Left(WithoutLocal(us))
<1>1. WithoutRtsp(us) \in Seq(Kinds)
  BY HeadTailProperties DEF WithoutRtsp
<1>2. <<"local">> \in Seq(Kinds) /\ Len(<<"local">>) = 1
  BY DEF Kinds
<1>3. WithLocal(us) \in Seq(Kinds) /\ WithLocal(us) # <<>>
  <2>1. WithLocal(us) \in Seq(Kinds)
    BY <1>1, <1>2, ConcatProperties DEF WithLocal
  <2>2. Len(WithLocal(us)) = 1 + Len(WithoutRtsp(us)) /\ Len(WithoutRtsp(us)) \in Nat
    BY <1>1, <1>2, ConcatProperties, LenProperties DEF WithLocal
  <2>3. Len(WithLocal(us)) # 0
    BY <2>2
  <2>4. QED
    BY <2>1, <2>3, EmptySeq
<1>4. WithoutLocal(us) \in Seq(Kinds) /\ (us # <<>> => WithoutLocal(us) # <<>>)
  BY <1>1 DEF WithoutLocal
<1>5. ASSUME Left(us) PROVE Left(WithoutRtsp(us))
  BY <1>5, TailKeepsHls DEF WithoutRtsp
<1>6. ASSUME Left(us) PROVE Left(WithLocal(us))
  BY <1>2, <1>5, <1>6, ConcatKeepsHls DEF WithLocal
<1>7. ASSUME Left(us) PROVE Left(WithoutLocal(us))
  BY <1>5, <1>7 DEF WithoutLocal
<1>8. QED
  BY <1>3, <1>4, <1>6, <1>7

LEMMA UrlsTyped == \A c \in Cams :
    InferenceUrls(c) \in Seq(Kinds) /\ (c \in HasHls => Left(InferenceUrls(c)))
<1> SUFFICES ASSUME NEW c \in Cams
             PROVE  InferenceUrls(c) \in Seq(Kinds) /\ (c \in HasHls => Left(InferenceUrls(c)))
  OBVIOUS
<1> DEFINE front == IF c \in HasRtsp /\ ~backedOff THEN <<"rtsp">> ELSE <<>>
           back  == IF c \in HasHls THEN <<"hls">> ELSE <<>>
<1>1. front \in Seq(Kinds)
  <2>1. <<"rtsp">> \in Seq(Kinds)
    BY DEF Kinds
  <2>2. <<>> \in Seq(Kinds)
    OBVIOUS
  <2>3. QED
    BY <2>1, <2>2
<1>2. back \in Seq(Kinds) /\ (c \in HasHls => Left(back))
  BY HlsAlone
<1>3. InferenceUrls(c) = front \o back
  BY DEF InferenceUrls
<1> HIDE DEF front, back
<1>4. InferenceUrls(c) \in Seq(Kinds)
  BY <1>1, <1>2, <1>3, ConcatProperties
<1>5. c \in HasHls => Left(InferenceUrls(c))
  BY <1>1, <1>2, <1>3, ConcatKeepsHls
<1>6. QED
  BY <1>4, <1>5

(* What one step must not do.                                              *)
Fallback == pc # "idle" /\ pc' = "idle" /\ ~got' /\ cam \in HasHls => hlsFailed'

(* A sample that moves on to a step with the URLs us, or that ends.        *)
LEMMA MovesOn ==
    ASSUME NEW us \in Seq(Kinds), NEW step \in Steps \ {"idle"},
           HlsLeft, rtspFails' \in 0..MaxRtspFails,
           us # <<>>, cam \in HasHls /\ ~hlsFailed' => Left(us), running,
           GoTo(step, us)
    PROVE  HlsLeft' /\ Fallback
BY DEF GoTo, HlsLeft, Fallback

LEMMA Ends ==
    ASSUME NEW frame \in BOOLEAN, HlsLeft, rtspFails' \in 0..MaxRtspFails,
           frame \/ cam \notin HasHls \/ hlsFailed', Ended(frame)
    PROVE  HlsLeft' /\ Fallback
BY DEF Ended, HlsLeft, Fallback, Steps

(* A miss on a URL that is not HLS, or after a refusal.                    *)
LEMMA MissedMovesOn ==
    ASSUME HlsLeft, rtspFails' \in 0..MaxRtspFails, pc \in {"first", "second"}, running,
           hlsFailed' \/ (hlsFailed' = hlsFailed /\ Head(urls) # "hls"),
           Missed
    PROVE  HlsLeft' /\ Fallback
<1>1. urls \in Seq(Kinds) /\ urls # <<>> /\ Tail(urls) \in Seq(Kinds)
      /\ (Len(urls) # 1 => Tail(urls) # <<>>)
  <2>1. urls \in Seq(Kinds) /\ urls # <<>>
    BY DEF HlsLeft
  <2>2. Tail(urls) \in Seq(Kinds) /\ Len(Tail(urls)) = Len(urls) - 1 /\ Len(urls) \in Nat
    BY <2>1, HeadTailProperties, LenProperties
  <2>3. Len(urls) # 1 => Len(Tail(urls)) # 0
    BY <2>2
  <2>4. QED
    BY <2>1, <2>2, <2>3, EmptySeq
<1>2. "first" \in Steps \ {"idle"} /\ "second" \in Steps \ {"idle"} /\ "burst" \in Steps \ {"idle"}
  BY DEF Steps
<1>3. cam \in HasHls /\ ~hlsFailed' =>
        Left(urls) /\ Len(urls) # 1 /\ Left(Tail(urls))
  BY TailKeepsHls DEF HlsLeft
<1>4. CASE pc = "first"
  <2>1. GoTo("second", urls)
    BY <1>4 DEF Missed
  <2>2. QED
    BY <1>1, <1>2, <1>3, <2>1, MovesOn
<1>5. CASE pc # "first" /\ Len(urls) = 1
  <2>1. Ended(FALSE)
    BY <1>5 DEF Missed, NextUrl
  <2>2. QED
    BY <1>3, <1>5, <2>1, Ends
<1>6. CASE pc # "first" /\ Len(urls) # 1
  <2>1. GoTo("burst", Tail(urls))
    BY <1>6 DEF Missed, NextUrl
  <2>2. Tail(urls) \in Seq(Kinds) /\ Tail(urls) # <<>> /\ "burst" \in Steps \ {"idle"}
    BY <1>1, <1>2, <1>6
  <2>3. cam \in HasHls /\ ~hlsFailed' => Left(Tail(urls))
    BY <1>3
  <2> HIDE DEF Left
  <2>4. QED
    BY <2>1, <2>2, <2>3, MovesOn
<1>7. QED
  BY <1>4, <1>5, <1>6

(* rtspFails moves by one at most, and only in TryRtsp.                    *)
LEMMA HlsLeftStep ==
    ASSUME BackoffComputes, HlsLeft, [GrabNext]_grabVars PROVE HlsLeft' /\ Fallback
<1>r. UNCHANGED rtspFails => rtspFails' \in 0..MaxRtspFails
  BY DEF HlsLeft
<1>s. {"waiting", "burst", "first", "second"} \subseteq Steps \ {"idle"}
  BY DEF Steps
<1>u. urls \in Seq(Kinds) /\ (pc # "idle" => running /\ urls # <<>>)
  BY DEF HlsLeft
<1>1. ASSUME NEW c \in Cams, Pick(c) PROVE HlsLeft' /\ Fallback
  <2>1. Fallback
    BY <1>1 DEF Pick, Fallback
  <2>2. CASE InferenceUrls(c) = <<>> /\ ~UsesPublisher(c)
    <3>1. UNCHANGED <<pc, urls, rtspFails>> /\ pc = "idle"
      BY <1>1, <2>2 DEF Pick, rtsp
    <3>2. /\ urls' \in Seq(Kinds) /\ rtspFails' \in 0..MaxRtspFails
          /\ pc' \in Steps /\ pc' = "idle"
      BY <3>1 DEF HlsLeft
    <3>3. QED
      BY <2>1, <3>2 DEF HlsLeft
  <2>3. CASE ~(InferenceUrls(c) = <<>> /\ ~UsesPublisher(c))
    <3>1. /\ urls' = InferenceUrls(c) /\ cam' = c /\ running' /\ pc' \in Steps
          /\ rtspFails' = rtspFails
      BY <1>1, <2>3 DEF Pick, rtsp, Steps
    <3>2. urls' \in Seq(Kinds) /\ (c \in HasHls => Left(urls'))
      BY <3>1, UrlsTyped
    <3>3. urls' # <<>>
      BY <2>3, <3>1, <3>2 DEF UsesPublisher, Left
    <3>4. (c \in HasHls => Left(urls)')
      BY <3>2 DEF Left
    <3>5. QED
      BY <2>1, <3>1, <3>2, <3>3, <3>4 DEF HlsLeft
  <2>4. QED
    BY <2>1, <2>2, <2>3
<1>2. CASE KeepPublisher \/ PublisherReady
  <2>1. /\ GoTo("burst", WithLocal(urls)) /\ pc # "idle"
        /\ UNCHANGED <<hlsFailed, rtspFails>>
    BY <1>2 DEF KeepPublisher, PublisherReady, rtsp
  <2>2. cam \in HasHls /\ ~hlsFailed' => Left(WithLocal(urls))
    BY <2>1, FiltersKeepHls DEF HlsLeft
  <2>3. QED
    BY <1>r, <1>s, <1>u, <2>1, <2>2, FiltersKeepHls, MovesOn
<1>3. CASE StartPublisher
  <2>1. /\ GoTo("waiting", urls) /\ pc # "idle"
        /\ UNCHANGED <<hlsFailed, rtspFails>>
    BY <1>3 DEF StartPublisher, rtsp
  <2>2. cam \in HasHls /\ ~hlsFailed' => Left(urls)
    BY <2>1 DEF HlsLeft
  <2>3. QED
    BY <1>r, <1>s, <1>u, <2>1, <2>2, MovesOn
<1>4. CASE NoPlaylist
  <2>1. pc # "idle" /\ hlsFailed' /\ rtspFails' = rtspFails
    BY <1>4 DEF NoPlaylist, rtsp
  <2>2. CASE GoTo("burst", WithoutLocal(urls))
    BY <1>r, <1>s, <1>u, <2>1, <2>2, FiltersKeepHls, MovesOn
  <2>3. CASE Ended(FALSE)
    BY <1>r, <2>1, <2>3, Ends
  <2>4. QED
    BY <1>4, <2>2, <2>3 DEF NoPlaylist
<1>5. CASE PublisherNotReady
  <2>1. /\ GoTo("burst", WithoutLocal(urls)) /\ pc # "idle"
        /\ UNCHANGED <<hlsFailed, rtspFails>>
    BY <1>5 DEF PublisherNotReady, rtsp
  <2>2. cam \in HasHls /\ ~hlsFailed' => Left(WithoutLocal(urls))
    BY <2>1, FiltersKeepHls DEF HlsLeft
  <2>3. QED
    BY <1>r, <1>s, <1>u, <2>1, <2>2, FiltersKeepHls, MovesOn
<1>6. CASE Burst
  <2>1. pc # "idle" /\ UNCHANGED <<hlsFailed, rtspFails>>
    BY <1>6 DEF Burst, rtsp
  <2>2. CASE Ended(TRUE)
    BY <1>r, <2>1, <2>2, Ends
  <2>3. CASE GoTo("first", urls)
    <3>1. cam \in HasHls /\ ~hlsFailed' => Left(urls)
      BY <2>1 DEF HlsLeft
    <3>2. QED
      BY <1>r, <1>s, <1>u, <2>1, <2>3, <3>1, MovesOn
  <2>4. QED
    BY <1>6, <2>2, <2>3 DEF Burst
<1>7. CASE SampleLocal \/ SkipRtsp
  <2>1. /\ pc \in {"first", "second"} /\ Head(urls) # "hls"
        /\ UNCHANGED <<hlsFailed, rtspFails>> /\ (Ended(TRUE) \/ Missed)
    BY <1>7 DEF SampleLocal, SkipRtsp, rtsp
  <2>2. CASE Ended(TRUE)
    BY <1>r, <2>1, <2>2, Ends
  <2>3. CASE Missed
    BY <1>r, <1>u, <2>1, <2>3, MissedMovesOn
  <2>4. QED
    BY <2>1, <2>2, <2>3
<1>8. CASE TryRtsp
  <2>1. /\ pc \in {"first", "second"} /\ Head(urls) # "hls" /\ hlsFailed' = hlsFailed
        /\ \/ MarkRtspSuccess /\ Ended(TRUE)
           \/ MarkRtspFailure
           \/ Missed /\ UNCHANGED rtspFails
    BY <1>8 DEF TryRtsp, rtsp
  <2>2. CASE MarkRtspSuccess /\ Ended(TRUE)
    <3>1. rtspFails' \in 0..MaxRtspFails
      BY <2>2, NatsAssumption DEF MarkRtspSuccess
    <3>2. QED
      BY <2>2, <3>1, Ends
  <2>3. CASE MarkRtspFailure
    <3>1. rtspFails' \in 0..MaxRtspFails /\ rtspFails < FloatLimit
      BY <2>3, NatsAssumption DEF MarkRtspFailure, BackoffComputes, HlsLeft
    <3>2. Missed
      BY <2>3, <3>1 DEF MarkRtspFailure
    <3>3. QED
      BY <1>u, <2>1, <3>1, <3>2, MissedMovesOn
  <2>4. CASE Missed /\ UNCHANGED rtspFails
    BY <1>r, <1>u, <2>1, <2>4, MissedMovesOn
  <2>5. QED
    BY <2>1, <2>2, <2>3, <2>4
<1>9. CASE SampleHls
  <2>1. Ended(TRUE) /\ UNCHANGED <<hlsFailed, rtspFails>>
    BY <1>9 DEF SampleHls, rtsp
  <2>2. QED
    BY <1>r, <2>1, Ends
<1>10. CASE HlsRefused \/ HlsRejected
  <2>1. /\ pc \in {"first", "second"} /\ hlsFailed' /\ UNCHANGED rtspFails
        /\ \/ Missed
           \/ Ended(FALSE)
           \/ UNCHANGED <<pc, cam, urls, got, streak, running>>
    BY <1>10 DEF HlsRefused, HlsRejected, rtsp
  <2>2. CASE Missed
    BY <1>r, <1>u, <2>1, <2>2, MissedMovesOn
  <2>3. CASE Ended(FALSE)
    BY <1>r, <2>1, <2>3, Ends
  <2>4. CASE UNCHANGED <<pc, cam, urls, got, streak, running>>
    BY <2>1, <2>4 DEF HlsLeft, Fallback
  <2>5. QED
    BY <2>1, <2>2, <2>3, <2>4
<1>11. CASE HlsChanges \/ BackoffEnds \/ PublisherExits \/ ThreadReturns \/ UNCHANGED grabVars
  <2>1. UNCHANGED <<loop, rtspFails>>
    BY <1>11 DEF HlsChanges, BackoffEnds, PublisherExits, ThreadReturns, grabVars, rtsp
  <2>2. QED
    BY <2>1 DEF loop, HlsLeft, Fallback, Left
<1>12. CASE WorkerRestarts
  BY <1>12, NatsAssumption DEF WorkerRestarts, HlsLeft, Fallback, Steps, Kinds
<1>13. QED
  BY <1>1, <1>2, <1>3, <1>4, <1>5, <1>6, <1>7, <1>8, <1>9, <1>10, <1>11, <1>12 DEF GrabNext, Sampling

(* Whatever became of :8554, the publisher and OpenCV, a sample of a       *)
(* camera with an HLS URL does not end without a frame before HLS refused  *)
(* it something.                                                           *)
THEOREM HlsFallbackHolds == ASSUME BackoffComputes PROVE GrabSpec => HlsFallback
<1>1. GrabInit => HlsLeft
  BY NatsAssumption DEF GrabInit, HlsLeft, Steps
<1>2. HlsLeft /\ [GrabNext]_grabVars => HlsLeft' /\ Fallback
  BY HlsLeftStep
<1>3. Fallback => [pc # "idle" /\ pc' = "idle" /\ ~got' /\ cam \in HasHls => hlsFailed']_grabVars
  BY DEF Fallback
<1>4. QED
  BY <1>1, <1>2, <1>3, PTL DEF GrabSpec, HlsFallback
=============================================================================
