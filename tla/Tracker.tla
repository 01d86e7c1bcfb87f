-------------------------------- MODULE Tracker --------------------------------
(***************************************************************************)
(* The tracker of one camera: CameraTracker.update matches the boxes of a  *)
(* frame with the tracks of the frames before, best overlap first, with a  *)
(* high and then a low threshold; tracker_for starts again when the stream *)
(* epoch changes; analyze_scene reads crowding, stopped and against-flow   *)
(* vehicles from the result.  Boxes are intervals of one width on a line,  *)
(* their overlap is counted in hundredths.                                 *)
(***************************************************************************)
EXTENDS Integers, Sequences, FiniteSets

CONSTANTS
    Places,      \* left ends of boxes
    Footpath,    \* those where persons are; the other boxes are vehicles
    Width,       \* of every box
    MaxBoxes,    \* bound: boxes of a frame
    MaxMisses,   \* frames a track outlives unseen (15 in the code)
    StopHits,    \* frames after which a vehicle may have stopped (3 in the code)
    Moving,      \* dx of a vehicle that counts for the flow (8 in the code)
    Against,     \* dx of a vehicle that may go against it (14 in the code)
    Flow,        \* vehicles that make a flow (3 in the code)
    Crowd,       \* detections, persons, persons among vehicles, vehicles of a
                 \* crowd (12, 5, 3, 4 in the code)
    MaxId,       \* bound: tracks of an epoch
    MaxEpoch     \* bound: epochs

ASSUME PlacesAssumption ==
    /\ Places \subseteq Int /\ Footpath \subseteq Places
    /\ Width \in Nat \ {0}
ASSUME LimitsAssumption ==
    /\ {MaxBoxes, MaxMisses, MaxId, MaxEpoch, Flow} \subseteq Nat
    /\ {Moving, Against} \subseteq Nat \ {0}
    /\ StopHits \in Nat \ {0, 1}

VARIABLES
    epoch,      \* of the stream
    key,        \* epoch of the tracker that is kept, none before the first frame
    tracks,     \* its tracks
    next,       \* next_id
    boxes,      \* the last frame
    marks,      \* what the last frame's detections were given
    scenes,     \* kinds of scene events the last frame raised
    age         \* history: frames of this epoch, up to StopHits

trackerVars == <<epoch, key, tracks, next, boxes, marks, scenes, age>>

NoEpoch == -1
High == 50
Low == 20
Still == 72
Tracks == [id : 1..MaxId, at : Places, misses : 0..MaxMisses, hits : 1..StopHits]

TrackerTypeOK ==
    /\ epoch \in 0..MaxEpoch /\ key \in {NoEpoch} \cup 0..MaxEpoch
    /\ tracks \subseteq Tracks /\ next \in 1..(MaxId + 1)
    /\ boxes \in Seq(Places) /\ DOMAIN marks = DOMAIN boxes
    /\ scenes \subseteq {"crowding", "stopped_vehicle", "wrong_way"}
    /\ age \in 0..StopHits

TrackerInit ==
    /\ epoch = 0 /\ key = NoEpoch
    /\ tracks = {} /\ next = 1
    /\ boxes = <<>> /\ marks = <<>> /\ scenes = {} /\ age = 0

-----------------------------------------------------------------------------
Abs(n) == IF n < 0 THEN -n ELSE n

(* _iou: the overlap over the union. *)
Iou(a, b) ==
    LET inter == IF Abs(a - b) < Width THEN Width - Abs(a - b) ELSE 0
    IN  (100 * inter) \div (2 * Width - inter)

(* A pair is <<id of a track, box, overlap>>; sorted(pairs, reverse=True)    *)
(* compares overlap, place in the list of tracks, box.  A track is put at  *)
(* the end of the list with the next id and those dropped leave gaps, so   *)
(* the list is in the order of the ids.                                    *)
Ahead(p, q) ==
    \/ p[3] > q[3]
    \/ p[3] = q[3] /\ p[1] > q[1]
    \/ p[3] = q[3] /\ p[1] = q[1] /\ p[2] >= q[2]

(* Mutant of Best: sorted without reverse. *)
BestWorst(P) == CHOOSE p \in P : \A q \in P : Ahead(q, p)

Best(P) == CHOOSE p \in P : \A q \in P : Ahead(p, q)

(* Mutant of Apart: a box may be given to two tracks. *)
ApartTracks(p, q) == p[1] # q[1]

(* Neither the track nor the box of the one is the other's. *)
Apart(p, q) == p[1] # q[1] /\ p[2] # q[2]

Greedy(P0) ==
    LET G[P \in SUBSET P0] ==
            IF P = {} THEN {}
            ELSE LET b == Best(P) IN {b} \cup G[{p \in P : Apart(p, b)}]
    IN  G[P0]

(* Mutant of Thresholds: only the high threshold is used. *)
ThresholdsHigh == <<High, High>>

Thresholds == <<High, Low>>

(* The two rounds of update, the second with what the first left over. *)
Matched(old, frame) ==
    LET all == {<<t.id, d, Iou(t.at, frame[d])>> : t \in old, d \in DOMAIN frame}
        first == Greedy({p \in all : p[3] >= Thresholds[1]})
        left == {p \in all : \A q \in first : Apart(p, q)}
    IN  first \cup Greedy({p \in left : p[3] >= Thresholds[2]})

Capped(n) == IF n > StopHits THEN StopHits ELSE n

Updated(t, M, frame) ==
    IF \E p \in M : p[1] = t.id
    THEN LET p == CHOOSE p \in M : p[1] = t.id
         IN  [t EXCEPT !.at = frame[p[2]], !.misses = 0, !.hits = Capped(@ + 1)]
    ELSE [t EXCEPT !.misses = @ + 1]

Kept(old, M, frame) == {u \in {Updated(t, M, frame) : t \in old} : u.misses <= MaxMisses}

New(M, frame) == {d \in DOMAIN frame : \A p \in M : p[2] # d}

(* The id of a box that no track takes: next_id, in the order of the boxes. *)
NewId(n, M, frame, d) == n + Cardinality({e \in New(M, frame) : e < d})

Appended(n, M, frame) ==
    {[id |-> NewId(n, M, frame, d), at |-> frame[d], misses |-> 0, hits |-> 1] :
        d \in New(M, frame)}

(* local_track_id, track_hits, bbox_iou and dx of every detection. *)
Marks(old, n, M, frame) ==
    [d \in DOMAIN frame |->
        IF d \in New(M, frame)
        THEN [id |-> NewId(n, M, frame, d), hits |-> 1, iou |-> 0, dx |-> 0]
        ELSE LET p == CHOOSE p \in M : p[2] = d
                 t == CHOOSE t \in old : t.id = p[1]
             IN  [id |-> t.id, hits |-> Capped(t.hits + 1),
                  iou |-> Iou(t.at, frame[d]), dx |-> frame[d] - t.at]]

-----------------------------------------------------------------------------
(* analyze_scene. *)
Vehicles(frame) == {d \in DOMAIN frame : frame[d] \notin Footpath}
Persons(frame) == DOMAIN frame \ Vehicles(frame)

Crowding(frame) ==
    \/ Len(frame) >= Crowd[1]
    \/ Cardinality(Persons(frame)) >= Crowd[2]
    \/ /\ Cardinality(Persons(frame)) >= Crowd[3]
       /\ Cardinality(Vehicles(frame)) >= Crowd[4]

Stopped(frame, m) == {d \in Vehicles(frame) : m[d].hits >= StopHits /\ m[d].iou >= Still}

Movers(frame, m) == {d \in Vehicles(frame) : Abs(m[d].dx) >= Moving}

(* sorted(dxs)[len(dxs) // 2] *)
Median(frame, m) ==
    LET D == Movers(frame, m)
        at == Cardinality(D) \div 2
    IN  CHOOSE x \in {m[d].dx : d \in D} :
            /\ Cardinality({d \in D : m[d].dx < x}) <= at
            /\ Cardinality({d \in D : m[d].dx <= x}) > at

WrongWay(frame, m) ==
    IF Cardinality(Movers(frame, m)) < Flow THEN {}
    ELSE {d \in Vehicles(frame) :
            /\ Abs(m[d].dx) >= Against
            /\ (m[d].dx > 0) # (Median(frame, m) > 0)}

Scenes(frame, m) ==
    (IF Crowding(frame) THEN {"crowding"} ELSE {})
    \cup (IF Stopped(frame, m) # {} THEN {"stopped_vehicle"} ELSE {})
    \cup (IF WrongWay(frame, m) # {} THEN {"wrong_way"} ELSE {})

(* Mutant of SameEpoch: the tracker of the camera is kept in a new epoch. *)
AnyEpoch == key # NoEpoch

(* tracker_for drops the trackers of the camera's other epochs. *)
SameEpoch == key = epoch

(* The tracks of the tracker that tracker_for returns, and its next id. *)
Live == IF SameEpoch THEN tracks ELSE {}
NextId == IF SameEpoch THEN next ELSE 1

(***************************************************************************)
(* detect_frame, and analyze_scene of what it returns.  The boxes of a     *)
(* frame differ, YOLO drops doubles.                                       *)
(***************************************************************************)
Frame(frame) ==
    \E M \in {Matched(Live, frame)} :
        /\ NextId + Cardinality(New(M, frame)) <= MaxId + 1
        /\ key' = epoch
        /\ next' = NextId + Cardinality(New(M, frame))
        /\ tracks' = Kept(Live, M, frame) \cup Appended(NextId, M, frame)
        /\ boxes' = frame /\ marks' = Marks(Live, NextId, M, frame)
        /\ scenes' = Scenes(frame, marks')
        /\ age' = Capped(age + 1)
        /\ UNCHANGED epoch

(* The sampler saw a cut of the stream (StreamSampler). *)
Cut ==
    /\ epoch < MaxEpoch /\ epoch' = epoch + 1
    /\ boxes' = <<>> /\ marks' = <<>> /\ scenes' = {} /\ age' = 0
    /\ UNCHANGED <<key, tracks, next>>

Frames ==
    {f \in UNION {[1..k -> Places] : k \in 0..MaxBoxes} :
        \A i, j \in DOMAIN f : i # j => f[i] # f[j]}

TrackerNext == Cut \/ \E f \in Frames : Frame(f)

TrackerSpec == TrackerInit /\ [][TrackerNext]_trackerVars

-----------------------------------------------------------------------------
(* Two boxes of a frame never share a track, two tracks never an id or a   *)
(* box, and every box is a track's last place (the trail relies on it:     *)
(* comment above _cameras).                                                *)
OneTrackPerBox ==
    /\ \A d, e \in DOMAIN marks : marks[d].id = marks[e].id => d = e
    /\ \A t, u \in tracks :
            t.id = u.id \/ (t.at = u.at /\ t.misses = 0 /\ u.misses = 0) => t = u
    /\ \A d \in DOMAIN marks : \E t \in tracks :
            t.id = marks[d].id /\ t.at = boxes[d] /\ t.misses = 0

(* An id is new only if no track that was free could have been it: every   *)
(* track that overlaps a new box by the low threshold went to another box. *)
NewOnlyIfAlone ==
    [][boxes' # <<>> /\ age' # 0 =>
        \A d \in DOMAIN marks' : marks'[d].iou = 0 =>
            \A t \in Live : Iou(t.at, boxes'[d]) >= Low =>
                \E e \in DOMAIN marks' : e # d /\ marks'[e].id = t.id]_trackerVars

(* No box is lured from its track by a worse one: of a box and a track     *)
(* that overlap by the high threshold, one is matched at least as well.    *)
NoBetterPair ==
    [][age' # 0 =>
        \A d \in DOMAIN marks' : \A t \in Live :
            LET iou == Iou(t.at, boxes'[d])
            IN  iou >= High =>
                    \/ marks'[d].iou >= iou
                    \/ \E e \in DOMAIN marks' : marks'[e].id = t.id /\ marks'[e].iou >= iou]_trackerVars

(* "Loop cuts reset tracker epochs" (docs/api.md): no scene is read from   *)
(* the motion between two epochs; a vehicle has stopped, or goes against   *)
(* the flow, by frames of this epoch alone.                                *)
ScenesOfOneEpoch ==
    /\ "stopped_vehicle" \in scenes => age >= StopHits
    /\ "wrong_way" \in scenes => age >= 2
=============================================================================
