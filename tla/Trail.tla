--------------------------------- MODULE Trail ---------------------------------
(***************************************************************************)
(* The trail of a vehicle across cameras: ingest_detection gives every     *)
(* sighting a global track id, and a track point unless its camera has     *)
(* just seen the same plate; the search API makes a route of the points.   *)
(* Several ingests run at once, each in its own transaction, and read what *)
(* others have committed.  Sightings come in any order of their times.     *)
(***************************************************************************)
EXTENDS Integers, SequencesExt

CONSTANTS
    Cams,         \* cameras
    Streams,      \* those sampled from a stream: their sightings carry an epoch
    Mine,         \* those of the department that searches
    Epochs,       \* stream epochs
    Times,        \* times of sightings
    Kinds,        \* of sightings: "plate", "person", "face"
    Slots,        \* ingests at once
    Dwell,        \* TRACK_POINT_DWELL (3 minutes in the code)
    Window,       \* how far back a track is looked for (45 minutes in the code)
    MaxSightings  \* bound: sightings

ASSUME CamsAssumption == Streams \subseteq Cams /\ Mine \subseteq Cams
ASSUME TimesAssumption == Times \subseteq Int /\ Dwell \in Nat \ {0} /\ Window \in Nat
ASSUME KindsAssumption == Kinds \subseteq {"plate", "person", "face"}

VARIABLES
    events,  \* committed detection events
    points,  \* committed track points
    slot,    \* what each ingest does
    count,   \* sightings delivered
    lost     \* history: ingests that raised

trailVars == <<events, points, slot, count, lost>>

Sightings == [cam : Cams, at : Times, kind : Kinds, epoch : Epochs]
FreeSlot == [pc |-> "idle"]

TrailInit ==
    /\ events = {} /\ points = {}
    /\ slot = [k \in Slots |-> FreeSlot]
    /\ count = 0 /\ lost = 0

-----------------------------------------------------------------------------
Abs(n) == IF n < 0 THEN -n ELSE n

Newest(S) == {e \in S : \A f \in S : f.at <= e.at}

Recent(s, kinds) == {e \in events : e.kind \in kinds /\ e.at >= s.at - Window}

(***************************************************************************)
(* resolve_global_track: the ids that it may return.  A person without a   *)
(* local track is compared with the recent persons; an appearance vector   *)
(* has 64 numbers, a face 512, and their dot product raises.               *)
(***************************************************************************)
OfStream(s) ==
    CASE s.kind = "plate" -> <<"veh", s.cam, s.epoch>>
      [] s.kind = "face" -> <<"per", s.cam, s.epoch>>
      [] s.kind = "person" -> <<"per", s.cam, s.epoch, s.at>>

OrNew(S, new) == IF S = {} THEN {new} ELSE {e.gid : e \in Newest(S)}

GlobalTracks(s) ==
    IF s.cam \in Streams THEN {OfStream(s)}
    ELSE CASE s.kind = "plate" -> OrNew(Recent(s, {"plate"}), <<"veh">>)
           [] s.kind = "face" -> {<<"per", s.cam, "local">>}
           [] s.kind = "person" -> OrNew(Recent(s, {"person"}), <<"per", s.cam, s.at>>)

Raises(s) == s.cam \notin Streams /\ s.kind = "person" /\ Recent(s, {"face"}) # {}

(* ingest_detection up to resolve_global_track. *)
Resolve(k, s) ==
    /\ slot[k].pc = "idle" /\ count < MaxSightings
    /\ count' = count + 1
    /\ IF Raises(s)
       THEN lost' = lost + 1 /\ UNCHANGED slot
       ELSE /\ \E gid \in GlobalTracks(s) :
                  slot' = [slot EXCEPT ![k] = [pc |-> "dwell", s |-> s, gid |-> gid, n |-> count]]
            /\ UNCHANGED lost
    /\ UNCHANGED <<events, points>>

(* Mutant of SameDwell: the camera of the last point is not asked for. *)
SameDwellAnywhere(last, s) == Abs(s.at - last.at) < Dwell

SameDwell(last, s) == last.cam = s.cam /\ Abs(s.at - last.at) < Dwell

PlatePoints == {p \in points : p.kind = "plate"}

(* _same_camera_dwell: the plate's newest point is of this camera. *)
CheckDwell(k) ==
    /\ slot[k].pc = "dwell"
    /\ LET s == slot[k].s
       IN  IF s.kind # "plate" \/ PlatePoints = {}
           THEN slot' = [slot EXCEPT ![k] = [@ EXCEPT !.pc = "point"]]
           ELSE \E last \in Newest(PlatePoints) :
                    slot' = [slot EXCEPT ![k] =
                                [@ EXCEPT !.pc = IF SameDwell(last, s) THEN "no point" ELSE "point"]]
    /\ UNCHANGED <<events, points, count, lost>>

(* The commit: the event, and its point. *)
Commit(k) ==
    /\ slot[k].pc \in {"point", "no point"}
    /\ LET r == [n |-> slot[k].n, cam |-> slot[k].s.cam, at |-> slot[k].s.at,
                 kind |-> slot[k].s.kind, gid |-> slot[k].gid]
       IN  /\ events' = events \cup {r}
           /\ points' = IF slot[k].pc = "point" THEN points \cup {r} ELSE points
    /\ slot' = [slot EXCEPT ![k] = FreeSlot]
    /\ UNCHANGED <<count, lost>>

TrailNext ==
    \E k \in Slots :
        \/ \E s \in Sightings : (s.cam \notin Streams => s.epoch = 0) /\ Resolve(k, s)
        \/ CheckDwell(k)
        \/ Commit(k)

TrailSpec == TrailInit /\ [][TrailNext]_trailVars

-----------------------------------------------------------------------------
(* The routes of the search API.  order_by(timestamp) leaves the order of  *)
(* equal times open; it is the order of the ids here.                      *)
Before(p, q) == p.at < q.at \/ (p.at = q.at /\ p.n < q.n)

(* The i-th point is the one with i - 1 points before it.                  *)
InOrder(S) ==
    [i \in 1..Cardinality(S) |->
        CHOOSE p \in S : Cardinality({q \in S : Before(q, p)}) = i - 1]

(* A hop of _decorate_track_points. *)
Hop(p) == [cam |-> p.cam, at |-> p.at, hits |-> 1, first |-> p.at]

(* Mutant of Onto: the newer hop replaces the older. *)
OntoReplaced(old, new) == new

(* The newer hop with the hits of both and the first time of the older. *)
Onto(old, new) == [new EXCEPT !.hits = @ + old.hits, !.first = old.first]

(* The next point prolongs the last stay or begins one.                    *)
Stay(hops, p) ==
    IF hops # <<>> /\ Last(hops).cam = p.cam
    THEN Append(Front(hops), Onto(Last(hops), Hop(p)))
    ELSE Append(hops, Hop(p))

Dwells(seq) == FoldLeft(Stay, <<>>, seq)

(* The next stay goes to the hop of its camera or makes one.               *)
Gather(out, h) ==
    IF \E i \in DOMAIN out : out[i].cam = h.cam
    THEN [i \in DOMAIN out |-> IF out[i].cam = h.cam THEN Onto(out[i], h) ELSE out[i]]
    ELSE Append(out, h)

ByCam(hops) == FoldLeft(Gather, <<>>, hops)

Decorated(S) == ByCam(Dwells(InOrder(S)))

Visible(S, scope) == {p \in S : p.cam \in scope}

(* plate_route, for a department or for the state. *)
PlateRoute(scope) == Decorated(Visible(PlatePoints, scope))

(* track_history and _track_points. *)
TrackHistory(gid, scope) == Decorated(Visible({p \in points : p.gid = gid}, scope))

(* appearance_route: the history of the newest vehicle that looks right. *)
AppearanceRoute(scope) ==
    {TrackHistory(e.gid, scope) : e \in Newest(Visible({e \in events : e.kind = "plate"}, scope))}

(* coalesce_consecutive_camera_hops. *)
Coalesced(seq) ==
    FoldLeft(LAMBDA hops, p :
                IF hops # <<>> /\ Last(hops).cam = p.cam THEN Append(Front(hops), p) ELSE Append(hops, p),
             <<>>, seq)

-----------------------------------------------------------------------------
(* No sighting of a plate is missing from its route: where no point was    *)
(* added, the same camera has one within the dwell time (the route is what *)
(* is drawn on the map), in whatever order ingests read and commit.        *)
SightingCovered ==
    \A e \in events : e.kind = "plate" =>
        \E p \in PlatePoints : p.cam = e.cam /\ Abs(e.at - p.at) < Dwell

Saw(c, S) == {p \in S : p.cam = c}

IsRouteOf(route, S) ==
    /\ {route[i].cam : i \in DOMAIN route} = {p.cam : p \in S}
    /\ \A i, j \in DOMAIN route : i < j =>
            route[i].cam # route[j].cam /\ route[i].first <= route[j].first
    /\ \A i \in DOMAIN route :
            /\ route[i].hits = Cardinality(Saw(route[i].cam, S))
            /\ route[i].first = Min({p.at : p \in Saw(route[i].cam, S)})
            /\ route[i].at = Max({p.at : p \in Saw(route[i].cam, S)})

(* A route shows each camera once, by the order in which they first saw    *)
(* the vehicle, with all its points counted and their whole span of time,  *)
(* and for a department only what its own cameras saw.                     *)
RouteComplete ==
    \A scope \in {Cams, Mine} : IsRouteOf(PlateRoute(scope), Visible(PlatePoints, scope))

(* "ordered track_points -> GIS polyline" (docs/HLD.md): the points of the *)
(* route are in the order of their times.  Not so: a camera that sees the  *)
(* vehicle again moves its first hop to the later time, at the first place.*)
RouteOrdered ==
    LET route == PlateRoute(Cams)
    IN  \A i, j \in DOMAIN route : i < j => route[i].at <= route[j].at

(* A trail has a hop for every change of camera (the docstring of          *)
(* coalesce_consecutive_camera_hops).  Not so for the route.               *)
RouteKeepsReturns == Len(PlateRoute(Cams)) = Len(Coalesced(InOrder(PlatePoints)))

(* "Multi-camera Re-ID: plate-first" (resolve_global_track): two sightings *)
(* of a plate within the window have one track.  Not so: a stream names    *)
(* its own, and what is seen after it takes that name.                     *)
OnePlateOneTrack ==
    \A e, f \in events : e.kind = "plate" /\ f.kind = "plate" /\ Abs(e.at - f.at) <= Window
        => e.gid = f.gid

(* "Designated-vehicle trail" (appearance_route): the track of a vehicle   *)
(* that was seen has a point.  Not so: a new epoch names a new track while *)
(* the camera still dwells.                                                *)
TrackHasPoint == <<>> \notin AppearanceRoute(Cams)

(* Two points of one camera in a row are a dwell apart.  Not so: two       *)
(* ingests ask for the last point before either has committed.             *)
OnePointPerDwell ==
    LET seq == InOrder(PlatePoints)
    IN  \A i \in 1..(Len(seq) - 1) :
            seq[i].cam = seq[i + 1].cam => seq[i + 1].at - seq[i].at >= Dwell

(* A sighting of a known camera is recorded.  Not so: the comparison of an *)
(* appearance with a face raises.                                          *)
NoneLost == lost = 0
=============================================================================
