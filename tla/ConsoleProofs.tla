--------------------------- MODULE ConsoleProofs ---------------------------
(***************************************************************************)
(* What an operator's page shows of what the cameras saw: the route of a   *)
(* vehicle (Trail) and the alerts that come over a socket (LiveHub).  The  *)
(* two share no variable; Trail comes first.                               *)
(***************************************************************************)
EXTENDS Trail, LiveHub, FiniteSetTheorems, SequenceTheorems, WellFoundedInduction, TLAPS

(* Trail: every sighting of a plate is covered by a point of its camera,   *)
(* for all cameras, times and numbers of concurrent ingests.               *)

(* One of the points P covers a sighting s. *)
Covers(P, s) == \E p \in P : p.cam = s.cam /\ Abs(s.at - p.at) < Dwell

(* What the slots know: a slot at work holds a sighting, and one that adds *)
(* no point has seen one that covers it.                                   *)
Working(k) ==
    slot[k].pc \in {"dwell", "point", "no point"} =>
        /\ slot[k] = [pc |-> slot[k].pc, s |-> slot[k].s, gid |-> slot[k].gid, n |-> slot[k].n]
        /\ slot[k].s \in Sightings

Excused(k) == slot[k].pc = "no point" => Covers(PlatePoints, slot[k].s)

TrailInv ==
    /\ DOMAIN slot = Slots
    /\ \A k \in Slots : Working(k) /\ Excused(k)
    /\ SightingCovered

LEMMA AbsSame == \A n \in Int : Abs(n - n) = 0
  BY DEF Abs

(* Points are never removed, so what is covered stays covered. *)
LEMMA CoveredStays ==
  ASSUME points \subseteq points', NEW s, Covers(PlatePoints, s)
  PROVE  Covers(PlatePoints', s)
  <1>1. PICK p \in PlatePoints : p.cam = s.cam /\ Abs(s.at - p.at) < Dwell
    BY DEF Covers
  <1>2. p \in PlatePoints'
    BY <1>1 DEF PlatePoints
  <1> QED
    BY <1>1, <1>2 DEF Covers

LEMMA CoverageStays ==
  ASSUME TrailInv, points \subseteq points', events' = events
  PROVE  SightingCovered'
  <1> SUFFICES ASSUME NEW e \in events, e.kind = "plate" PROVE Covers(PlatePoints', e)
    BY DEF SightingCovered, Covers
  <1>1. Covers(PlatePoints, e)
    BY DEF TrailInv, SightingCovered, Covers
  <1> QED
    BY <1>1, CoveredStays

LEMMA ResolveStep ==
  ASSUME TrailInv, NEW k \in Slots, NEW s \in Sightings, Resolve(k, s)
  PROVE  TrailInv'
  <1>1. points' = points /\ events' = events
    BY DEF Resolve
  <1>2. DOMAIN slot' = Slots
    BY DEF TrailInv, Resolve
  <1>3. ASSUME NEW j \in Slots PROVE Working(j)' /\ Excused(j)'
    <2>1. CASE slot' = slot
      BY <1>1, <2>1, CoveredStays DEF TrailInv, Working, Excused
    <2>2. CASE slot' # slot
      <3>1. PICK gid : slot' = [slot EXCEPT ![k] = [pc |-> "dwell", s |-> s, gid |-> gid, n |-> count]]
        BY <2>2 DEF Resolve
      <3>2. CASE j = k
        BY <3>1, <3>2 DEF TrailInv, Working, Excused
      <3>3. CASE j # k
        <4>1. slot'[j] = slot[j]
          BY <3>1, <3>3 DEF TrailInv
        <4> QED
          BY <1>1, <4>1, CoveredStays DEF TrailInv, Working, Excused
      <3> QED
        BY <3>2, <3>3
    <2> QED
      BY <2>1, <2>2
  <1> QED
    BY <1>1, <1>2, <1>3, CoverageStays DEF TrailInv

LEMMA CheckDwellStep ==
  ASSUME TrailInv, NEW k \in Slots, CheckDwell(k)
  PROVE  TrailInv'
  <1>1. points' = points /\ events' = events
    BY DEF CheckDwell
  <1>2. slot[k].s \in Sightings
    BY DEF TrailInv, Working, CheckDwell
  <1>3. PICK to \in {"point", "no point"} :
            /\ slot' = [slot EXCEPT ![k] = [slot[k] EXCEPT !.pc = to]]
            /\ to = "no point" => Covers(PlatePoints, slot[k].s)
    <2>1. CASE slot[k].s.kind # "plate" \/ PlatePoints = {}
      BY <2>1 DEF CheckDwell
    <2>2. CASE ~(slot[k].s.kind # "plate" \/ PlatePoints = {})
      <3>1. PICK last \in Newest(PlatePoints) :
                slot' = [slot EXCEPT ![k] =
                    [slot[k] EXCEPT !.pc = IF SameDwell(last, slot[k].s) THEN "no point" ELSE "point"]]
        BY <2>2 DEF CheckDwell
      <3>2. last \in PlatePoints
        BY DEF Newest
      <3>3. CASE SameDwell(last, slot[k].s)
        <4>1. Covers(PlatePoints, slot[k].s)
          BY <3>2, <3>3, <1>2 DEF SameDwell, Covers
        <4> QED
          BY <3>1, <3>3, <4>1
      <3>4. CASE ~SameDwell(last, slot[k].s)
        BY <3>1, <3>4
      <3> QED
        BY <3>3, <3>4
    <2> QED
      BY <2>1, <2>2
  <1>4. DOMAIN slot' = Slots
    BY <1>3 DEF TrailInv
  <1>5. ASSUME NEW j \in Slots PROVE Working(j)' /\ Excused(j)'
    <2>1. CASE j = k
      <3>1. slot'[j] = [slot[k] EXCEPT !.pc = to]
        BY <1>3, <2>1 DEF TrailInv
      <3>2. slot[k] = [pc |-> slot[k].pc, s |-> slot[k].s, gid |-> slot[k].gid, n |-> slot[k].n]
        BY DEF TrailInv, Working, CheckDwell
      <3>3. slot'[j] = [pc |-> to, s |-> slot[k].s, gid |-> slot[k].gid, n |-> slot[k].n]
        BY <3>1, <3>2
      <3> DEFINE work == slot'[j]
      <3>4. work = [pc |-> to, s |-> slot[k].s, gid |-> slot[k].gid, n |-> slot[k].n]
        BY <3>3
      <3> HIDE DEF work
      <3>5. work.pc = to /\ work.s = slot[k].s /\ work.gid = slot[k].gid /\ work.n = slot[k].n
        BY <3>4
      <3>6. slot'[j].pc = to /\ slot'[j].s = slot[k].s
        BY <3>5 DEF work
      <3>7. work = [pc |-> work.pc, s |-> work.s, gid |-> work.gid, n |-> work.n] /\ work.s \in Sightings
        BY <3>4, <3>5, <1>2
      <3>8. Working(j)'
        BY <3>7 DEF work, Working
      <3>9. Excused(j)'
        BY <3>6, <1>1, <1>3, CoveredStays DEF Excused
      <3> QED
        BY <3>8, <3>9
    <2>2. CASE j # k
      <3>1. slot'[j] = slot[j]
        BY <1>3, <2>2 DEF TrailInv
      <3> QED
        BY <1>1, <3>1, CoveredStays DEF TrailInv, Working, Excused
    <2> QED
      BY <2>1, <2>2
  <1> QED
    BY <1>1, <1>4, <1>5, CoverageStays DEF TrailInv

LEMMA CommitStep ==
  ASSUME TrailInv, NEW k \in Slots, Commit(k)
  PROVE  TrailInv'
  <1> DEFINE r == [n |-> slot[k].n, cam |-> slot[k].s.cam, at |-> slot[k].s.at,
                   kind |-> slot[k].s.kind, gid |-> slot[k].gid]
  <1>1. /\ events' = events \cup {r}
        /\ points' = IF slot[k].pc = "point" THEN points \cup {r} ELSE points
        /\ slot' = [slot EXCEPT ![k] = FreeSlot]
    BY DEF Commit
  <1>2. slot[k].s \in Sightings /\ slot[k].pc \in {"point", "no point"}
    BY DEF TrailInv, Working, Commit
  <1>3. points \subseteq points'
    BY <1>1
  <1>4. DOMAIN slot' = Slots
    BY <1>1 DEF TrailInv
  <1>5. ASSUME NEW j \in Slots PROVE Working(j)' /\ Excused(j)'
    <2>1. CASE j = k
      BY <1>1, <2>1 DEF TrailInv, Working, Excused, FreeSlot
    <2>2. CASE j # k
      <3>1. slot'[j] = slot[j]
        BY <1>1, <2>2 DEF TrailInv
      <3> QED
        BY <1>3, <3>1, CoveredStays DEF TrailInv, Working, Excused
    <2> QED
      BY <2>1, <2>2
  <1>6. ASSUME r.kind = "plate" PROVE Covers(PlatePoints', r)
    <2>1. CASE slot[k].pc = "point"
      <3>1. r \in PlatePoints'
        BY <1>1, <1>6, <2>1 DEF PlatePoints
      <3>2. r.at \in Int
        BY <1>2, TimesAssumption DEF Sightings
      <3>3. Abs(r.at - r.at) < Dwell
        BY <3>2, AbsSame, TimesAssumption
      <3> HIDE DEF r
      <3> QED
        BY <3>1, <3>3 DEF Covers
    <2>2. CASE slot[k].pc = "no point"
      <3>1. Covers(PlatePoints, slot[k].s)
        BY <2>2 DEF TrailInv, Excused
      <3>2. Covers(PlatePoints', r)
        <4>1. PICK p \in PlatePoints : p.cam = slot[k].s.cam /\ Abs(slot[k].s.at - p.at) < Dwell
          BY <3>1 DEF Covers
        <4>2. p \in PlatePoints'
          BY <1>3 DEF PlatePoints
        <4>3. p.cam = r.cam /\ Abs(r.at - p.at) < Dwell
          BY <4>1
        <4> QED
          BY <4>2, <4>3 DEF Covers
      <3> QED
        BY <3>2
    <2> QED
      BY <1>2, <2>1, <2>2
  <1>7. SightingCovered'
    <2> SUFFICES ASSUME NEW e \in events', e.kind = "plate" PROVE Covers(PlatePoints', e)
      BY DEF SightingCovered, Covers
    <2>1. CASE e = r
      BY <1>6, <2>1
    <2>2. CASE e \in events
      <3>1. Covers(PlatePoints, e)
        BY <2>2 DEF TrailInv, SightingCovered, Covers
      <3> QED
        BY <1>3, <3>1, CoveredStays
    <2> QED
      BY <1>1, <2>1, <2>2
  <1> QED
    BY <1>4, <1>5, <1>7 DEF TrailInv

LEMMA TrailStarts == TrailInit => TrailInv
  <1> SUFFICES ASSUME TrailInit PROVE TrailInv
    OBVIOUS
  <1>1. DOMAIN slot = Slots /\ \A k \in Slots : slot[k].pc = "idle"
    BY DEF TrailInit, FreeSlot
  <1>2. \A k \in Slots : Working(k) /\ Excused(k)
    BY <1>1 DEF Working, Excused
  <1>3. SightingCovered
    BY DEF TrailInit, SightingCovered
  <1> QED
    BY <1>1, <1>2, <1>3 DEF TrailInv

LEMMA TrailInvStep == TrailInv /\ [TrailNext]_trailVars => TrailInv'
  <1> SUFFICES ASSUME TrailInv, [TrailNext]_trailVars PROVE TrailInv'
    OBVIOUS
  <1>1. ASSUME NEW k \in Slots, NEW s \in Sightings, Resolve(k, s) PROVE TrailInv'
    BY <1>1, ResolveStep
  <1>2. ASSUME NEW k \in Slots, CheckDwell(k) PROVE TrailInv'
    BY <1>2, CheckDwellStep
  <1>3. ASSUME NEW k \in Slots, Commit(k) PROVE TrailInv'
    BY <1>3, CommitStep
  <1>4. CASE UNCHANGED trailVars
    <2>1. points' = points /\ events' = events /\ slot' = slot
      BY <1>4 DEF trailVars
    <2> QED
      BY <2>1 DEF TrailInv, Working, Excused, Covers, SightingCovered, PlatePoints
  <1> QED
    BY <1>1, <1>2, <1>3, <1>4 DEF TrailNext

(* SightingCovered is inductive with what the slots know; it is the        *)
(* guarantee that _same_camera_dwell gives the route.                      *)
THEOREM SightingsAreCovered == TrailSpec => []SightingCovered
  <1>1. TrailInv => SightingCovered
    BY DEF TrailInv
  <1> QED
    BY <1>1, TrailStarts, TrailInvStep, PTL DEF TrailSpec

-----------------------------------------------------------------------------
(***************************************************************************)
(* RouteComplete: the points of a plate have different numbers, so they    *)
(* have one order (InOrder); the loop over the stays does what the loop    *)
(* over the points would do (StaysAreGathered); and each point that comes  *)
(* to the hop of its camera is counted there (Gathers).                    *)
(***************************************************************************)
(* A set of numbers has a least one, and a set of finite sets a smallest.  *)
LEMMA Least ==
    ASSUME NEW T, T \subseteq Nat, T # {}
    PROVE  \E n \in T : \A m \in T : n <= m
<1>1. PICK n \in T : \A m \in T : ~(<<m, n>> \in OpToRel(<, Nat))
  <2>1. IsWellFoundedOn(OpToRel(<, Nat), Nat)
    BY NatLessThanWellFounded DEF OpToRel
  <2>2. QED
    BY <2>1, WFMin DEF OpToRel
<1>2. \A m \in T : ~(m < n)
  BY <1>1 DEF OpToRel
<1>3. QED
  BY <1>2

LEMMA Smallest ==
    ASSUME NEW S, IsFiniteSet(S), NEW F, F \subseteq SUBSET S, F # {}
    PROVE  \E P \in F : \A Q \in F : Q \subseteq P => Q = P
<1>1. IsWellFoundedOn(StrictSubsetOrdering(S), SUBSET S)
  BY FS_StrictSubsetOrderingWellFounded, FS_FiniteSubsetsOfFinite
<1>2. PICK P \in F : \A Q \in F : <<Q, P>> \notin StrictSubsetOrdering(S)
  BY <1>1, WFMin
<1>3. QED
  BY <1>2 DEF StrictSubsetOrdering

-----------------------------------------------------------------------------
(* Points that have times, and numbers of their own.                       *)
Stamped(S) ==
    /\ IsFiniteSet(S)
    /\ \A p \in S : p.at \in Int /\ p.n \in Int
    /\ \A p, q \in S : p.n = q.n => p = q

Rank(S, p) == Cardinality({q \in S : Before(q, p)})

(* Before orders such points, and so do their ranks.                       *)
LEMMA Ranked ==
    ASSUME NEW S, Stamped(S)
    PROVE  /\ Cardinality(S) \in Nat
           /\ \A p \in S : Rank(S, p) \in 0..(Cardinality(S) - 1)
           /\ \A p, q \in S : Before(p, q) <=> Rank(S, p) < Rank(S, q)
           /\ \A p, q \in S : Rank(S, p) = Rank(S, q) => p = q
<1> DEFINE Under(p) == {q \in S : Before(q, p)}
<1>1. \A p \in S : Under(p) \subseteq S /\ p \notin Under(p)
  BY DEF Stamped, Before
<1>2. Cardinality(S) \in Nat /\ \A p \in S : IsFiniteSet(Under(p)) /\ Rank(S, p) \in Nat
  BY <1>1, FS_Subset, FS_CardinalityType DEF Stamped, Rank
<1>3. ASSUME NEW p \in S PROVE Rank(S, p) <= Cardinality(S) /\ Rank(S, p) # Cardinality(S)
  BY <1>1, FS_Subset DEF Stamped, Rank
<1>4. ASSUME NEW p \in S, NEW q \in S, Before(p, q) PROVE Rank(S, p) < Rank(S, q)
  <2>1. Under(p) \subseteq Under(q) /\ p \in Under(q)
    BY <1>4 DEF Stamped, Before
  <2>2. Under(p) # Under(q)
    BY <1>1, <2>1
  <2>3. /\ IsFiniteSet(Under(q)) /\ Rank(S, p) \in Nat /\ Rank(S, q) \in Nat
        /\ Rank(S, p) = Cardinality(Under(p)) /\ Rank(S, q) = Cardinality(Under(q))
    BY <1>2 DEF Rank
  <2> HIDE DEF Under
  <2>4. Rank(S, p) <= Rank(S, q) /\ Rank(S, p) # Rank(S, q)
    BY <2>1, <2>2, <2>3, FS_Subset
  <2>5. QED
    BY <2>3, <2>4
<1>5. \A p, q \in S : p = q \/ Before(p, q) \/ Before(q, p)
  BY DEF Stamped, Before
<1> HIDE DEF Under
<1>6. \A p \in S : Rank(S, p) \in 0..(Cardinality(S) - 1)
  BY <1>2, <1>3
<1>7. \A p, q \in S : Rank(S, p) < Rank(S, q) => Before(p, q)
  BY <1>2, <1>4, <1>5
<1>8. \A p, q \in S : Rank(S, p) = Rank(S, q) => p = q
  BY <1>2, <1>4, <1>5
<1>9. QED
  BY <1>2, <1>4, <1>6, <1>7, <1>8

(* InOrder lists each point once, by the time and then by the number.      *)
LEMMA Ordered ==
    ASSUME NEW S, Stamped(S)
    PROVE  /\ Cardinality(S) \in Nat /\ InOrder(S) \in [1..Cardinality(S) -> S]
           /\ \A p \in S : \E i \in 1..Cardinality(S) : InOrder(S)[i] = p
           /\ \A i, j \in 1..Cardinality(S) : i < j => Before(InOrder(S)[i], InOrder(S)[j])
<1> DEFINE n == Cardinality(S)
           Ranks == [p \in S |-> Rank(S, p) + 1]
<1>1. n \in Nat /\ Ranks \in [S -> 1..n]
  BY Ranked
<1>2. \A i \in 1..n : \E p \in S : Rank(S, p) = i - 1
  <2>1. Ranks \in Injection(S, 1..n)
    BY <1>1, Ranked DEF Injection, IsInjective
  <2>2. IsFiniteSet(1..n) /\ Cardinality(1..n) = n
    BY <1>1, FS_Interval
  <2>3. Ranks \in Surjection(S, 1..n)
    BY <2>1, <2>2, FS_Injection
  <2>4. \A i \in 1..n : \E p \in S : Ranks[p] = i
    BY <2>3 DEF Surjection
  <2>5. QED
    BY <2>4, Ranked
<1>3. \A i \in 1..n : InOrder(S)[i] \in S /\ Rank(S, InOrder(S)[i]) = i - 1
  BY <1>2 DEF InOrder, Rank
<1>4. InOrder(S) \in [1..n -> S]
  <2> DEFINE At(i) == CHOOSE p \in S : Rank(S, p) = i - 1
  <2>1. InOrder(S) = [i \in 1..n |-> At(i)]
    BY DEF InOrder, Rank
  <2>2. \A i \in 1..n : At(i) \in S
    BY <1>2
  <2> HIDE DEF At
  <2>3. QED
    BY <2>1, <2>2
<1>5. \A p \in S : InOrder(S)[Rank(S, p) + 1] = p
  BY <1>1, <1>3, Ranked
<1>6. QED
  BY <1>1, <1>3, <1>4, <1>5, Ranked

-----------------------------------------------------------------------------
(***************************************************************************)
(* The loops: that over the points, and that over the stays.               *)
(***************************************************************************)
Turn(overPoints, out, x) == IF overPoints THEN Stay(out, x) ELSE Gather(out, x)

Loop(overPoints, seq) == IF overPoints THEN Dwells(seq) ELSE ByCam(seq)

(* One call of the recursion, given what it returns for the smaller sets.  *)
Called(b, seq, g, s) ==
    IF s = {} THEN <<>> ELSE Turn(b, g[s \ {Max(s)}], seq[Max(s)])

LEMMA LoopUnfolds ==
    ASSUME NEW b \in BOOLEAN, NEW seq
    PROVE  Loop(b, seq) =
             (CHOOSE g : g = [s \in SUBSET DOMAIN seq |-> Called(b, seq, g, s)])[DOMAIN seq]
<1>1. CASE b
  BY <1>1 DEF Loop, Dwells, FoldLeft, MapThenFoldSet, Called, Turn
<1>2. CASE ~b
  BY <1>2 DEF Loop, ByCam, FoldLeft, MapThenFoldSet, Called, Turn
<1>3. QED
  BY <1>1, <1>2

(* What a loop does to a sequence, it does to its beginning first.         *)
IsList(seq, n) == n \in Nat /\ DOMAIN seq = 1..n

LEMMA Subranges ==
    ASSUME NEW n \in Nat, NEW s \in SUBSET (1..n)
    PROVE  /\ IsFiniteSet(s) /\ Cardinality(s) \in Nat /\ Cardinality(s) <= n
           /\ s # {} => /\ Max(s) \in s /\ \A x \in s : x <= Max(s)
                        /\ Cardinality(s \ {Max(s)}) = Cardinality(s) - 1
<1>1. IsFiniteSet(1..n) /\ Cardinality(1..n) = n
  BY FS_Interval
<1>2. IsFiniteSet(s) /\ Cardinality(s) \in Nat /\ Cardinality(s) <= n
  BY <1>1, FS_Subset, FS_CardinalityType
<1>3. ASSUME s # {} PROVE \E x \in s : \A y \in s : x >= y
  <2> DEFINE T == {n - x : x \in s}
  <2>1. T \subseteq Nat /\ T # {}
    <3>1. \A x \in s : x \in 1..n /\ n - x \in Nat
      OBVIOUS
    <3>2. QED
      BY <1>3, <3>1
  <2>2. PICK m \in T : \A k \in T : m <= k
    BY <2>1, Least
  <2>3. PICK x \in s : m = n - x
    BY <2>2
  <2>4. ASSUME NEW y \in s PROVE x >= y
    <3>1. n - y \in T
      OBVIOUS
    <3>2. n - x <= n - y
      BY <2>2, <2>3, <3>1
    <3>3. QED
      BY <3>2
  <2>5. QED
    BY <2>3, <2>4
<1>4. ASSUME s # {} PROVE Max(s) \in s /\ \A x \in s : Max(s) >= x
  BY <1>3, <1>4 DEF Max
<1>5. ASSUME s # {} PROVE \A x \in s : x <= Max(s)
  BY <1>4, <1>5
<1>6. ASSUME s # {} PROVE Cardinality(s \ {Max(s)}) = Cardinality(s) - 1
  BY <1>2, <1>4, <1>6, FS_RemoveElement
<1>7. QED
  BY <1>2, <1>4, <1>5, <1>6

(* The recursion has a function that satisfies it.                         *)
LEMMA LoopDefined ==
    ASSUME NEW b \in BOOLEAN, NEW seq, NEW n, IsList(seq, n)
    PROVE  \E g : g = [s \in SUBSET DOMAIN seq |-> Called(b, seq, g, s)]
<1> DEFINE D == 1..n
           Upto(m) == {s \in SUBSET D : Cardinality(s) <= m}
           Works(m) == \E g : DOMAIN g = SUBSET D /\ \A s \in Upto(m) : g[s] = Called(b, seq, g, s)
           T == {m \in Nat : ~Works(m)}
<1>0. n \in Nat /\ DOMAIN seq = D
  BY DEF IsList
<1>1. \A s \in SUBSET D : IsFiniteSet(s) /\ Cardinality(s) \in Nat /\ Cardinality(s) <= n
  BY <1>0, Subranges
<1>2. \A s \in SUBSET D : s # {} =>
          s \ {Max(s)} \in SUBSET D /\ Cardinality(s \ {Max(s)}) = Cardinality(s) - 1
  BY <1>0, Subranges
<1>3. Works(0)
  <2> DEFINE g == [s \in SUBSET D |-> <<>>]
  <2>1. \A s \in Upto(0) : s = {}
    <3>1. \A s \in Upto(0) : IsFiniteSet(s) /\ Cardinality(s) = 0
      BY <1>1
    <3>2. QED
      BY <3>1, FS_EmptySet
  <2>2. \A s \in Upto(0) : g[s] = Called(b, seq, g, s)
    BY <2>1 DEF Called
  <2>3. DOMAIN g = SUBSET D
    OBVIOUS
  <2> HIDE DEF g
  <2>4. QED
    BY <2>2, <2>3
<1>4. ASSUME NEW m \in Nat, Works(m) PROVE Works(m + 1)
  <2>1. PICK f : DOMAIN f = SUBSET D /\ \A s \in Upto(m) : f[s] = Called(b, seq, f, s)
    BY <1>4
  <2> DEFINE g == [s \in SUBSET D |-> Called(b, seq, f, s)]
  <2>2. \A s \in Upto(m) : g[s] = f[s]
    BY <2>1
  <2>3. ASSUME NEW s \in Upto(m + 1) PROVE g[s] = Called(b, seq, g, s)
    <3>1. CASE s = {}
      BY <3>1 DEF Called
    <3>2. CASE s # {}
      <4>1. s \ {Max(s)} \in Upto(m)
        BY <1>1, <1>2, <3>2
      <4>2. g[s \ {Max(s)}] = f[s \ {Max(s)}]
        BY <2>2, <4>1
      <4>3. QED
        BY <3>2, <4>2 DEF Called
    <3>3. QED
      BY <3>1, <3>2
  <2>4. DOMAIN g = SUBSET D
    OBVIOUS
  <2> HIDE DEF g
  <2>5. QED
    BY <2>3, <2>4
<1>5. T = {}
  <2> SUFFICES ASSUME T # {} PROVE FALSE
    OBVIOUS
  <2>1. T \subseteq Nat
    OBVIOUS
  <2> HIDE DEF Works
  <2>2. PICK m \in T : \A k \in T : m <= k
    BY <2>1, Least
  <2>3. m # 0 /\ m \in Nat
    BY <1>3, <2>2
  <2>4. m - 1 \in Nat /\ m - 1 \notin T
    BY <2>2, <2>3
  <2>5. QED
    BY <1>4, <2>2, <2>3, <2>4
<1>6. PICK g : DOMAIN g = SUBSET D /\ \A s \in Upto(n) : g[s] = Called(b, seq, g, s)
  BY <1>0, <1>5
<1>7. \A s \in SUBSET D : g[s] = Called(b, seq, g, s)
  BY <1>1, <1>6
<1> DEFINE h == [s \in SUBSET D |-> Called(b, seq, g, s)]
<1>8. \A s \in SUBSET D : h[s] = g[s]
  BY <1>7
<1>9. \A s \in SUBSET D : Called(b, seq, h, s) = Called(b, seq, g, s)
  BY <1>2, <1>8 DEF Called
<1>10. h = [s \in SUBSET D |-> Called(b, seq, h, s)]
  BY <1>9
<1> HIDE DEF h
<1>11. QED
  BY <1>0, <1>10

LEMMA LoopOfNone == ASSUME NEW b \in BOOLEAN PROVE Loop(b, <<>>) = <<>>
<1> DEFINE Is(g) == g = [s \in SUBSET DOMAIN <<>> |-> Called(b, <<>>, g, s)]
<1>1. DOMAIN <<>> = 1..0 /\ 1..0 = {} /\ IsList(<<>>, 0)
  BY DEF IsList
<1>2. \E g : Is(g)
  BY <1>1, LoopDefined
<1>3. Is(CHOOSE g : Is(g))
  BY <1>2
<1>4. (CHOOSE g : Is(g))[{}] = <<>>
  BY <1>1, <1>3 DEF Called
<1>5. QED
  BY <1>1, <1>4, LoopUnfolds

LEMMA LoopOfMore ==
    ASSUME NEW b \in BOOLEAN, NEW n, NEW q, NEW r, IsList(q, n), IsList(r, n + 1),
           \A i \in 1..n : q[i] = r[i]
    PROVE  Loop(b, r) = Turn(b, Loop(b, q), r[n + 1])
<1> DEFINE Is(seq, g) == g = [s \in SUBSET DOMAIN seq |-> Called(b, seq, g, s)]
           Of(seq) == CHOOSE g : Is(seq, g)
           g == Of(q)
           h == Of(r)
<1>0. n \in Nat /\ DOMAIN q = 1..n /\ DOMAIN r = 1..(n + 1)
  BY DEF IsList
<1>1. Is(q, g) /\ Is(r, h)
  <2>1. (\E f : Is(q, f)) /\ (\E f : Is(r, f))
    BY LoopDefined
  <2>2. QED
    BY <2>1
<1>2. Loop(b, q) = g[1..n] /\ Loop(b, r) = h[1..(n + 1)]
  BY <1>0, LoopUnfolds
<1>3. /\ \A s \in SUBSET (1..n) : g[s] = Called(b, q, g, s)
      /\ \A s \in SUBSET (1..(n + 1)) : h[s] = Called(b, r, h, s)
  BY <1>0, <1>1
<1> HIDE DEF g, h, Is, Of
<1>4. h[1..n] = g[1..n]
  <2> DEFINE F == {s \in SUBSET (1..n) : h[s] # g[s]}
  <2>1. ASSUME F # {} PROVE FALSE
    <3>1. PICK U \in F : \A Q \in F : Q \subseteq U => Q = U
      <4> DEFINE D == 1..n
      <4>1. F \subseteq SUBSET D /\ IsFiniteSet(D)
        BY <1>0, FS_Interval
      <4> HIDE DEF F, D
      <4>2. QED
        BY <2>1, <4>1, Smallest
    <3>2. U \in SUBSET (1..n) /\ U \in SUBSET (1..(n + 1)) /\ h[U] # g[U]
      BY <1>0, <3>1
    <3>3. h[U] = Called(b, r, h, U) /\ g[U] = Called(b, q, g, U)
      BY <1>3, <3>2
    <3>4. U # {}
      BY <3>2, <3>3 DEF Called
    <3>5. Max(U) \in U
      BY <1>0, <3>2, <3>4, Subranges
    <3>6. h[U \ {Max(U)}] = g[U \ {Max(U)}] /\ q[Max(U)] = r[Max(U)]
      BY <3>1, <3>2, <3>5
    <3>7. QED
      BY <3>2, <3>3, <3>4, <3>6 DEF Called
  <2>2. 1..n \notin F
    BY <2>1
  <2>3. QED
    BY <2>2
<1>5. Max(1..(n + 1)) = n + 1
  <2> DEFINE U == 1..(n + 1)
  <2>1. n + 1 \in U /\ U # {} /\ U \in SUBSET U /\ n + 1 \in Nat
    BY <1>0
  <2>2. Max(U) \in U /\ n + 1 <= Max(U)
    BY <2>1, Subranges
  <2>3. QED
    BY <1>0, <2>2
<1>6. (1..(n + 1)) \ {n + 1} = 1..n /\ 1..(n + 1) # {}
  BY <1>0
<1>7. h[1..(n + 1)] = Turn(b, h[1..n], r[n + 1])
  <2>1. h[1..(n + 1)] = Called(b, r, h, 1..(n + 1))
    BY <1>3
  <2>2. QED
    BY <1>5, <1>6, <2>1 DEF Called
<1>8. QED
  BY <1>2, <1>4, <1>7

-----------------------------------------------------------------------------
(***************************************************************************)
(* The loop over the stays does what a loop over the points would do.      *)
(***************************************************************************)
Hops == [cam : Cams, at : Int, hits : Int, first : Int]

Placed(p) == p.cam \in Cams /\ p.at \in Int

LEMMA OntoIs ==
    ASSUME NEW a, NEW b \in Hops
    PROVE  Onto(a, b) = [cam |-> b.cam, at |-> b.at, hits |-> b.hits + a.hits, first |-> a.first]
<1> DEFINE o == [b EXCEPT !.hits = b.hits + a.hits, !.first = a.first]
<1>1. b = [cam |-> b.cam, at |-> b.at, hits |-> b.hits, first |-> b.first]
  BY DEF Hops
<1>2. o \in [cam : {b.cam}, at : {b.at}, hits : {b.hits + a.hits}, first : {a.first}]
  BY <1>1
<1>3. Onto(a, b) = o
  BY DEF Onto
<1> HIDE DEF o
<1>4. o = [cam |-> b.cam, at |-> b.at, hits |-> b.hits + a.hits, first |-> a.first]
  BY <1>2
<1>5. QED
  BY <1>3, <1>4

LEMMA OntoHop ==
    ASSUME NEW a \in Hops, NEW b \in Hops
    PROVE  /\ Onto(a, b) \in Hops /\ Onto(a, b).cam = b.cam /\ Onto(a, b).at = b.at
           /\ Onto(a, b).hits = b.hits + a.hits /\ Onto(a, b).first = a.first
BY OntoIs DEF Hops

LEMMA OntoTwice ==
    ASSUME NEW a \in Hops, NEW b \in Hops, NEW c \in Hops
    PROVE  Onto(Onto(a, b), c) = Onto(a, Onto(b, c))
<1>1. Onto(b, c) \in Hops
  BY OntoHop
<1>2. /\ Onto(Onto(a, b), c) = [cam |-> c.cam, at |-> c.at,
                               hits |-> c.hits + (b.hits + a.hits), first |-> a.first]
      /\ Onto(a, Onto(b, c)) = [cam |-> c.cam, at |-> c.at,
                               hits |-> (c.hits + b.hits) + a.hits, first |-> a.first]
  BY <1>1, OntoIs, OntoHop
<1>3. QED
  BY <1>2 DEF Hops

LEMMA HopIsHop == ASSUME NEW p, Placed(p) PROVE Hop(p) \in Hops
BY DEF Hop, Hops, Placed

LEMMA GatherTyped ==
    ASSUME NEW out \in Seq(Hops), NEW h \in Hops
    PROVE  Gather(out, h) \in Seq(Hops)
<1>1. CASE \E i \in DOMAIN out : out[i].cam = h.cam
  <2>1. \A i \in DOMAIN out : Onto(out[i], h) \in Hops
    BY OntoHop
  <2>2. Gather(out, h) =
          [i \in 1..Len(out) |-> IF out[i].cam = h.cam THEN Onto(out[i], h) ELSE out[i]]
    BY <1>1 DEF Gather
  <2>3. QED
    BY <2>1, <2>2
<1>2. CASE ~\E i \in DOMAIN out : out[i].cam = h.cam
  BY <1>2 DEF Gather
<1>3. QED
  BY <1>1, <1>2

LEMMA GatherTwice ==
    ASSUME NEW out \in Seq(Hops), NEW h \in Hops, NEW k \in Hops, h.cam = k.cam
    PROVE  Gather(Gather(out, h), k) = Gather(out, Onto(h, k))
<1> DEFINE g == Gather(out, h)
           o == Onto(h, k)
           n == Len(out)
<1>0. n \in Nat /\ DOMAIN out = 1..n
  OBVIOUS
<1>1. o \in Hops /\ o.cam = h.cam
  BY OntoHop
<1>2. CASE \E i \in DOMAIN out : out[i].cam = h.cam
  <2>1. /\ DOMAIN g = 1..n
        /\ \A i \in 1..n : g[i] = IF out[i].cam = h.cam THEN Onto(out[i], h) ELSE out[i]
    BY <1>2 DEF Gather
  <2>2. \A i \in 1..n : out[i] \in Hops
    OBVIOUS
  <2>3. \A i \in 1..n : g[i].cam = out[i].cam
    BY <2>1, <2>2, OntoHop
  <2>4. \E i \in DOMAIN g : g[i].cam = k.cam
    BY <1>2, <2>1, <2>3
  <2> HIDE DEF g
  <2>5. Gather(g, k) = [i \in 1..n |-> IF g[i].cam = k.cam THEN Onto(g[i], k) ELSE g[i]]
    BY <2>1, <2>4 DEF Gather
  <2>6. Gather(out, o) = [i \in 1..n |-> IF out[i].cam = o.cam THEN Onto(out[i], o) ELSE out[i]]
    <3> HIDE DEF o, n
    <3>1. \E i \in DOMAIN out : out[i].cam = o.cam
      BY <1>1, <1>2
    <3>2. QED
      BY <1>0, <3>1 DEF Gather
  <2>7. ASSUME NEW i \in 1..n
        PROVE  (IF g[i].cam = k.cam THEN Onto(g[i], k) ELSE g[i])
                  = (IF out[i].cam = o.cam THEN Onto(out[i], o) ELSE out[i])
    <3>1. CASE out[i].cam = h.cam
      BY <1>1, <2>1, <2>2, <2>3, <3>1, OntoTwice
    <3>2. CASE out[i].cam # h.cam
      BY <1>1, <2>1, <2>3, <3>2
    <3>3. QED
      BY <3>1, <3>2
  <2>8. Gather(g, k) = Gather(out, o)
    BY <2>5, <2>6, <2>7
  <2>9. QED
    BY <2>8 DEF g
<1>3. CASE ~\E i \in DOMAIN out : out[i].cam = h.cam
  <2>1. g = Append(out, h)
    BY <1>3 DEF Gather
  <2>2. Gather(out, o) = Append(out, o)
    BY <1>1, <1>3 DEF Gather
  <2>3. DOMAIN g = 1..(n + 1) /\ g[n + 1] = h /\ \A i \in 1..n : g[i] = out[i]
    BY <2>1
  <2> HIDE DEF g, o
  <2>4. \E i \in DOMAIN g : g[i].cam = k.cam
    BY <1>0, <2>3
  <2>5. Gather(g, k) = [i \in 1..(n + 1) |-> IF g[i].cam = k.cam THEN Onto(g[i], k) ELSE g[i]]
    BY <2>3, <2>4 DEF Gather
  <2>6. Append(out, o) = [i \in 1..(n + 1) |-> IF i = n + 1 THEN o ELSE out[i]]
    <3> DEFINE w == Append(out, o)
    <3>1. w \in Seq(Hops) /\ Len(w) = n + 1
      BY <1>0, <1>1 DEF o
    <3>2. \A i \in 1..(n + 1) : w[i] = IF i = n + 1 THEN o ELSE out[i]
      BY <1>0, <1>1 DEF o
    <3> HIDE DEF w
    <3>3. w = [i \in 1..(n + 1) |-> w[i]]
      BY <3>1
    <3>4. w = [i \in 1..(n + 1) |-> IF i = n + 1 THEN o ELSE out[i]]
      BY <3>2, <3>3
    <3>5. QED
      BY <3>4 DEF w
  <2>7. ASSUME NEW i \in 1..(n + 1)
        PROVE  (IF g[i].cam = k.cam THEN Onto(g[i], k) ELSE g[i])
                  = (IF i = n + 1 THEN o ELSE out[i])
    <3>1. CASE i = n + 1
      BY <2>3, <3>1 DEF o
    <3>2. CASE i # n + 1
      <4>1. i \in 1..n
        BY <1>0, <3>2
      <4>2. g[i] = out[i] /\ out[i].cam # k.cam
        BY <1>3, <2>3, <4>1
      <4>3. QED
        BY <3>2, <4>2
    <3>3. QED
      BY <3>1, <3>2
  <2>8. Gather(g, k) = Gather(out, o)
    BY <2>2, <2>5, <2>6, <2>7
  <2>9. QED
    BY <2>8 DEF g, o
<1>4. QED
  BY <1>2, <1>3

LEMMA ByCamOfMore ==
    ASSUME NEW hops \in Seq(Hops), NEW h
    PROVE  ByCam(Append(hops, h)) = Gather(ByCam(hops), h)
<1> DEFINE n == Len(hops)
           r == Append(hops, h)
<1>1. IsList(hops, n) /\ IsList(r, n + 1)
  BY DEF IsList
<1>2. r[n + 1] = h /\ \A i \in 1..n : hops[i] = r[i]
  OBVIOUS
<1> HIDE DEF n, r
<1>3. Loop(FALSE, r) = Turn(FALSE, Loop(FALSE, hops), h)
  BY <1>1, <1>2, LoopOfMore
<1>4. QED
  BY <1>3 DEF Loop, Turn, r

LEMMA Split ==
    ASSUME NEW hops \in Seq(Hops), hops # <<>>
    PROVE  /\ Front(hops) \in Seq(Hops) /\ Last(hops) \in Hops
           /\ Len(Front(hops)) = Len(hops) - 1
           /\ hops = Append(Front(hops), Last(hops))
<1>1. Len(hops) \in Nat \ {0} /\ DOMAIN hops = 1..Len(hops)
  OBVIOUS
<1>2. Front(hops) = [i \in 1..(Len(hops) - 1) |-> hops[i]]
  BY <1>1 DEF Front
<1>3. Front(hops) \in Seq(Hops) /\ Len(Front(hops)) = Len(hops) - 1
  BY <1>1, <1>2
<1>4. Last(hops) \in Hops
  BY <1>1 DEF Last
<1>5. hops = Append(Front(hops), Last(hops))
  BY <1>1, <1>2, <1>3, <1>4 DEF Last
<1>6. QED
  BY <1>3, <1>4, <1>5

LEMMA ByCamTyped ==
    ASSUME NEW hops \in Seq(Hops)
    PROVE  ByCam(hops) \in Seq(Hops)
<1> DEFINE T == {m \in Nat : \E q \in Seq(Hops) : Len(q) = m /\ ByCam(q) \notin Seq(Hops)}
<1>1. ASSUME T # {} PROVE FALSE
  <2>1. PICK m \in T : \A k \in T : m <= k
    <3>1. T \subseteq Nat
      OBVIOUS
    <3> HIDE DEF T
    <3>2. QED
      BY <1>1, <3>1, Least
  <2>2. PICK q \in Seq(Hops) : Len(q) = m /\ ByCam(q) \notin Seq(Hops)
    BY <2>1
  <2>3. q # <<>>
    <3>1. ByCam(<<>>) = <<>> /\ <<>> \in Seq(Hops)
      <4>1. Loop(FALSE, <<>>) = <<>>
        BY LoopOfNone
      <4>2. QED
        BY <4>1 DEF Loop
    <3>2. QED
      BY <2>2, <3>1
  <2>4. Front(q) \in Seq(Hops) /\ Last(q) \in Hops /\ Len(Front(q)) = m - 1 /\ q = Append(Front(q), Last(q))
    BY <2>2, <2>3, Split
  <2>5. m - 1 \in Nat /\ m - 1 \notin T
    BY <2>1, <2>2, <2>4
  <2>6. ByCam(Front(q)) \in Seq(Hops)
    BY <2>4, <2>5
  <2>7. ByCam(q) = Gather(ByCam(Front(q)), Last(q))
    BY <2>4, ByCamOfMore
  <2>8. QED
    BY <2>2, <2>4, <2>6, <2>7, GatherTyped
<1>2. Len(hops) \in Nat /\ Len(hops) \notin T
  BY <1>1
<1>3. QED
  BY <1>2

LEMMA StayIsGathered ==
    ASSUME NEW hops \in Seq(Hops), NEW p, Placed(p)
    PROVE  /\ Stay(hops, p) \in Seq(Hops)
           /\ ByCam(Stay(hops, p)) = Gather(ByCam(hops), Hop(p))
<1>0. Hop(p) \in Hops /\ Hop(p).cam = p.cam
  BY HopIsHop DEF Hop
<1>1. CASE hops # <<>> /\ Last(hops).cam = p.cam
  <2>1. /\ Front(hops) \in Seq(Hops) /\ Last(hops) \in Hops
        /\ hops = Append(Front(hops), Last(hops))
    BY <1>1, Split
  <2>2. Stay(hops, p) = Append(Front(hops), Onto(Last(hops), Hop(p)))
    BY <1>1 DEF Stay
  <2>3. Onto(Last(hops), Hop(p)) \in Hops
    BY <1>0, <2>1, OntoHop
  <2>4. ByCam(Stay(hops, p)) = Gather(ByCam(Front(hops)), Onto(Last(hops), Hop(p)))
    BY <2>1, <2>2, ByCamOfMore
  <2>5. ByCam(hops) = Gather(ByCam(Front(hops)), Last(hops))
    BY <2>1, ByCamOfMore
  <2>6. Gather(Gather(ByCam(Front(hops)), Last(hops)), Hop(p))
            = Gather(ByCam(Front(hops)), Onto(Last(hops), Hop(p)))
    BY <1>0, <1>1, <2>1, ByCamTyped, GatherTwice
  <2>7. QED
    BY <2>1, <2>2, <2>3, <2>4, <2>5, <2>6
<1>2. CASE ~(hops # <<>> /\ Last(hops).cam = p.cam)
  <2>1. Stay(hops, p) = Append(hops, Hop(p))
    BY <1>2 DEF Stay
  <2>2. QED
    BY <1>0, <2>1, ByCamOfMore
<1>3. QED
  BY <1>1, <1>2

-----------------------------------------------------------------------------
(***************************************************************************)
(* A route of points: one hop for each camera, with all that it saw.       *)
(***************************************************************************)
(* A hop counts the points of its camera and spans their times.            *)
SumsUp(h, P) ==
    /\ h.hits = Cardinality(Saw(h.cam, P))
    /\ \E p \in Saw(h.cam, P) : h.first = p.at
    /\ \E p \in Saw(h.cam, P) : h.at = p.at
    /\ \A p \in Saw(h.cam, P) : h.first <= p.at /\ p.at <= h.at

Shows(out, P) ==
    /\ out \in Seq(Hops)
    /\ {out[i].cam : i \in DOMAIN out} = {p.cam : p \in P}
    /\ \A i, j \in DOMAIN out : i < j => out[i].cam # out[j].cam /\ out[i].first <= out[j].first
    /\ \A i \in DOMAIN out : SumsUp(out[i], P)

LEMMA OthersStay ==
    ASSUME NEW P, NEW p, NEW h, h.cam # p.cam
    PROVE  SumsUp(h, P \cup {p}) <=> SumsUp(h, P)
<1>1. Saw(h.cam, P \cup {p}) = Saw(h.cam, P)
  BY DEF Saw
<1>2. QED
  BY <1>1 DEF SumsUp

LEMMA SumsNext ==
    ASSUME NEW P, IsFiniteSet(P), NEW p, Placed(p), p \notin P,
           \A q \in P : q.at \in Int /\ q.at <= p.at,
           NEW h \in Hops, h.cam = p.cam, SumsUp(h, P)
    PROVE  SumsUp(Onto(h, Hop(p)), P \cup {p})
<1> DEFINE c == p.cam
           o == Onto(h, Hop(p))
<1>1. Saw(c, P \cup {p}) = Saw(c, P) \cup {p} /\ p \notin Saw(c, P) /\ Saw(c, P) \subseteq P
  BY DEF Saw
<1>2. Cardinality(Saw(c, P \cup {p})) = Cardinality(Saw(c, P)) + 1
  BY <1>1, FS_Subset, FS_AddElement
<1>3. o.cam = c /\ o.at = p.at /\ o.hits = 1 + h.hits /\ o.first = h.first
  BY HopIsHop, OntoHop DEF Hop
<1> HIDE DEF o
<1>4. h.hits = Cardinality(Saw(c, P)) /\ h.hits \in Int /\ h.first \in Int /\ p.at \in Int
  BY DEF SumsUp, Hops, Placed
<1>5. PICK f \in Saw(c, P) : h.first = f.at
  BY DEF SumsUp
<1>6. \A q \in Saw(c, P) : h.first <= q.at /\ q.at \in Int /\ q.at <= p.at
  BY <1>1 DEF SumsUp
<1>7. h.first <= p.at
  BY <1>4, <1>5, <1>6
<1>8. o.hits = Cardinality(Saw(o.cam, P \cup {p}))
  BY <1>2, <1>3, <1>4
<1>9. \A q \in Saw(o.cam, P \cup {p}) : o.first <= q.at /\ q.at <= o.at
  BY <1>1, <1>3, <1>4, <1>6, <1>7
<1>10. (\E q \in Saw(o.cam, P \cup {p}) : o.first = q.at) /\ (\E q \in Saw(o.cam, P \cup {p}) : o.at = q.at)
  BY <1>1, <1>3, <1>5
<1>11. SumsUp(o, P \cup {p})
  BY <1>8, <1>9, <1>10 DEF SumsUp
<1>12. QED
  BY <1>11 DEF o

LEMMA SumsFirst ==
    ASSUME NEW P, NEW p, Placed(p), \A q \in P : q.cam # p.cam
    PROVE  SumsUp(Hop(p), P \cup {p})
<1>1. Saw(p.cam, P \cup {p}) = {p}
  BY DEF Saw
<1>2. Hop(p).cam = p.cam /\ Hop(p).at = p.at /\ Hop(p).first = p.at /\ Hop(p).hits = 1
  BY DEF Hop
<1>3. Cardinality({p}) = 1 /\ p.at <= p.at
  BY FS_Singleton DEF Placed
<1>4. QED
  BY <1>1, <1>2, <1>3 DEF SumsUp

(* The next point in the order of time is gathered into the route.         *)
LEMMA GatherShows ==
    ASSUME NEW P, IsFiniteSet(P), NEW p, Placed(p), p \notin P,
           \A q \in P : q.at \in Int /\ q.at <= p.at,
           NEW out, Shows(out, P)
    PROVE  Shows(Gather(out, Hop(p)), P \cup {p})
<1> DEFINE h == Hop(p)
           g == Gather(out, h)
           n == Len(out)
<1>0. h \in Hops /\ h.cam = p.cam /\ h.first = p.at
  BY HopIsHop DEF Hop
<1>1. n \in Nat /\ DOMAIN out = 1..n /\ out \in Seq(Hops) /\ \A i \in 1..n : out[i] \in Hops
  BY DEF Shows
<1>2. g \in Seq(Hops)
  BY <1>0, <1>1, GatherTyped
<1>3. {q.cam : q \in P \cup {p}} = {q.cam : q \in P} \cup {p.cam}
  OBVIOUS
<1>4. CASE \E i \in DOMAIN out : out[i].cam = h.cam
  <2>1. DOMAIN g = 1..n
    BY <1>1, <1>4 DEF Gather
  <2>2. \A i \in 1..n : g[i] = IF out[i].cam = h.cam THEN Onto(out[i], h) ELSE out[i]
    BY <1>1, <1>4 DEF Gather
  <2> HIDE DEF g
  <2>3. \A i \in 1..n : g[i].cam = out[i].cam /\ g[i].first = out[i].first
    BY <1>0, <1>1, <2>2, OntoHop
  <2>4. {g[i].cam : i \in DOMAIN g} = {out[i].cam : i \in DOMAIN out}
    BY <1>1, <2>1, <2>3
  <2>5. p.cam \in {q.cam : q \in P}
    BY <1>0, <1>4 DEF Shows
  <2>6. {g[i].cam : i \in DOMAIN g} = {q.cam : q \in P \cup {p}}
    BY <1>3, <2>4, <2>5 DEF Shows
  <2>7. \A i, j \in DOMAIN g : i < j => g[i].cam # g[j].cam /\ g[i].first <= g[j].first
    BY <1>1, <2>1, <2>3 DEF Shows
  <2>8. ASSUME NEW i \in DOMAIN g PROVE SumsUp(g[i], P \cup {p})
    <3>1. i \in 1..n /\ SumsUp(out[i], P)
      BY <1>1, <2>1 DEF Shows
    <3>2. CASE out[i].cam = p.cam
      BY <1>0, <1>1, <2>2, <3>1, <3>2, SumsNext
    <3>3. CASE out[i].cam # p.cam
      BY <1>0, <2>2, <3>1, <3>3, OthersStay
    <3>4. QED
      BY <3>2, <3>3
  <2>9. Shows(g, P \cup {p})
    BY <1>2, <2>6, <2>7, <2>8 DEF Shows, g
  <2>10. QED
    BY <2>9 DEF g
<1>5. CASE ~\E i \in DOMAIN out : out[i].cam = h.cam
  <2>1. g = Append(out, h)
    BY <1>5 DEF Gather
  <2>2. DOMAIN g = 1..(n + 1) /\ g[n + 1] = h /\ \A i \in 1..n : g[i] = out[i]
    BY <1>1, <2>1
  <2> HIDE DEF g
  <2>3. {g[i].cam : i \in DOMAIN g} = {out[i].cam : i \in DOMAIN out} \cup {h.cam}
    <3>1. 1..(n + 1) = (1..n) \cup {n + 1}
      BY <1>1
    <3>2. QED
      BY <1>1, <2>2, <3>1
  <2>4. {g[i].cam : i \in DOMAIN g} = {q.cam : q \in P \cup {p}}
    BY <1>0, <1>3, <2>3 DEF Shows
  <2>5. ASSUME NEW i \in DOMAIN g, NEW j \in DOMAIN g, i < j
        PROVE  g[i].cam # g[j].cam /\ g[i].first <= g[j].first
    <3>1. i \in 1..n /\ g[i] = out[i]
      BY <1>1, <2>2, <2>5
    <3>2. CASE j \in 1..n
      BY <1>1, <2>2, <2>5, <3>1, <3>2 DEF Shows
    <3>3. CASE j = n + 1
      <4>1. PICK q \in Saw(out[i].cam, P) : out[i].first = q.at
        BY <1>1, <3>1 DEF Shows, SumsUp
      <4>2. out[i].first <= h.first
        BY <1>0, <4>1 DEF Saw
      <4>3. QED
        BY <1>1, <1>5, <2>2, <3>1, <3>3, <4>2
    <3>4. QED
      BY <1>1, <2>2, <3>2, <3>3
  <2>6. ASSUME NEW i \in DOMAIN g PROVE SumsUp(g[i], P \cup {p})
    <3>1. CASE i \in 1..n
      BY <1>0, <1>1, <1>5, <2>2, <3>1, OthersStay DEF Shows
    <3>2. CASE i = n + 1
      <4>1. \A q \in P : q.cam # p.cam
        <5>1. p.cam \notin {out[k].cam : k \in DOMAIN out}
          BY <1>0, <1>5
        <5>2. QED
          BY <5>1 DEF Shows
      <4>2. QED
        BY <2>2, <3>2, <4>1, SumsFirst
    <3>3. QED
      BY <1>1, <2>2, <3>1, <3>2
  <2>7. Shows(g, P \cup {p})
    BY <1>2, <2>4, <2>5, <2>6 DEF Shows, g
  <2>8. QED
    BY <2>7 DEF g
<1>6. QED
  BY <1>4, <1>5

(* The route of points shows them.                                         *)
LEMMA RouteShows ==
    ASSUME NEW S, Stamped(S), \A p \in S : Placed(p)
    PROVE  Shows(Decorated(S), S)
<1> DEFINE n == Cardinality(S)
           seq == InOrder(S)
           Pre(k) == [i \in 1..k |-> seq[i]]
           First(k) == {seq[i] : i \in 1..k}
           Good(k) == Dwells(Pre(k)) \in Seq(Hops) /\ Shows(ByCam(Dwells(Pre(k))), First(k))
           T == {k \in 0..n : ~Good(k)}
<1>1. /\ n \in Nat /\ seq \in [1..n -> S]
      /\ \A p \in S : \E i \in 1..n : seq[i] = p
      /\ \A i, j \in 1..n : i < j => Before(seq[i], seq[j])
  BY Ordered
<1>2. \A p \in S : p.at \in Int /\ p.n \in Int
  BY DEF Stamped
<1> HIDE DEF n, seq
<1>3. Good(0)
  <2>1. First(0) = {} /\ Pre(0) = <<>>
    OBVIOUS
  <2>2. Loop(TRUE, <<>>) = <<>> /\ Loop(FALSE, <<>>) = <<>>
    BY LoopOfNone
  <2>3. Dwells(<<>>) = <<>> /\ ByCam(<<>>) = <<>>
    BY <2>2 DEF Loop
  <2>4. Shows(<<>>, {})
    <3>1. <<>> \in Seq(Hops) /\ DOMAIN <<>> = {}
      OBVIOUS
    <3>2. QED
      BY <3>1 DEF Shows
  <2> HIDE DEF First, Pre
  <2>5. Dwells(Pre(0)) = <<>> /\ ByCam(Dwells(Pre(0))) = <<>> /\ <<>> \in Seq(Hops)
    BY <2>1, <2>3
  <2>6. QED
    BY <2>1, <2>4, <2>5
<1>4. ASSUME NEW k \in 0..(n - 1), Good(k) PROVE Good(k + 1)
  <2> DEFINE p == seq[k + 1]
  <2>1. k + 1 \in 1..n /\ p \in S /\ Placed(p) /\ k \in Nat
    BY <1>1
  <2>2. Pre(k + 1)[k + 1] = p /\ \A i \in 1..k : Pre(k)[i] = Pre(k + 1)[i]
    BY <2>1
  <2>3. IsList(Pre(k), k) /\ IsList(Pre(k + 1), k + 1)
    BY <2>1 DEF IsList
  <2>4. First(k + 1) = First(k) \cup {p}
    <3>1. 1..(k + 1) = (1..k) \cup {k + 1}
      BY <2>1
    <3>2. QED
      BY <3>1
  <2>5. p \notin First(k) /\ First(k) \subseteq S /\ \A q \in First(k) : q.at \in Int /\ q.at <= p.at
    <3>1. ASSUME NEW i \in 1..k
          PROVE  seq[i] \in S /\ seq[i] # p /\ seq[i].at \in Int /\ seq[i].at <= p.at
      <4>1. i \in 1..n /\ i < k + 1
        BY <1>1, <2>1
      <4>2. Before(seq[i], p) /\ seq[i] \in S
        BY <1>1, <2>1, <4>1
      <4>3. QED
        BY <1>2, <2>1, <4>2 DEF Before
    <3>2. QED
      BY <3>1
  <2>6. IsFiniteSet(First(k))
    BY <2>5, FS_Subset DEF Stamped
  <2> HIDE DEF Pre, First, p
  <2>7. Dwells(Pre(k + 1)) = Stay(Dwells(Pre(k)), p)
    <3>1. Loop(TRUE, Pre(k + 1)) = Turn(TRUE, Loop(TRUE, Pre(k)), p)
      BY <2>2, <2>3, LoopOfMore
    <3>2. QED
      BY <3>1 DEF Loop, Turn
  <2>8. /\ Dwells(Pre(k + 1)) \in Seq(Hops)
        /\ ByCam(Dwells(Pre(k + 1))) = Gather(ByCam(Dwells(Pre(k))), Hop(p))
    BY <1>4, <2>1, <2>7, StayIsGathered
  <2>9. Shows(Gather(ByCam(Dwells(Pre(k))), Hop(p)), First(k) \cup {p})
    BY <1>4, <2>1, <2>5, <2>6, GatherShows
  <2>10. QED
    BY <2>4, <2>8, <2>9
<1>5. ASSUME T # {} PROVE FALSE
  <2> HIDE DEF Good
  <2>1. PICK k \in T : \A m \in T : k <= m
    <3>1. T \subseteq Nat
      BY <1>1
    <3> HIDE DEF T
    <3>2. QED
      BY <1>5, <3>1, Least
  <2>2. k # 0 /\ k \in 1..n
    BY <1>1, <1>3, <2>1
  <2>3. k - 1 \in 0..(n - 1) /\ k - 1 \notin T
    BY <1>1, <2>1, <2>2
  <2>4. Good(k - 1) /\ (k - 1) + 1 = k
    BY <1>1, <2>2, <2>3
  <2>5. Good(k)
    BY <1>4, <2>3, <2>4
  <2>6. QED
    BY <2>1, <2>5
<1>6. Good(n)
  <2> HIDE DEF Good
  <2>1. n \in 0..n /\ T = {}
    BY <1>1, <1>5
  <2>2. QED
    BY <2>1
<1>7. Pre(n) = seq /\ First(n) = S
  BY <1>1
<1>8. QED
  BY <1>6, <1>7 DEF Decorated, seq

(* ... and what it shows is what RouteComplete asks for.                   *)
LEMMA SumsAll ==
    ASSUME NEW P, \A p \in P : p.at \in Int, NEW h, SumsUp(h, P)
    PROVE  /\ h.hits = Cardinality(Saw(h.cam, P))
           /\ h.first = Min({p.at : p \in Saw(h.cam, P)})
           /\ h.at = Max({p.at : p \in Saw(h.cam, P)})
<1> DEFINE A == {p.at : p \in Saw(h.cam, P)}
<1>1. A \subseteq Int /\ h.first \in A /\ h.at \in A /\ \A x \in A : h.first <= x /\ x <= h.at
  BY DEF SumsUp, Saw
<1> HIDE DEF A
<1>2. Min(A) \in A /\ \A x \in A : Min(A) <= x
  BY <1>1 DEF Min
<1>3. Max(A) \in A /\ \A x \in A : Max(A) >= x
  <2>1. \A x \in A : h.at >= x
    BY <1>1
  <2>2. QED
    BY <1>1, <2>1 DEF Max
<1>4. h.first = Min(A) /\ h.at = Max(A)
  <2> DEFINE f == h.first
             l == h.at
             i == Min(A)
             a == Max(A)
  <2>1. f \in Int /\ l \in Int /\ i \in Int /\ a \in Int
    BY <1>1, <1>2, <1>3
  <2>2. f <= i /\ i <= f /\ a <= l /\ a >= l
    BY <1>1, <1>2, <1>3
  <2> HIDE DEF f, l, i, a
  <2>3. f = i /\ l = a
    BY <2>1, <2>2
  <2>4. QED
    BY <2>3 DEF f, l, i, a
<1>5. QED
  BY <1>4 DEF A, SumsUp

-----------------------------------------------------------------------------
(***************************************************************************)
(* The numbers that make the order of the points a total one: an ingest    *)
(* has one of its own, and so has the point that it commits.               *)
(***************************************************************************)
Active(k) == slot[k].pc \in {"dwell", "point", "no point"}

OwnNumbers ==
    /\ \A k \in Slots : Active(k) => slot[k].n \in 0..(count - 1)
    /\ \A j, k \in Slots : Active(j) /\ Active(k) /\ slot[j].n = slot[k].n => j = k

OwnPoints ==
    /\ IsFiniteSet(points)
    /\ \A p \in points : Placed(p) /\ p.n \in 0..(count - 1)
    /\ \A p, q \in points : p.n = q.n => p = q
    /\ \A p \in points, k \in Slots : Active(k) => slot[k].n # p.n

Numbered == count \in Nat /\ OwnNumbers /\ OwnPoints

LEMMA ResolveNumbers ==
    ASSUME TrailInv, Numbered, NEW k \in Slots, NEW s \in Sightings, Resolve(k, s)
    PROVE  Numbered'
<1>1. count \in Nat /\ count' = count + 1 /\ points' = points
  BY DEF Resolve, Numbered
<1>2. \A j \in Slots \ {k} : slot'[j] = slot[j]
  BY DEF Resolve, TrailInv
<1>3. Active(k)' => slot'[k].n = count
  <2>1. CASE slot' = slot
    BY <2>1 DEF Resolve, Active
  <2>2. CASE slot' # slot
    <3>1. PICK gid : slot' = [slot EXCEPT ![k] = [pc |-> "dwell", s |-> s, gid |-> gid, n |-> count]]
      BY <2>2 DEF Resolve
    <3>2. slot'[k] = [pc |-> "dwell", s |-> s, gid |-> gid, n |-> count]
      BY <3>1 DEF TrailInv
    <3>3. QED
      BY <3>2
  <2>3. QED
    BY <2>1, <2>2
<1>4. \A j \in Slots : Active(j)' => \/ j = k /\ slot'[j].n = count
                                     \/ j # k /\ Active(j) /\ slot'[j].n = slot[j].n
  BY <1>2, <1>3 DEF Active
<1>5. OwnNumbers'
  <2>1. ASSUME NEW j \in Slots, Active(j)' PROVE slot'[j].n \in 0..(count' - 1)
    BY <1>1, <1>4, <2>1 DEF Numbered, OwnNumbers
  <2>2. ASSUME NEW i \in Slots, NEW j \in Slots, Active(i)', Active(j)', slot'[i].n = slot'[j].n
        PROVE  i = j
    BY <1>1, <1>4, <2>2 DEF Numbered, OwnNumbers
  <2>3. QED
    BY <2>1, <2>2 DEF OwnNumbers, Active
<1>6. OwnPoints'
  <2>1. \A p \in points : p.n \in 0..(count' - 1) /\ p.n # count
    BY <1>1 DEF Numbered, OwnPoints
  <2>2. ASSUME NEW p \in points, NEW j \in Slots, Active(j)' PROVE slot'[j].n # p.n
    BY <1>4, <2>1, <2>2 DEF Numbered, OwnPoints
  <2>3. QED
    BY <1>1, <2>1, <2>2 DEF Numbered, OwnPoints, Active, Placed
<1>7. QED
  BY <1>1, <1>5, <1>6 DEF Numbered

LEMMA CheckDwellNumbers ==
    ASSUME TrailInv, Numbered, NEW k \in Slots, CheckDwell(k)
    PROVE  Numbered'
<1>1. count' = count /\ points' = points
  BY DEF CheckDwell
<1>2. PICK to : slot' = [slot EXCEPT ![k] = [slot[k] EXCEPT !.pc = to]]
  BY DEF CheckDwell
<1>3. \A j \in Slots \ {k} : slot'[j] = slot[j]
  BY <1>2 DEF TrailInv
<1>4. Active(k) /\ slot'[k].n = slot[k].n
  <2>1. slot[k] = [pc |-> slot[k].pc, s |-> slot[k].s, gid |-> slot[k].gid, n |-> slot[k].n]
    BY DEF TrailInv, Working, CheckDwell
  <2>2. slot'[k] = [slot[k] EXCEPT !.pc = to]
    BY <1>2 DEF TrailInv
  <2>3. QED
    BY <2>1, <2>2 DEF Active, CheckDwell
<1>5. \A j \in Slots : Active(j)' => Active(j) /\ slot'[j].n = slot[j].n
  BY <1>3, <1>4 DEF Active
<1>6. QED
  BY <1>1, <1>5 DEF Numbered, OwnNumbers, OwnPoints, Placed

LEMMA CommitNumbers ==
    ASSUME TrailInv, Numbered, NEW k \in Slots, Commit(k)
    PROVE  Numbered'
<1> DEFINE r == [n |-> slot[k].n, cam |-> slot[k].s.cam, at |-> slot[k].s.at,
                 kind |-> slot[k].s.kind, gid |-> slot[k].gid]
<1>1. count' = count /\ points' \in {points, points \cup {r}}
  BY DEF Commit
<1>2. /\ \A j \in Slots \ {k} : slot'[j] = slot[j]
      /\ ~Active(k)'
  BY DEF Commit, TrailInv, Active, FreeSlot
<1>3. Active(k) /\ slot[k].s \in Sightings
  BY DEF Commit, Active, TrailInv, Working
<1>4. Placed(r) /\ r.n = slot[k].n
  BY <1>3, TimesAssumption DEF Placed, Sightings
<1> HIDE DEF r
<1>5. r.n \in 0..(count - 1) /\ \A p \in points : p.n # r.n
  BY <1>3, <1>4 DEF Numbered, OwnNumbers, OwnPoints
<1>6. \A j \in Slots : Active(j)' => j # k /\ Active(j) /\ slot'[j].n = slot[j].n
  BY <1>2 DEF Active
<1>7. OwnNumbers'
  BY <1>1, <1>6 DEF Numbered, OwnNumbers
<1>8. OwnPoints'
  <2>1. IsFiniteSet(points')
    BY <1>1, FS_AddElement DEF Numbered, OwnPoints
  <2>2. \A p \in points' : Placed(p) /\ p.n \in 0..(count' - 1)
    BY <1>1, <1>4, <1>5 DEF Numbered, OwnPoints
  <2>3. \A p, q \in points' : p.n = q.n => p = q
    BY <1>1, <1>5 DEF Numbered, OwnPoints
  <2>4. ASSUME NEW p \in points', NEW j \in Slots, Active(j)' PROVE slot'[j].n # p.n
    <3>1. j # k /\ Active(j) /\ slot'[j].n = slot[j].n
      BY <1>6, <2>4
    <3>2. CASE p \in points
      BY <3>1, <3>2 DEF Numbered, OwnPoints
    <3>3. CASE p = r
      BY <1>3, <1>4, <3>1, <3>3 DEF Numbered, OwnNumbers
    <3>4. QED
      BY <1>1, <3>2, <3>3
  <2>5. QED
    BY <2>1, <2>2, <2>3, <2>4 DEF OwnPoints, Active, Placed
<1>9. QED
  BY <1>1, <1>7, <1>8 DEF Numbered

LEMMA NumberedStep == TrailInv /\ Numbered /\ [TrailNext]_trailVars => Numbered'
<1> SUFFICES ASSUME TrailInv, Numbered, [TrailNext]_trailVars PROVE Numbered'
  OBVIOUS
<1>1. ASSUME NEW k \in Slots, NEW s \in Sightings, Resolve(k, s) PROVE Numbered'
  BY <1>1, ResolveNumbers
<1>2. ASSUME NEW k \in Slots, CheckDwell(k) PROVE Numbered'
  BY <1>2, CheckDwellNumbers
<1>3. ASSUME NEW k \in Slots, Commit(k) PROVE Numbered'
  BY <1>3, CommitNumbers
<1>4. CASE UNCHANGED trailVars
  BY <1>4 DEF trailVars, Numbered, OwnNumbers, OwnPoints, Active, Placed
<1>5. QED
  BY <1>1, <1>2, <1>3, <1>4 DEF TrailNext

(* What is numbered has a complete route.                                  *)
LEMMA NumberedRoute == Numbered => RouteComplete
<1> SUFFICES ASSUME Numbered, NEW scope \in {Cams, Mine}
             PROVE  IsRouteOf(PlateRoute(scope), Visible(PlatePoints, scope))
  BY DEF RouteComplete
<1> DEFINE S == Visible(PlatePoints, scope)
           route == PlateRoute(scope)
<1>1. S \subseteq points
  BY DEF Visible, PlatePoints
<1>2. IsFiniteSet(S)
  BY <1>1, FS_Subset DEF Numbered, OwnPoints
<1>3. Stamped(S) /\ \A p \in S : Placed(p) /\ p.at \in Int
  BY <1>1, <1>2 DEF Stamped, Placed, Numbered, OwnPoints
<1>4. Shows(route, S)
  BY <1>3, RouteShows DEF PlateRoute
<1>5. ASSUME NEW i \in DOMAIN route
      PROVE  /\ route[i].hits = Cardinality(Saw(route[i].cam, S))
             /\ route[i].first = Min({p.at : p \in Saw(route[i].cam, S)})
             /\ route[i].at = Max({p.at : p \in Saw(route[i].cam, S)})
  BY <1>3, <1>4, SumsAll DEF Shows
<1> HIDE DEF S, route
<1>6. IsRouteOf(route, S)
  BY <1>4, <1>5 DEF Shows, IsRouteOf
<1>7. QED
  BY <1>6 DEF S, route

(* However ingests overlap and whatever the order of the times, a route    *)
(* has one hop for each camera that saw the plate, in the order in which   *)
(* they first did, with all its points counted and their span of time, and *)
(* a department's route only those of its own cameras.                     *)
THEOREM RouteIsComplete == TrailSpec => []RouteComplete
<1>1. TrailInit => Numbered
  <2>1. TrailInit => count = 0 /\ points = {} /\ \A k \in Slots : ~Active(k)
    <3>1. TrailInit => count = 0 /\ points = {} /\ \A k \in Slots : slot[k] = FreeSlot
      BY DEF TrailInit
    <3>2. FreeSlot.pc = "idle"
      BY DEF FreeSlot
    <3>3. QED
      BY <3>1, <3>2 DEF Active
  <2>2. QED
    BY <2>1, FS_EmptySet DEF Numbered, OwnNumbers, OwnPoints
<1>2. TrailInit => TrailInv
  BY TrailStarts
<1>3. TrailInv /\ [TrailNext]_trailVars => TrailInv'
  BY TrailInvStep
<1>4. QED
  BY <1>1, <1>2, <1>3, NumberedStep, NumberedRoute, PTL DEF TrailSpec

-----------------------------------------------------------------------------
(***************************************************************************)
(* NeverForeign of LiveHub, for all users, departments, sockets and        *)
(* alerts.  It is not inductive: what a socket is sent depends on the      *)
(* scope the hub holds for it, and that on what was read of its user       *)
(* before two awaits.  The invariant follows the scope of a user who never *)
(* held a grant from the read to the hub (Confined) and the alert of the   *)
(* broadcast under way (OnlyOwn).                                          *)
(***************************************************************************)
(* The department of a message: none, as it stands in the envelope, or     *)
(* that of the alert.                                                      *)
LEMMA EnvelopeDepartment ==
  ASSUME NEW a \in Alert
  PROVE  MessageDepartment(Envelope(a)) \in {None, DeptOf[a]}
BY DEF MessageDepartment, Envelope

Relays == [alert : Alert \cup {None}, todo : SUBSET Client, dead : SUBSET Client]

LEMMA Constants ==
  /\ None \notin Department /\ None \notin Grant /\ None \notin Alert
  /\ Home \in [User -> Department \cup {None}] /\ Owner \in [Client -> User]
  /\ DeptOf \in [Alert -> Department]
  /\ Statewide \notin Department /\ Absent \notin Department /\ Statewide # Absent
  /\ Idle \in Relays
BY HubAssumption DEF Statewide, Absent, Idle, Relays

(* A socket about to be accepted has its scope.                            *)
HasScope == \A c \in Client : pc[c] = "accept" => principal[c] \in Scope

(* A broadcast that has sockets to send to has an alert.                   *)
HasAlert == relay # Dead /\ relay.todo # {} => relay.alert \in Alert

Typed == TypeOK /\ HasScope /\ HasAlert

LEMMA InitTyped == Init => Typed
BY Constants DEF Init, Typed, TypeOK, HasScope, HasAlert, Scope, Relays, Idle

LEMMA EndedTyped ==
  ASSUME Typed, NEW c \in Client, Ended(c)
  PROVE  /\ pc' \in [Client -> {"none", "user", "grant", "accept", "open", "reuser", "regrant"}]
         /\ principal' \in [Client -> Scope \cup {None}]
         /\ clients' \in [Client -> Scope \cup {Absent}]
         /\ HasScope'
BY DEF Typed, TypeOK, HasScope, Ended

LEMMA ScopedTyped ==
  ASSUME Typed, NEW c \in Client, NEW scope \in Scope, Scoped(c, scope)
  PROVE  /\ pc' \in [Client -> {"none", "user", "grant", "accept", "open", "reuser", "regrant"}]
         /\ principal' \in [Client -> Scope \cup {None}]
         /\ clients' \in [Client -> Scope \cup {Absent}]
         /\ HasScope'
BY DEF Typed, TypeOK, HasScope, Scoped

(* ReadGrant asks for home-scoped users only. *)
Reading == \A c \in Client : pc[c] \in {"grant", "regrant"} => Home[Owner[c]] # None

LEMMA ReadingStep == Typed /\ Reading /\ [Next]_vars => Reading'
<1> SUFFICES ASSUME Typed, Reading, [Next]_vars PROVE Reading'
  OBVIOUS
<1>p. pc \in [Client -> {"none", "user", "grant", "accept", "open", "reuser", "regrant"}]
  BY DEF Typed, TypeOK
<1>1. ASSUME NEW c \in Client, ReadUser(c) PROVE Reading'
  BY <1>1, <1>p DEF ReadUser, Ended, Scoped, Reading
<1>2. ASSUME NEW c \in Client, ReadGrant(c) \/ ReadGrantFails(c) \/ Accept(c) \/ Disconnect(c)
      PROVE  Reading'
  BY <1>2, <1>p DEF ReadGrant, ReadGrantFails, Accept, Disconnect, Ended, Scoped, Reading
<1>3. ASSUME NEW c \in Client, Connect(c) \/ Silence(c) PROVE Reading'
  BY <1>3, <1>p DEF Connect, Silence, Reading
<1>4. CASE pc' = pc
  BY <1>4 DEF Reading
<1>5. QED
  BY <1>1, <1>2, <1>3, <1>4
     DEF Next, Serve, vars, sockets, Drop, Send, Publish, Take, Sent, RelayDies, SignOut, SignIn,
         GrantBreakGlass, AuditBreakGlass, AuditFails, RevokeBreakGlass, GrantExpires

LEMMA TypedStep == Typed /\ Reading /\ [Next]_vars => Typed'
<1> SUFFICES ASSUME Typed, Reading, [Next]_vars PROVE Typed'
  OBVIOUS
<1> USE Constants
<1>1. ASSUME NEW c \in Client, Connect(c) PROVE Typed'
  BY <1>1 DEF Connect, Typed, TypeOK, HasScope, HasAlert, access
<1>2. ASSUME NEW c \in Client, ReadUser(c) PROVE Typed'
  <2>1. UNCHANGED <<access, peer, messages>>
    BY <1>2 DEF ReadUser
  <2>2. CASE Ended(c)
    BY <2>1, <2>2, EndedTyped DEF Typed, TypeOK, HasAlert, access, messages
  <2>3. CASE Scoped(c, Statewide)
    <3>1. Statewide \in Scope
      BY DEF Scope
    <3>2. QED
      BY <2>1, <2>3, <3>1, ScopedTyped DEF Typed, TypeOK, HasAlert, access, messages
  <2>4. CASE /\ pc' = [pc EXCEPT ![c] = IF @ = "user" THEN "grant" ELSE "regrant"]
             /\ UNCHANGED <<principal, clients>>
    BY <2>1, <2>4 DEF Typed, TypeOK, HasScope, HasAlert, access, messages
  <2>5. QED
    BY <1>2, <2>2, <2>3, <2>4 DEF ReadUser
<1>3. ASSUME NEW c \in Client, ReadGrant(c) PROVE Typed'
  <2>1. DepartmentScope(Owner[c]) \in Scope
    BY <1>3 DEF ReadGrant, Reading, DepartmentScope, Scope
  <2>2. UNCHANGED <<access, peer, messages>> /\ Scoped(c, DepartmentScope(Owner[c]))
    BY <1>3 DEF ReadGrant
  <2>3. QED
    BY <2>1, <2>2, ScopedTyped DEF Typed, TypeOK, HasAlert, access, messages
<1>4. ASSUME NEW c \in Client, ReadGrantFails(c) \/ Disconnect(c) PROVE Typed'
  <2>1. UNCHANGED <<access, peer, messages>> /\ Ended(c)
    BY <1>4 DEF ReadGrantFails, Disconnect
  <2>2. QED
    BY <2>1, EndedTyped DEF Typed, TypeOK, HasAlert, access, messages
<1>5. ASSUME NEW c \in Client, Accept(c) PROVE Typed'
  <2>1. CASE peer[c]
    <3>1. /\ pc' = [pc EXCEPT ![c] = "open"]
          /\ clients' = [clients EXCEPT ![c] = principal[c]]
          /\ principal' = [principal EXCEPT ![c] = None]
          /\ principal[c] \in Scope
      BY <1>5, <2>1 DEF Accept, Typed, HasScope
    <3>2. QED
      BY <1>5, <3>1 DEF Accept, Typed, TypeOK, HasScope, HasAlert, access, messages
  <2>2. CASE ~peer[c]
    BY <1>5, <2>2, EndedTyped DEF Accept, Typed, TypeOK, HasAlert, access, messages
  <2>3. QED
    BY <2>1, <2>2
<1>6. ASSUME NEW c \in Client, Silence(c) PROVE Typed'
  BY <1>6 DEF Silence, Typed, TypeOK, HasScope, HasAlert, access, messages
<1>7. ASSUME NEW c \in Client, Drop(c) PROVE Typed'
  BY <1>7 DEF Drop, Typed, TypeOK, HasScope, HasAlert, access, messages
<1>8. ASSUME NEW c \in Client, Send(c) PROVE Typed'
  <2>1. relay \in Relays /\ relay # Dead /\ c \in relay.todo /\ relay.alert \in Alert
    BY <1>8 DEF Send, Typed, TypeOK, HasAlert, Relays
  <2>2. UNCHANGED <<access, sockets, clients, queue>>
    BY <1>8 DEF Send
  <2>3. CASE /\ inbox' = [inbox EXCEPT ![c] = @ \cup {relay.alert}]
             /\ relay' = [relay EXCEPT !.todo = @ \ {c}]
    <3>1. relay' \in Relays /\ relay'.alert = relay.alert
      BY <2>1, <2>3 DEF Relays
    <3>2. inbox' \in [Client -> SUBSET Alert]
      BY <2>1, <2>3 DEF Typed, TypeOK
    <3>3. QED
      BY <2>1, <2>2, <3>1, <3>2 DEF Typed, TypeOK, HasScope, HasAlert, access, sockets, Relays
  <2>4. CASE /\ relay' = [relay EXCEPT !.todo = @ \ {c}, !.dead = @ \cup {c}]
             /\ UNCHANGED inbox
    <3>1. relay' \in Relays /\ relay'.alert = relay.alert
      BY <2>1, <2>4 DEF Relays
    <3>2. QED
      BY <2>1, <2>2, <2>4, <3>1 DEF Typed, TypeOK, HasScope, HasAlert, access, sockets, Relays
  <2>5. QED
    BY <1>8, <2>3, <2>4 DEF Send
<1>9. ASSUME NEW a \in Alert, Publish(a) PROVE Typed'
  <2>1. queue' \in Seq(Alert)
    BY <1>9, AppendProperties DEF Publish, Typed, TypeOK
  <2>2. QED
    BY <1>9, <2>1 DEF Publish, Typed, TypeOK, HasScope, HasAlert, access, sockets
<1>10. CASE Take
  <2>1. Head(queue) \in Alert /\ queue' \in Seq(Alert)
    BY <1>10, HeadTailProperties DEF Take, Typed, TypeOK
  <2>2. relay' \in Relays /\ relay'.alert \in Alert
    BY <1>10, <2>1 DEF Take, Relays
  <2>3. QED
    BY <1>10, <2>1, <2>2 DEF Take, Typed, TypeOK, HasScope, HasAlert, access, sockets, Relays
<1>11. CASE Sent
  BY <1>11 DEF Sent, Typed, TypeOK, HasScope, HasAlert, access, sockets, Relays, Idle
<1>12. CASE RelayDies
  BY <1>12 DEF RelayDies, Typed, TypeOK, HasScope, HasAlert, access, sockets
<1>13. ASSUME NEW u \in User,
              \/ SignOut(u) \/ SignIn(u) \/ GrantBreakGlass(u) \/ AuditBreakGlass(u)
              \/ AuditFails(u) \/ RevokeBreakGlass(u) \/ GrantExpires(u)
       PROVE  Typed'
  <2>1. UNCHANGED <<sockets, clients, messages>>
    BY <1>13 DEF SignOut, SignIn, GrantBreakGlass, AuditBreakGlass, AuditFails, RevokeBreakGlass,
                 GrantExpires
  <2>t. /\ signedIn \in [User -> BOOLEAN] /\ grant \in [User -> Grant \cup {None}]
        /\ break \in [User -> {"none", "granting", "revoking"}]
        /\ audited \subseteq Grant /\ ever \subseteq User
    BY DEF Typed, TypeOK
  <2>2. /\ signedIn' \in [User -> BOOLEAN]
        /\ grant' \in [User -> Grant \cup {None}]
        /\ break' \in [User -> {"none", "granting", "revoking"}]
        /\ audited' \subseteq Grant /\ ever' \subseteq User
    <3>1. CASE SignOut(u) \/ SignIn(u)
      BY <2>t, <3>1 DEF SignOut, SignIn
    <3>2. CASE GrantBreakGlass(u)
      BY <2>t, <3>2 DEF GrantBreakGlass
    <3>3. CASE AuditBreakGlass(u)
      <4>1. grant[u] \in Grant \cup {None}
        BY <2>t
      <4>2. QED
        BY <2>t, <3>3, <4>1 DEF AuditBreakGlass
    <3>4. CASE AuditFails(u) \/ RevokeBreakGlass(u) \/ GrantExpires(u)
      BY <2>t, <3>4 DEF AuditFails, RevokeBreakGlass, GrantExpires
    <3>5. QED
      BY <1>13, <3>1, <3>2, <3>3, <3>4
  <2>3. QED
    BY <2>1, <2>2 DEF Typed, TypeOK, HasScope, HasAlert, sockets, messages
<1>14. CASE UNCHANGED vars
  BY <1>14 DEF vars, access, sockets, messages, Typed, TypeOK, HasScope, HasAlert
<1>15. QED
  BY <1>1, <1>2, <1>3, <1>4, <1>5, <1>6, <1>7, <1>8, <1>9, <1>10, <1>11, <1>12, <1>13, <1>14
     DEF Next, Serve

(* Sockets, queues, grants and the relay stay well formed, whatever        *)
(* interleaves, dies or is refused.                                        *)
THEOREM TypeCorrect == Spec => []TypeOK
<1>1. Init => Typed /\ Reading
  BY InitTyped DEF Init, Reading
<1>2. Typed => TypeOK
  BY DEF Typed
<1>3. QED
  BY <1>1, <1>2, TypedStep, ReadingStep, PTL DEF Spec

-----------------------------------------------------------------------------
(* Sockets of home-scoped users who never held a grant.                    *)
Bound(c) == Home[Owner[c]] # None /\ Owner[c] \notin ever

(* Nowhere on its way to the hub has such a socket a wider scope, and a    *)
(* scope on its way is there.                                              *)
Confined ==
  \A c \in Client : Bound(c) =>
    /\ grant[Owner[c]] = None
    /\ clients[c] \in {Absent, Home[Owner[c]]}
    /\ pc[c] = "accept" => principal[c] = Home[Owner[c]]

(* The broadcast under way goes to it with alerts of its department only.  *)
OnlyOwn ==
  \A c \in Client : Bound(c) /\ relay # Dead /\ c \in relay.todo
    => relay.alert \in Alert /\ DeptOf[relay.alert] = Home[Owner[c]]

ForeignInv == Typed /\ Reading /\ Confined /\ OnlyOwn /\ NeverForeign

LEMMA BoundBefore == ever \subseteq ever' => \A c \in Client : Bound(c)' => Bound(c)
BY DEF Bound

(* What the steps of one socket leave of the scopes.                       *)
LEMMA ConfinedMoves ==
  ASSUME Typed, Confined, NEW c \in Client, UNCHANGED access,
         \A d \in Client : d # c => /\ pc'[d] = pc[d] /\ clients'[d] = clients[d]
                                    /\ principal'[d] = principal[d],
         Bound(c) => /\ clients'[c] \in {Absent, Home[Owner[c]]}
                     /\ pc'[c] = "accept" => principal'[c] = Home[Owner[c]]
  PROVE  Confined'
BY DEF Confined, Bound, access

LEMMA ConfinedStep == ForeignInv /\ [Next]_vars => Confined'
<1> SUFFICES ASSUME ForeignInv, [Next]_vars PROVE Confined'
  OBVIOUS
<1> USE Constants
<1>t. /\ pc \in [Client -> {"none", "user", "grant", "accept", "open", "reuser", "regrant"}]
      /\ principal \in [Client -> Scope \cup {None}]
      /\ clients \in [Client -> Scope \cup {Absent}]
      /\ Typed /\ Confined /\ Reading
  BY DEF ForeignInv, Typed, TypeOK
<1>a. \A c \in Client : Bound(c) => /\ grant[Owner[c]] = None
                                    /\ clients[c] \in {Absent, Home[Owner[c]]}
                                    /\ pc[c] = "accept" => principal[c] = Home[Owner[c]]
  BY <1>t DEF Confined
<1>b. ASSUME NEW c \in Client, Ended(c), UNCHANGED access PROVE Confined'
  <2>1. /\ clients'[c] = Absent /\ pc'[c] = "none"
        /\ \A d \in Client : d # c => /\ pc'[d] = pc[d] /\ clients'[d] = clients[d]
                                      /\ principal'[d] = principal[d]
    BY <1>b, <1>t DEF Ended
  <2>2. QED
    BY <1>b, <1>t, <2>1, ConfinedMoves
<1>c. ASSUME NEW c \in Client, NEW scope, Scoped(c, scope), UNCHANGED access,
             Bound(c) => scope = Home[Owner[c]]
      PROVE  Confined'
  <2>1. \A d \in Client : d # c => /\ pc'[d] = pc[d] /\ clients'[d] = clients[d]
                                   /\ principal'[d] = principal[d]
    BY <1>c, <1>t DEF Scoped
  <2>2. \/ pc'[c] = "accept" /\ principal'[c] = scope /\ clients'[c] = clients[c]
        \/ pc'[c] = "open" /\ clients'[c] = scope
    BY <1>c, <1>t DEF Scoped
  <2>3. QED
    BY <1>a, <1>c, <1>t, <2>1, <2>2, ConfinedMoves
<1>1. ASSUME NEW c \in Client, ReadUser(c) PROVE Confined'
  <2>1. UNCHANGED access
    BY <1>1 DEF ReadUser
  <2>2. CASE Ended(c)
    BY <1>b, <2>1, <2>2
  <2>3. CASE Home[Owner[c]] = None /\ Scoped(c, Statewide)
    BY <1>c, <2>1, <2>3 DEF Bound
  <2>4. CASE /\ pc' = [pc EXCEPT ![c] = IF @ = "user" THEN "grant" ELSE "regrant"]
             /\ UNCHANGED <<principal, clients>>
    <3>1. /\ pc'[c] # "accept" /\ clients'[c] = clients[c]
          /\ \A d \in Client : d # c => /\ pc'[d] = pc[d] /\ clients'[d] = clients[d]
                                        /\ principal'[d] = principal[d]
      BY <2>4, <1>t
    <3>2. QED
      BY <1>a, <1>t, <2>1, <3>1, ConfinedMoves
  <2>5. QED
    BY <1>1, <2>2, <2>3, <2>4 DEF ReadUser
<1>2. ASSUME NEW c \in Client, ReadGrant(c) PROVE Confined'
  <2>1. UNCHANGED access /\ Scoped(c, DepartmentScope(Owner[c]))
    BY <1>2 DEF ReadGrant
  <2>2. Bound(c) => DepartmentScope(Owner[c]) = Home[Owner[c]]
    BY <1>a DEF DepartmentScope
  <2>3. QED
    BY <1>c, <2>1, <2>2
<1>3. ASSUME NEW c \in Client, ReadGrantFails(c) \/ Disconnect(c) PROVE Confined'
  BY <1>3, <1>b DEF ReadGrantFails, Disconnect
<1>4. ASSUME NEW c \in Client, Accept(c) PROVE Confined'
  <2>1. UNCHANGED access /\ pc[c] = "accept"
    BY <1>4 DEF Accept
  <2>2. CASE peer[c]
    <3>1. /\ pc' = [pc EXCEPT ![c] = "open"]
          /\ clients' = [clients EXCEPT ![c] = principal[c]]
          /\ principal' = [principal EXCEPT ![c] = None]
      BY <1>4, <2>2 DEF Accept
    <3>2. /\ pc'[c] = "open" /\ clients'[c] = principal[c]
          /\ \A d \in Client : d # c => /\ pc'[d] = pc[d] /\ clients'[d] = clients[d]
                                        /\ principal'[d] = principal[d]
      BY <1>t, <3>1
    <3>3. QED
      BY <1>a, <1>t, <2>1, <3>2, ConfinedMoves
  <2>3. CASE ~peer[c]
    BY <1>4, <1>b, <2>1, <2>3 DEF Accept
  <2>4. QED
    BY <2>2, <2>3
<1>5. ASSUME NEW c \in Client, Connect(c) \/ Silence(c) PROVE Confined'
  <2>1. /\ UNCHANGED <<access, principal, clients>>
        /\ \/ pc' = [pc EXCEPT ![c] = "user"]
           \/ pc' = [pc EXCEPT ![c] = "reuser"]
    BY <1>5 DEF Connect, Silence
  <2>2. \A d \in Client : pc'[d] = "accept" => pc[d] = "accept"
    BY <1>t, <2>1
  <2>3. QED
    BY <1>a, <2>1, <2>2 DEF Confined, Bound, access
<1>6. CASE Sent
  <2>1. UNCHANGED <<access, sockets>>
        /\ clients' = [c \in Client |-> IF c \in relay.dead THEN Absent ELSE clients[c]]
    BY <1>6 DEF Sent
  <2>2. \A c \in Client : clients'[c] \in {Absent, clients[c]}
    BY <2>1
  <2>3. QED
    BY <1>a, <2>1, <2>2 DEF Confined, Bound, access, sockets
<1>7. ASSUME NEW u \in User, GrantBreakGlass(u) PROVE Confined'
  <2>1. /\ ever' = ever \cup {u} /\ UNCHANGED <<sockets, clients>>
        /\ \E g \in Grant : grant' = [grant EXCEPT ![u] = g]
    BY <1>7 DEF GrantBreakGlass
  <2>2. \A v \in User : v # u => grant'[v] = grant[v]
    BY <2>1, <1>t DEF Typed, TypeOK
  <2>3. \A c \in Client : Bound(c)' => Bound(c) /\ Owner[c] # u
    BY <2>1 DEF Bound
  <2>4. QED
    BY <1>a, <2>1, <2>2, <2>3 DEF Confined, sockets
<1>8. ASSUME NEW u \in User, RevokeBreakGlass(u) \/ GrantExpires(u) PROVE Confined'
  <2>1. /\ grant' = [grant EXCEPT ![u] = None] /\ UNCHANGED <<ever, sockets, clients>>
    BY <1>8 DEF RevokeBreakGlass, GrantExpires
  <2>2. \A v \in User : grant'[v] \in {grant[v], None}
    BY <2>1, <1>t DEF Typed, TypeOK
  <2>3. QED
    BY <1>a, <2>1, <2>2 DEF Confined, Bound, sockets
<1>9. CASE UNCHANGED <<grant, ever, pc, principal, clients>>
  BY <1>a, <1>9 DEF Confined, Bound
<1>10. QED
  BY <1>1, <1>2, <1>3, <1>4, <1>5, <1>6, <1>7, <1>8, <1>9
     DEF Next, Serve, vars, access, sockets, Drop, Send, Publish, Take, RelayDies, SignOut, SignIn,
         AuditBreakGlass, AuditFails

LEMMA OwnStep == ForeignInv /\ [Next]_vars => OnlyOwn' /\ NeverForeign'
<1> SUFFICES ASSUME ForeignInv, [Next]_vars PROVE OnlyOwn' /\ NeverForeign'
  OBVIOUS
<1> USE Constants
<1>e. ever \subseteq ever'
  BY DEF Next, Serve, vars, access, Connect, ReadUser, ReadGrant, ReadGrantFails, Accept, Silence,
         Drop, Disconnect, Send, Publish, Take, Sent, RelayDies, SignOut, SignIn, GrantBreakGlass,
         AuditBreakGlass, AuditFails, RevokeBreakGlass, GrantExpires
<1>b. \A c \in Client : Bound(c)' => Bound(c)
  BY <1>e, BoundBefore
<1>o. \A c \in Client : Bound(c) /\ relay # Dead /\ c \in relay.todo
        => relay.alert \in Alert /\ DeptOf[relay.alert] = Home[Owner[c]]
  BY DEF ForeignInv, OnlyOwn
<1>n. \A c \in Client : Bound(c) => \A a \in inbox[c] : DeptOf[a] = Home[Owner[c]]
  BY DEF ForeignInv, NeverForeign, Bound
<1>g. (\A c \in Client : Bound(c) => \A a \in inbox'[c] : DeptOf[a] = Home[Owner[c]])
        => NeverForeign'
  BY <1>b DEF NeverForeign, Bound
<1>r. (\A c \in Client : Bound(c) /\ relay' # Dead /\ c \in relay'.todo
         => relay'.alert \in Alert /\ DeptOf[relay'.alert] = Home[Owner[c]]) => OnlyOwn'
  BY <1>b DEF OnlyOwn
<1>1. ASSUME NEW c \in Client, Connect(c) PROVE OnlyOwn' /\ NeverForeign'
  <2>1. inbox' = [inbox EXCEPT ![c] = {}] /\ relay' = relay
    BY <1>1 DEF Connect
  <2>2. \A d \in Client : inbox'[d] \subseteq inbox[d]
    BY <2>1 DEF ForeignInv, Typed, TypeOK
  <2>3. QED
    BY <1>g, <1>n, <1>o, <1>r, <2>1, <2>2
<1>2. ASSUME NEW c \in Client, Send(c) PROVE OnlyOwn' /\ NeverForeign'
  <2>1. relay # Dead /\ relay \in Relays /\ c \in relay.todo
    BY <1>2 DEF Send, ForeignInv, Typed, TypeOK, Relays
  <2>2. relay'.alert = relay.alert /\ relay'.todo \subseteq relay.todo
    <3>1. \/ relay' = [relay EXCEPT !.todo = @ \ {c}]
          \/ relay' = [relay EXCEPT !.todo = @ \ {c}, !.dead = @ \cup {c}]
      BY <1>2 DEF Send
    <3>2. CASE relay' = [relay EXCEPT !.todo = @ \ {c}]
      BY <2>1, <3>2 DEF Relays
    <3>3. CASE relay' = [relay EXCEPT !.todo = @ \ {c}, !.dead = @ \cup {c}]
      <4>1. relay'.alert = relay.alert
        BY <2>1, <3>3 DEF Relays
      <4>2. relay'.todo = relay.todo \ {c}
        BY <2>1, <3>3 DEF Relays
      <4>3. QED
        BY <4>1, <4>2
    <3>4. QED
      BY <3>1, <3>2, <3>3
  <2>3. \/ inbox' = inbox
        \/ inbox' = [inbox EXCEPT ![c] = @ \cup {relay.alert}]
    BY <1>2 DEF Send
  <2>4. \A d \in Client : inbox'[d] \subseteq inbox[d] \/ (d = c /\ inbox'[d] = inbox[d] \cup {relay.alert})
    BY <2>3 DEF ForeignInv, Typed, TypeOK
  <2>5. \A d \in Client : Bound(d) => \A a \in inbox'[d] : DeptOf[a] = Home[Owner[d]]
    BY <1>n, <1>o, <2>1, <2>4
  <2>6. OnlyOwn'
    BY <1>o, <1>r, <2>1, <2>2
  <2>7. QED
    BY <1>g, <2>5, <2>6
<1>3. CASE Take
  <2> DEFINE a == Head(queue)
             dept == MessageDepartment(Envelope(a))
  <2>1. /\ relay' = [alert |-> a, dead |-> {}, todo |-> {c \in Client : Passes(clients[c], dept)}]
        /\ inbox' = inbox
    BY <1>3 DEF Take
  <2>2. a \in Alert
    BY <1>3, HeadTailProperties DEF Take, ForeignInv, Typed, TypeOK
  <2>3. dept \in {None, DeptOf[a]}
    BY <2>2, EnvelopeDepartment
  <2> HIDE DEF a, dept
  <2>4. relay'.alert = a /\ relay'.todo = {c \in Client : Passes(clients[c], dept)}
    BY <2>1
  <2>5. ASSUME NEW c \in Client, Bound(c), c \in relay'.todo
        PROVE  relay'.alert \in Alert /\ DeptOf[relay'.alert] = Home[Owner[c]]
    <3>1. clients[c] \in {Absent, Home[Owner[c]]}
      BY <2>5 DEF ForeignInv, Confined
    <3>2. Home[Owner[c]] \in Department
      BY <2>5 DEF Bound
    <3>3. clients[c] # Absent /\ (clients[c] = Statewide \/ dept = clients[c])
      BY <2>4, <2>5 DEF Passes
    <3>4. dept = Home[Owner[c]] /\ dept # None
      BY <3>1, <3>2, <3>3
    <3>5. QED
      BY <2>2, <2>3, <2>4, <3>4
  <2>6. QED
    BY <1>g, <1>n, <1>r, <2>1, <2>5
<1>4. CASE Sent
  <2>1. inbox' = inbox /\ relay' = Idle /\ Idle.todo = {}
    BY <1>4 DEF Sent, Idle
  <2>2. QED
    BY <1>g, <1>n, <1>r, <2>1
<1>5. CASE RelayDies
  BY <1>5, <1>g, <1>n, <1>r DEF RelayDies
<1>6. CASE UNCHANGED <<relay, inbox>>
  BY <1>6, <1>g, <1>n, <1>o, <1>r
<1>7. QED
  BY <1>1, <1>2, <1>3, <1>4, <1>5, <1>6
     DEF Next, Serve, vars, messages, ReadUser, ReadGrant, ReadGrantFails, Accept, Silence,
         Drop, Disconnect, Publish, SignOut, SignIn, GrantBreakGlass,
         AuditBreakGlass, AuditFails, RevokeBreakGlass, GrantExpires

(* However scopes are read and replaced while alerts are broadcast, and    *)
(* whatever grants others hold: a home-scoped user who never held one is   *)
(* sent no alert of another department.                                    *)
THEOREM NeverForeignHolds == Spec => []NeverForeign
<1>1. Init => ForeignInv
  <2>1. Init => Typed /\ Reading
    BY InitTyped DEF Init, Reading
  <2>2. Init => Confined /\ OnlyOwn /\ NeverForeign
    BY Constants DEF Init, Confined, OnlyOwn, NeverForeign, Bound, Idle
  <2>3. QED
    BY <2>1, <2>2 DEF ForeignInv
<1>2. ForeignInv /\ [Next]_vars => ForeignInv'
  BY TypedStep, ReadingStep, ConfinedStep, OwnStep DEF ForeignInv
<1>3. ForeignInv => NeverForeign
  BY DEF ForeignInv
<1>4. QED
  BY <1>1, <1>2, <1>3, PTL DEF Spec
=============================================================================
