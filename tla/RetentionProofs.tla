-------------------------- MODULE RetentionProofs --------------------------
(* Safety of the retention sweep for any number of detections, alerts,      *)
(* frames and overlapping sweeps.                                           *)
EXTENDS Retention, FiniteSetTheorems, TLAPS

(* A set of events is finite, and what a LIMIT takes of it is no larger     *)
(* than the batch.                                                          *)
LEMMA LimitedBound ==
  ASSUME NEW S \in SUBSET Event, NEW b \in Limited(S)
  PROVE  b \subseteq S /\ Cardinality(b) \in Nat /\ Cardinality(b) <= Batch
<1>1. b \subseteq S  BY DEF Limited
<1>2. IsFiniteSet(b) BY <1>1, FS_Subset, RetentionAssumption
<1>3. Cardinality(b) \in Nat  BY <1>2, FS_CardinalityType
<1>4. Cardinality(b) = Batch \/ Cardinality(b) < Batch  BY DEF Limited
<1>q. QED  BY <1>1, <1>3, <1>4, RetentionAssumption

LEMMA EmptyBatch == Cardinality({}) = 0
BY FS_EmptySet

LEMMA PurgeableEvents == \A s \in Sweeper : Purgeable(s) \in SUBSET Event
BY DEF Purgeable

-----------------------------------------------------------------------------
(* The record of one sweep.                                                 *)
SweepOK(r) ==
  /\ r \in [at : Stage, cutoff : SUBSET Snapshot, batch : SUBSET Event, todo : SUBSET Event]
  /\ r.todo \subseteq r.batch
  /\ Cardinality(r.batch) <= Batch

LEMMA IdleOK == ASSUME NEW c \in SUBSET Snapshot
                PROVE  SweepOK(Idle) /\ SweepOK(Begun(c))
<1>1. Batch \in Nat  BY RetentionAssumption
<1>q. QED  BY <1>1, EmptyBatch DEF SweepOK, Idle, Begun, Stage

(* Replacing one sweep by a well-formed one keeps them all well-formed.     *)
LEMMA SweepTyped ==
  ASSUME TypeOK, NEW s \in Sweeper, NEW r, SweepOK(r), sweep' = [sweep EXCEPT ![s] = r]
  PROVE  /\ sweep' \in [Sweeper -> [at : Stage, cutoff : SUBSET Snapshot,
                                    batch : SUBSET Event, todo : SUBSET Event]]
         /\ \A t \in Sweeper : /\ sweep'[t].todo \subseteq sweep'[t].batch
                               /\ Cardinality(sweep'[t].batch) <= Batch
BY DEF TypeOK, SweepOK

LEMMA TypeStep == TypeOK /\ [Next]_vars => TypeOK'
<1> SUFFICES ASSUME TypeOK, [Next]_vars PROVE TypeOK'  OBVIOUS
<1>m. MaxFailures \in Nat /\ Batch \in Nat /\ \A e \in Event : Shot[e] \in Snapshot
  BY RetentionAssumption
<1>f. ASSUME failures < MaxFailures, failures' = failures + 1
      PROVE  failures' \in 0..MaxFailures
  BY <1>m, <1>f DEF TypeOK
<1>1. ASSUME NEW e \in Event, Ingest(e) PROVE TypeOK'
  <2>1. file' \subseteq file \cup {Shot[e]}
    BY <1>1 DEF Ingest, Saved
  <2>2. file' \subseteq Snapshot
    BY <2>1, <1>m DEF TypeOK
  <2>3. CASE e \in Hit
    <3>1. PICK a \in Alert : /\ alert' = [alert EXCEPT ![a] = [event |-> e, shot |-> Shot[e]]]
                             /\ open' = open \cup {a}
      BY <1>1, <2>3 DEF Ingest
    <3>2. [event |-> e, shot |-> Shot[e]] \in [event : Event, shot : Snapshot]
      BY <1>m
    <3>q. QED  BY <1>1, <2>2, <3>1, <3>2 DEF Ingest, TypeOK
  <2>4. CASE e \notin Hit
    BY <1>1, <2>2, <2>4 DEF Ingest, TypeOK
  <2>q. QED  BY <2>3, <2>4
<1>2. ASSUME NEW e \in Event, AddEvidence(e) PROVE TypeOK'
  BY <1>2 DEF AddEvidence, TypeOK
<1>3. ASSUME NEW a \in Alert, Acknowledge(a) PROVE TypeOK'
  BY <1>3 DEF Acknowledge, TypeOK
<1>4. ASSUME NEW f \in Snapshot, Ages(f) PROVE TypeOK'
  BY <1>4 DEF Ages, TypeOK
<1>5. ASSUME NEW s \in Sweeper, Begin(s) PROVE TypeOK'
  <2>1. old \in SUBSET Snapshot  BY DEF TypeOK
  <2>2. sweep' = [sweep EXCEPT ![s] = Begun(old)]
    BY <1>5 DEF Begin
  <2>3. SweepOK(Begun(old))  BY <2>1, IdleOK
  <2>q. QED  BY <1>5, <2>2, <2>3, SweepTyped DEF Begin, TypeOK
<1>6. ASSUME NEW s \in Sweeper, SelectRows(s) PROVE TypeOK'
  <2>1. PICK b \in Limited(Purgeable(s)) :
          sweep' = [sweep EXCEPT ![s].at = IF b = {} THEN "trails" ELSE "unlink",
                                 ![s].batch = b, ![s].todo = b]
    BY <1>6 DEF SelectRows
  <2>2. Purgeable(s) \in SUBSET Event
    BY PurgeableEvents
  <2>3. b \subseteq Event /\ Cardinality(b) <= Batch
    BY <2>2, LimitedBound
  <2> DEFINE r == [sweep[s] EXCEPT !.at = IF b = {} THEN "trails" ELSE "unlink",
                                   !.batch = b, !.todo = b]
  <2>4. SweepOK(r)
    BY <2>3 DEF SweepOK, TypeOK, Stage
  <2>5. sweep' = [sweep EXCEPT ![s] = r]
    BY <2>1
  <2> HIDE DEF r
  <2>q. QED  BY <1>6, <2>4, <2>5, SweepTyped DEF SelectRows, TypeOK
<1>7. ASSUME NEW s \in Sweeper, NEW e \in Event, Unlink(s, e) PROVE TypeOK'
  BY <1>7 DEF Unlink, TypeOK
<1>8. ASSUME NEW s \in Sweeper, DeleteRefused(s) PROVE TypeOK'
  BY <1>8, IdleOK, SweepTyped DEF DeleteRefused, TypeOK
<1>9. ASSUME NEW s \in Sweeper, DeleteRows(s) PROVE TypeOK'
  <2>1. row' \in [Event -> {"none", "stored", "purged"}]
    BY <1>9 DEF DeleteRows, TypeOK
  <2> DEFINE r == [sweep[s] EXCEPT !.at = IF Cardinality(sweep[s].batch) < Batch
                                          THEN "trails" ELSE "select",
                                   !.batch = {}]
  <2>a. SweepOK(sweep[s]) /\ sweep[s].todo = {}
    BY <1>9 DEF DeleteRows, SweepOK, TypeOK
  <2>b. r \in [at : Stage, cutoff : SUBSET Snapshot, batch : SUBSET Event, todo : SUBSET Event]
    BY <2>a DEF SweepOK, Stage
  <2>c. r.batch = {} /\ r.todo = {}
    BY <2>a DEF SweepOK
  <2>2. SweepOK(r)
    BY <2>b, <2>c, <1>m, EmptyBatch DEF SweepOK
  <2>3. sweep' = [sweep EXCEPT ![s] = r]
    BY <1>9 DEF DeleteRows
  <2> HIDE DEF r
  <2>q. QED  BY <1>9, <2>1, <2>2, <2>3, SweepTyped DEF DeleteRows, TypeOK
<1>10. ASSUME NEW s \in Sweeper, DeleteTrails(s) PROVE TypeOK'
  <2>1. sweep' = sweep \/ sweep' = [sweep EXCEPT ![s] = Idle]
    BY <1>10 DEF DeleteTrails
  <2>2. trail' \subseteq Event
    BY <1>10 DEF DeleteTrails, TypeOK
  <2>3. CASE sweep' = sweep
    BY <1>10, <2>2, <2>3 DEF DeleteTrails, TypeOK
  <2>4. CASE sweep' = [sweep EXCEPT ![s] = Idle]
    BY <1>10, <2>2, <2>4, IdleOK, SweepTyped DEF DeleteTrails, TypeOK
  <2>q. QED  BY <2>1, <2>3, <2>4
<1>11. ASSUME NEW s \in Sweeper, SweepFails(s) PROVE TypeOK'
  <2>1. failures' \in 0..MaxFailures
    BY <1>11, <1>f DEF SweepFails
  <2>q. QED  BY <1>11, <2>1, IdleOK, SweepTyped DEF SweepFails, TypeOK
<1>12. ASSUME NEW s \in Sweeper, NEW e \in Event, UnlinkRefused(s, e) PROVE TypeOK'
  <2>1. failures' \in 0..MaxFailures
    BY <1>12, <1>f DEF UnlinkRefused
  <2>q. QED  BY <1>12, <2>1 DEF UnlinkRefused, TypeOK
<1>13. CASE UNCHANGED vars
  BY <1>13 DEF vars, TypeOK
<1>q. QED
  BY <1>1, <1>2, <1>3, <1>4, <1>5, <1>6, <1>7, <1>8, <1>9, <1>10, <1>11, <1>12, <1>13
     DEF Next, Step

LEMMA InitTyped == Init => TypeOK
<1>1. MaxFailures \in Nat /\ SweepOK(Idle)
  BY IdleOK, RetentionAssumption
<1>q. QED  BY <1>1 DEF Init, TypeOK, SweepOK

(* Type correctness of the sweep and of the tables it reads.                *)
THEOREM TypeCorrect == Spec => []TypeOK
BY InitTyped, TypeStep, PTL DEF Spec

-----------------------------------------------------------------------------
(* An event in a case is never deleted: the foreign key holds against every *)
(* order of add_evidence and the sweeps.                                    *)
THEOREM CaseKeepsEventHolds == Spec => []CaseKeepsEvent
<1>1. Init => CaseKeepsEvent
  BY DEF Init, CaseKeepsEvent
<1>2. TypeOK /\ CaseKeepsEvent /\ [Next]_vars => CaseKeepsEvent'
  <2> SUFFICES ASSUME TypeOK, CaseKeepsEvent, [Next]_vars,
                      NEW e \in exhibit'
               PROVE  row'[e] = "stored"
    BY DEF CaseKeepsEvent
  <2>1. ASSUME NEW f \in Event, Ingest(f) PROVE row'[e] = "stored"
    BY <2>1 DEF Ingest, CaseKeepsEvent, TypeOK
  <2>2. ASSUME NEW f \in Event, AddEvidence(f) PROVE row'[e] = "stored"
    BY <2>2 DEF AddEvidence, CaseKeepsEvent
  <2>3. ASSUME NEW s \in Sweeper, DeleteRows(s) PROVE row'[e] = "stored"
    BY <2>3 DEF DeleteRows, Blocked, CaseKeepsEvent, TypeOK
  <2>4. CASE UNCHANGED <<row, exhibit>>
    BY <2>4 DEF CaseKeepsEvent
  <2>q. QED
    BY <2>1, <2>2, <2>3, <2>4
       DEF Next, Step, vars, Acknowledge, Ages, Begin, SelectRows, Unlink, DeleteRefused,
           DeleteTrails, SweepFails, UnlinkRefused
<1>q. QED  BY <1>1, <1>2, TypeCorrect, PTL DEF Spec

-----------------------------------------------------------------------------
(* What an alert shows is the frame of its event.                           *)
Linked == \A a \in Raised : alert[a].shot = Shot[alert[a].event]

(* What a sweep has selected was recorded before, and no alert can come to  *)
(* refer to it: an alert refers to the event it is raised or bumped for, in *)
(* the transaction that records the event.                                  *)
Spared ==
  \A s \in Sweeper : \A e \in sweep[s].batch : row[e] # "none" /\ e \notin Referenced

LEMMA SparedStep ==
  TypeOK /\ TypeOK' /\ Spared /\ [Next]_vars => Spared'
<1> SUFFICES ASSUME TypeOK, TypeOK', Spared, [Next]_vars PROVE Spared'  OBVIOUS
<1>a. ASSUME sweep' = sweep, alert' = alert,
             \A e \in Event : row[e] # "none" => row'[e] # "none"
      PROVE  Spared'
  BY <1>a DEF Spared, Referenced, Raised, TypeOK
<1>b. ASSUME NEW s \in Sweeper, UNCHANGED alert,
             \A e \in Event : row[e] # "none" => row'[e] # "none",
             \A t \in Sweeper : t # s => sweep'[t] = sweep[t],
             sweep'[s].batch \subseteq sweep[s].batch
      PROVE  Spared'
  BY <1>b DEF Spared, Referenced, Raised, TypeOK
<1>1. ASSUME NEW e \in Event, Ingest(e) PROVE Spared'
  <2>1. \A t \in Sweeper : \A f \in sweep[t].batch : f # e
    BY <1>1 DEF Ingest, Spared
  <2>2. \A f \in Event : row[f] # "none" => row'[f] # "none"
    BY <1>1 DEF Ingest, TypeOK
  <2>3. Referenced' \subseteq Referenced \cup {e}
    <3>1. CASE e \in Hit
      <4>1. PICK a \in Alert : alert' = [alert EXCEPT ![a] = [event |-> e, shot |-> Shot[e]]]
        BY <1>1, <3>1 DEF Ingest
      <4>2. \A b \in Alert : b # a => alert'[b] = alert[b]
        BY <4>1 DEF TypeOK
      <4>3. alert'[a].event = e
        BY <4>1 DEF TypeOK
      <4>q. QED  BY <4>2, <4>3 DEF Referenced, Raised
    <3>2. CASE e \notin Hit
      BY <1>1, <3>2 DEF Ingest, Referenced, Raised
    <3>q. QED  BY <3>1, <3>2
  <2>4. sweep' = sweep
    BY <1>1 DEF Ingest
  <2>q. QED  BY <2>1, <2>2, <2>3, <2>4 DEF Spared, TypeOK
<1>2. ASSUME NEW s \in Sweeper, SelectRows(s) PROVE Spared'
  <2>1. PICK b \in Limited(Purgeable(s)) :
          sweep' = [sweep EXCEPT ![s].at = IF b = {} THEN "trails" ELSE "unlink",
                                 ![s].batch = b, ![s].todo = b]
    BY <1>2 DEF SelectRows
  <2>2. b \subseteq Purgeable(s)
    BY <2>1 DEF Limited
  <2>3. \A e \in b : row[e] # "none" /\ e \notin Referenced
    BY <2>2 DEF Purgeable
  <2>4. sweep'[s].batch = b /\ \A t \in Sweeper : t # s => sweep'[t] = sweep[t]
    BY <2>1 DEF TypeOK
  <2>5. UNCHANGED <<row, alert>>
    BY <1>2 DEF SelectRows
  <2>6. Referenced' = Referenced
    BY <2>5 DEF Referenced, Raised
  <2>q. QED  BY <2>3, <2>4, <2>5, <2>6 DEF Spared
<1>3. ASSUME NEW s \in Sweeper, DeleteRows(s) PROVE Spared'
  <2>1. \A e \in Event : row[e] # "none" => row'[e] # "none"
    BY <1>3 DEF DeleteRows
  <2>2. sweep'[s].batch = {} /\ \A t \in Sweeper : t # s => sweep'[t] = sweep[t]
    BY <1>3 DEF DeleteRows, TypeOK
  <2>q. QED  BY <1>3, <1>b, <2>1, <2>2 DEF DeleteRows
<1>4. ASSUME NEW s \in Sweeper,
             Begin(s) \/ DeleteRefused(s) \/ SweepFails(s) \/ DeleteTrails(s)
      PROVE Spared'
  <2>1. /\ UNCHANGED <<row, alert>>
        /\ \/ sweep' = sweep
           \/ sweep' = [sweep EXCEPT ![s] = Idle]
           \/ sweep' = [sweep EXCEPT ![s] = Begun(old)]
    BY <1>4 DEF Begin, DeleteRefused, SweepFails, DeleteTrails
  <2>2. CASE sweep' = sweep
    BY <2>1, <2>2, <1>a
  <2>3. CASE sweep' # sweep
    <3>1. Begun(old).batch = {} /\ Idle.batch = {}
      BY DEF Idle, Begun
    <3>2. sweep'[s].batch = {} /\ \A t \in Sweeper : t # s => sweep'[t] = sweep[t]
      BY <2>1, <2>3, <3>1 DEF TypeOK
    <3>q. QED  BY <1>b, <2>1, <3>2
  <2>q. QED  BY <2>2, <2>3
<1>5. ASSUME NEW s \in Sweeper, NEW e \in Event, Unlink(s, e) \/ UnlinkRefused(s, e)
      PROVE Spared'
  <2>1. UNCHANGED <<row, alert>> /\ sweep' = [sweep EXCEPT ![s].todo = @ \ {e}]
    BY <1>5 DEF Unlink, UnlinkRefused
  <2>2. sweep'[s].batch = sweep[s].batch /\ \A t \in Sweeper : t # s => sweep'[t] = sweep[t]
    BY <2>1 DEF TypeOK
  <2>q. QED  BY <1>b, <2>1, <2>2
<1>6. CASE UNCHANGED <<row, alert, sweep>>
  BY <1>6, <1>a
<1>q. QED
  BY <1>1, <1>2, <1>3, <1>4, <1>5, <1>6
     DEF Next, Step, vars, Acknowledge, AddEvidence, Ages

-----------------------------------------------------------------------------
(* The alerts' evidence.  A frame that is gone was unlinked for a detection *)
(* no alert referred to, and none ever will: alerts take new detections.    *)
Pictured ==
  \A e \in Event : row[e] # "none" => Shot[e] \in file \cup Lapsed

(* The cutoff a sweep took when it began holds expired frames only, as old  *)
(* as it may be by now: time runs one way.  The rows it selected under that *)
(* cutoff show such frames, also once other sweeps have run in between.     *)
Expired ==
  \A s \in Sweeper : /\ sweep[s].cutoff \subseteq old
                     /\ \A e \in sweep[s].batch : Shot[e] \in old

AlertedStored == \A a \in Raised : row[alert[a].event] = "stored"

EvidenceInv == TypeOK /\ Linked /\ Spared /\ Expired /\ AlertedStored /\ Pictured

LEMMA ExpiredStep == TypeOK /\ Expired /\ [Next]_vars => Expired'
<1> SUFFICES ASSUME TypeOK, Expired, [Next]_vars PROVE Expired'  OBVIOUS
<1>a. ASSUME sweep' = sweep, old \subseteq old' PROVE Expired'
  BY <1>a DEF Expired
<1>b. ASSUME NEW s \in Sweeper, old' = old,
             \A t \in Sweeper : t # s => sweep'[t] = sweep[t],
             sweep'[s].cutoff \subseteq old,
             \A e \in sweep'[s].batch : Shot[e] \in old
      PROVE  Expired'
  BY <1>b DEF Expired
<1>1. ASSUME NEW s \in Sweeper, SelectRows(s) PROVE Expired'
  <2>1. PICK b \in Limited(Purgeable(s)) :
          sweep' = [sweep EXCEPT ![s].at = IF b = {} THEN "trails" ELSE "unlink",
                                 ![s].batch = b, ![s].todo = b]
    BY <1>1 DEF SelectRows
  <2>2. /\ sweep'[s].batch = b /\ sweep'[s].cutoff = sweep[s].cutoff
        /\ \A t \in Sweeper : t # s => sweep'[t] = sweep[t]
    BY <2>1 DEF TypeOK
  <2>3. \A e \in b : Shot[e] \in old
    BY <2>1 DEF Limited, Purgeable, Expired
  <2>4. old' = old  BY <1>1 DEF SelectRows
  <2>q. QED  BY <1>b, <2>2, <2>3, <2>4 DEF Expired
<1>2. ASSUME NEW s \in Sweeper, DeleteRows(s) PROVE Expired'
  <2>1. /\ sweep'[s].batch = {} /\ sweep'[s].cutoff = sweep[s].cutoff
        /\ \A t \in Sweeper : t # s => sweep'[t] = sweep[t]
    BY <1>2 DEF DeleteRows, TypeOK
  <2>2. old' = old  BY <1>2 DEF DeleteRows
  <2>q. QED  BY <1>b, <2>1, <2>2 DEF Expired
<1>3. ASSUME NEW s \in Sweeper,
             Begin(s) \/ DeleteRefused(s) \/ SweepFails(s) \/ DeleteTrails(s)
      PROVE  Expired'
  <2>1. /\ old' = old
        /\ \/ sweep' = sweep
           \/ sweep' = [sweep EXCEPT ![s] = Idle]
           \/ sweep' = [sweep EXCEPT ![s] = Begun(old)]
    BY <1>3 DEF Begin, DeleteRefused, SweepFails, DeleteTrails
  <2>2. CASE sweep' = sweep
    BY <2>1, <2>2, <1>a
  <2>3. CASE sweep' # sweep
    <3>1. /\ Idle.cutoff = {} /\ Idle.batch = {}
          /\ Begun(old).cutoff = old /\ Begun(old).batch = {}
      BY DEF Idle, Begun
    <3>2. /\ sweep'[s].cutoff \subseteq old /\ sweep'[s].batch = {}
          /\ \A t \in Sweeper : t # s => sweep'[t] = sweep[t]
      BY <2>1, <2>3, <3>1 DEF TypeOK
    <3>q. QED  BY <1>b, <2>1, <3>2
  <2>q. QED  BY <2>2, <2>3
<1>4. ASSUME NEW s \in Sweeper, NEW e \in Event, Unlink(s, e) \/ UnlinkRefused(s, e)
      PROVE  Expired'
  <2>1. old' = old /\ sweep' = [sweep EXCEPT ![s].todo = @ \ {e}]
    BY <1>4 DEF Unlink, UnlinkRefused
  <2>2. /\ sweep'[s].batch = sweep[s].batch /\ sweep'[s].cutoff = sweep[s].cutoff
        /\ \A t \in Sweeper : t # s => sweep'[t] = sweep[t]
    BY <2>1 DEF TypeOK
  <2>q. QED  BY <1>b, <2>1, <2>2 DEF Expired
<1>5. CASE sweep' = sweep /\ old \subseteq old'
  BY <1>5, <1>a
<1>q. QED
  BY <1>1, <1>2, <1>3, <1>4, <1>5
     DEF Next, Step, vars, Ingest, Acknowledge, AddEvidence, Ages

LEMMA IngestKeepsEvidence ==
  ASSUME EvidenceInv, NEW e \in Event, Ingest(e)
  PROVE  Linked' /\ AlertedStored' /\ Pictured'
<1>1. /\ row[e] = "none" /\ row'[e] = "stored" /\ old' = old /\ file' = Saved(e)
      /\ \A f \in Event : f # e => row'[f] = row[f]
  BY DEF Ingest, EvidenceInv, TypeOK
<1>2. /\ Linked' /\ AlertedStored'
      /\ Referenced' \subseteq Referenced \cup {e}
  <2>1. alert \in [Alert -> [event : Event, shot : Snapshot] \cup {None}]
    BY DEF EvidenceInv, TypeOK
  <2>2. \A b \in Raised : row[alert[b].event] = "stored" /\ alert[b].event \in Event
    BY <2>1 DEF EvidenceInv, AlertedStored, Raised
  <2>3. CASE e \in Hit
    <3>1. PICK a \in Alert : alert' = [alert EXCEPT ![a] = [event |-> e, shot |-> Shot[e]]]
      BY <2>3 DEF Ingest
    <3>2. /\ alert'[a].event = e /\ alert'[a].shot = Shot[e]
          /\ \A b \in Alert : b # a => alert'[b] = alert[b]
      BY <2>1, <3>1
    <3>3. \A b \in Raised' : b # a => b \in Raised /\ alert'[b] = alert[b]
      BY <3>2 DEF Raised
    <3>4. Linked'
      BY <3>2, <3>3 DEF Linked, EvidenceInv, Raised
    <3>5. AlertedStored'
      BY <1>1, <2>2, <3>2, <3>3 DEF AlertedStored, Raised
    <3>6. Referenced' \subseteq Referenced \cup {e}
      BY <3>2, <3>3 DEF Referenced
    <3>q. QED  BY <3>4, <3>5, <3>6
  <2>4. CASE e \notin Hit
    <3>1. alert' = alert /\ Raised' = Raised /\ Referenced' = Referenced
      BY <2>4 DEF Ingest, Raised, Referenced
    <3>q. QED  BY <1>1, <2>2, <3>1 DEF Linked, AlertedStored, EvidenceInv
  <2>q. QED  BY <2>3, <2>4
<1>3. Lapsed \subseteq Lapsed'
  BY <1>1, <1>2 DEF Lapsed
<1>4. ASSUME NEW f \in Event, row'[f] # "none"
      PROVE  Shot[f] \in file' \cup Lapsed'
  <2>1. CASE \E g \in Event \ {e} : Shot[g] = Shot[f] /\ row[g] # "none"
    <3>1. Shot[f] \in file \cup Lapsed
      BY <2>1 DEF EvidenceInv, Pictured
    <3>q. QED  BY <1>1, <1>3, <3>1 DEF Saved
  <2>2. CASE ~ \E g \in Event \ {e} : Shot[g] = Shot[f] /\ row[g] # "none"
    <3>1. f = e
      BY <1>1, <1>4, <2>2
    <3>q. QED  BY <1>1, <2>2, <3>1 DEF Saved
  <2>q. QED  BY <2>1, <2>2
<1>q. QED  BY <1>2, <1>4 DEF Pictured

(* Whatever sweeps overlap and wherever they stop, no alert loses its       *)
(* event, and its picture goes only when the frame has expired and shows    *)
(* another detection that no alert refers to: also when frames are shared.  *)
THEOREM AlertKeepsEvidenceHolds == Spec => []AlertKeepsEvidence
<1>1. Init => EvidenceInv
  <2>1. Init => TypeOK
    BY InitTyped
  <2>2. Init => Linked /\ Spared /\ Expired /\ AlertedStored /\ Pictured
    BY DEF Init, Linked, Spared, Expired, AlertedStored, Pictured, Raised, Idle
  <2>q. QED  BY <2>1, <2>2 DEF EvidenceInv
<1>2. EvidenceInv /\ [Next]_vars => EvidenceInv'
  <2> SUFFICES ASSUME EvidenceInv, [Next]_vars PROVE EvidenceInv'  OBVIOUS
  <2> DEFINE Kept == Linked' /\ AlertedStored' /\ Pictured'
  <2>1. TypeOK' /\ Spared' /\ Expired'
    BY TypeStep, SparedStep, ExpiredStep DEF EvidenceInv
  <2>2. ASSUME NEW e \in Event, Ingest(e) PROVE Kept
    BY <2>2, IngestKeepsEvidence
  <2>3. ASSUME NEW s \in Sweeper, NEW e \in Event, Unlink(s, e) PROVE Kept
    <3>1. e \in sweep[s].batch
      BY <2>3 DEF Unlink, EvidenceInv, TypeOK
    <3>2. Shot[e] \in Lapsed
      BY <3>1 DEF Lapsed, EvidenceInv, Spared, Expired
    <3>3. UNCHANGED <<row, alert, old>> /\ file' = file \ {Shot[e]}
      BY <2>3 DEF Unlink
    <3>4. Raised' = Raised /\ Referenced' = Referenced /\ Lapsed' = Lapsed
      BY <3>3 DEF Raised, Referenced, Lapsed
    <3>q. QED
      BY <3>2, <3>3, <3>4 DEF Linked, AlertedStored, Pictured, EvidenceInv
  <2>4. ASSUME NEW s \in Sweeper, DeleteRows(s) PROVE Kept
    <3>1. \A a \in Raised : alert[a].event \in Event /\ alert[a].event \notin sweep[s].batch
      BY DEF Referenced, Raised, EvidenceInv, Spared, TypeOK
    <3>2. UNCHANGED <<alert, file, old>> /\ \A e \in Event : e \notin sweep[s].batch => row'[e] = row[e]
      BY <2>4 DEF DeleteRows
    <3>3. \A e \in Event : row'[e] # "none" <=> row[e] # "none"
      BY <2>4 DEF DeleteRows, EvidenceInv, Spared
    <3>4. Raised' = Raised /\ Referenced' = Referenced /\ Lapsed' = Lapsed
      BY <3>2, <3>3 DEF Raised, Referenced, Lapsed
    <3>5. Linked' /\ AlertedStored'
      BY <3>1, <3>2, <3>4 DEF Linked, AlertedStored, EvidenceInv
    <3>6. Pictured'
      BY <3>2, <3>3, <3>4 DEF Pictured, EvidenceInv
    <3>q. QED  BY <3>5, <3>6
  <2>5. ASSUME row' = row, alert' = alert, file' = file, old \subseteq old' PROVE Kept
    <3>1. Raised' = Raised /\ Referenced' = Referenced
      BY <2>5 DEF Raised, Referenced
    <3>2. Lapsed \subseteq Lapsed'
      BY <2>5, <3>1 DEF Lapsed
    <3>q. QED  BY <2>5, <3>1, <3>2 DEF Linked, AlertedStored, Pictured, EvidenceInv
  <2>6. \/ \E e \in Event : Ingest(e)
        \/ \E s \in Sweeper : DeleteRows(s) \/ \E e \in Event : Unlink(s, e)
        \/ row' = row /\ alert' = alert /\ file' = file /\ old \subseteq old'
    BY DEF Next, Step, vars, AddEvidence, Acknowledge, Ages, Begin, SelectRows, DeleteRefused,
           DeleteTrails, SweepFails, UnlinkRefused
  <2>7. Kept
    BY <2>2, <2>3, <2>4, <2>5, <2>6
  <2>q. QED  BY <2>1, <2>7 DEF EvidenceInv
<1>3. EvidenceInv => AlertKeepsEvidence
  <2> SUFFICES ASSUME EvidenceInv, NEW a \in Raised
               PROVE  row[alert[a].event] = "stored" /\ alert[a].shot \in file \cup Lapsed
    BY DEF AlertKeepsEvidence
  <2>1. alert[a].event \in Event /\ alert[a].shot = Shot[alert[a].event]
    BY DEF EvidenceInv, TypeOK, Linked, Raised
  <2>2. row[alert[a].event] = "stored"
    BY DEF EvidenceInv, AlertedStored
  <2>q. QED  BY <2>1, <2>2 DEF EvidenceInv, Pictured
<1>q. QED  BY <1>1, <1>2, <1>3, PTL DEF Spec

-----------------------------------------------------------------------------
(* The files a sweep has worked off are gone, and the frame of an event     *)
(* that was recorded is not saved again.                                    *)
Unlinked ==
  \A s \in Sweeper : sweep[s].at = "unlink" =>
    (\A e \in sweep[s].batch \ sweep[s].todo : Shot[e] \notin file)

FileInv == TypeOK /\ Spared /\ Unlinked /\ NoOrphanFile

LEMMA UnlinkedStep ==
  ASSUME ~UnlinkFails, FileInv, TypeOK', [Next]_vars PROVE Unlinked'
<1>a. ASSUME sweep' = sweep, file' \subseteq file PROVE Unlinked'
  BY <1>a DEF FileInv, Unlinked
<1>b. ASSUME NEW s \in Sweeper, file' \subseteq file,
             \A t \in Sweeper : t # s => sweep'[t] = sweep[t],
             sweep'[s].at # "unlink" \/ sweep'[s].todo = sweep'[s].batch
      PROVE  Unlinked'
  BY <1>b DEF FileInv, Unlinked
<1>1. ASSUME NEW e \in Event, Ingest(e) PROVE Unlinked'
  <2>1. sweep' = sweep /\ file' = Saved(e) /\ row[e] = "none"
    BY <1>1 DEF Ingest
  <2>2. \A s \in Sweeper : \A f \in sweep[s].batch : f \in Event /\ f # e /\ row[f] # "none"
    BY <2>1 DEF FileInv, Spared, TypeOK
  <2>3. ASSUME NEW s \in Sweeper, sweep[s].at = "unlink",
               NEW f \in sweep[s].batch \ sweep[s].todo
        PROVE  Shot[f] \notin Saved(e)
    <3>1. Shot[f] \notin file
      BY <2>3 DEF FileInv, Unlinked
    <3>2. CASE Shot[f] = Shot[e]
      <4>1. Saved(e) = file  BY <2>2, <2>3, <3>2 DEF Saved
      <4>q. QED  BY <3>1, <4>1
    <3>3. CASE Shot[f] # Shot[e]
      BY <3>1, <3>3 DEF Saved
    <3>q. QED  BY <3>2, <3>3
  <2>q. QED  BY <2>1, <2>3 DEF Unlinked
<1>2. ASSUME NEW s \in Sweeper, SelectRows(s) PROVE Unlinked'
  <2>1. PICK b \in Limited(Purgeable(s)) :
          sweep' = [sweep EXCEPT ![s].at = IF b = {} THEN "trails" ELSE "unlink",
                                 ![s].batch = b, ![s].todo = b]
    BY <1>2 DEF SelectRows
  <2>2. sweep'[s].todo = sweep'[s].batch /\ \A t \in Sweeper : t # s => sweep'[t] = sweep[t]
    BY <2>1 DEF FileInv, TypeOK
  <2>q. QED  BY <1>2, <1>b, <2>2 DEF SelectRows
<1>3. ASSUME NEW s \in Sweeper, NEW e \in Event, Unlink(s, e) PROVE Unlinked'
  <2>1. file' = file \ {Shot[e]} /\ sweep' = [sweep EXCEPT ![s].todo = @ \ {e}]
    BY <1>3 DEF Unlink
  <2>2. /\ \A t \in Sweeper : sweep'[t].at = sweep[t].at /\ sweep'[t].batch = sweep[t].batch
        /\ \A t \in Sweeper : t # s => sweep'[t].todo = sweep[t].todo
        /\ sweep'[s].todo = sweep[s].todo \ {e}
    BY <2>1 DEF FileInv, TypeOK
  <2>q. QED  BY <2>1, <2>2 DEF FileInv, Unlinked
<1>4. ASSUME NEW s \in Sweeper, DeleteRows(s) PROVE Unlinked'
  <2>1. file' = file
    BY <1>4 DEF DeleteRows
  <2>2. sweep'[s].at # "unlink" /\ \A t \in Sweeper : t # s => sweep'[t] = sweep[t]
    BY <1>4 DEF DeleteRows, FileInv, TypeOK
  <2>q. QED  BY <1>b, <2>1, <2>2
<1>5. ASSUME NEW s \in Sweeper,
             Begin(s) \/ DeleteRefused(s) \/ SweepFails(s) \/ DeleteTrails(s)
      PROVE Unlinked'
  <2>1. /\ file' = file
        /\ \/ sweep' = sweep
           \/ sweep' = [sweep EXCEPT ![s] = Idle]
           \/ sweep' = [sweep EXCEPT ![s] = Begun(old)]
    BY <1>5 DEF Begin, DeleteRefused, SweepFails, DeleteTrails
  <2>2. CASE sweep' = sweep
    BY <2>1, <2>2, <1>a
  <2>3. CASE sweep' # sweep
    <3>1. Idle.at # "unlink" /\ Begun(old).at # "unlink"
      BY DEF Idle, Begun
    <3>2. sweep'[s].at # "unlink" /\ \A t \in Sweeper : t # s => sweep'[t] = sweep[t]
      BY <2>1, <2>3, <3>1 DEF FileInv, TypeOK
    <3>q. QED  BY <1>b, <2>1, <3>2
  <2>q. QED  BY <2>2, <2>3
<1>6. CASE UNCHANGED <<sweep, file>>
  BY <1>6, <1>a
<1>q. QED
  BY <1>1, <1>2, <1>3, <1>4, <1>5, <1>6
     DEF Next, Step, vars, Acknowledge, AddEvidence, Ages, UnlinkRefused

LEMMA NoOrphanStep ==
  ASSUME ~UnlinkFails, FileInv, [Next]_vars PROVE NoOrphanFile'
<1>1. ASSUME NEW e \in Event, Ingest(e) PROVE NoOrphanFile'
  <2>1. row' = [row EXCEPT ![e] = "stored"] /\ row \in [Event -> {"none", "stored", "purged"}]
    BY <1>1 DEF Ingest, FileInv, TypeOK
  <2>2. row'[e] = "stored" /\ \A f \in Event : row[f] = "stored" => row'[f] = "stored"
    BY <2>1
  <2>3. file' \subseteq file \cup {Shot[e]}
    BY <1>1 DEF Ingest, Saved
  <2>q. QED  BY <2>2, <2>3 DEF FileInv, NoOrphanFile
<1>2. ASSUME NEW s \in Sweeper, NEW e \in Event, Unlink(s, e) PROVE NoOrphanFile'
  BY <1>2 DEF Unlink, FileInv, NoOrphanFile
<1>3. ASSUME NEW s \in Sweeper, DeleteRows(s) PROVE NoOrphanFile'
  <2>1. /\ sweep[s].at = "unlink" /\ sweep[s].todo = {} /\ file' = file
        /\ \A e \in Event : e \notin sweep[s].batch => row'[e] = row[e]
    BY <1>3 DEF DeleteRows
  <2>2. \A e \in sweep[s].batch : Shot[e] \notin file
    BY <2>1 DEF FileInv, Unlinked
  <2>q. QED  BY <2>1, <2>2 DEF FileInv, NoOrphanFile
<1>4. CASE UNCHANGED <<row, file>>
  BY <1>4 DEF FileInv, NoOrphanFile
<1>q. QED
  BY <1>1, <1>2, <1>3, <1>4
     DEF Next, Step, vars, AddEvidence, Acknowledge, Ages, Begin, SelectRows, DeleteRefused,
         DeleteTrails, SweepFails, UnlinkRefused

(* If files can be removed, none outlives its rows, for shared frames too.  *)
THEOREM NoOrphanFileHolds == ASSUME ~UnlinkFails PROVE Spec => []NoOrphanFile
<1>1. Init => FileInv
  <2>1. Init => TypeOK
    BY InitTyped
  <2>2. Init => Spared /\ Unlinked /\ NoOrphanFile
    BY DEF Init, Spared, Unlinked, NoOrphanFile, Idle
  <2>q. QED  BY <2>1, <2>2 DEF FileInv
<1>2. FileInv /\ [Next]_vars => FileInv'
  <2> SUFFICES ASSUME FileInv, [Next]_vars PROVE FileInv'  OBVIOUS
  <2>1. TypeOK' /\ Spared'
    BY TypeStep, SparedStep DEF FileInv
  <2>2. Unlinked' /\ NoOrphanFile'
    BY <2>1, UnlinkedStep, NoOrphanStep
  <2>q. QED  BY <2>1, <2>2 DEF FileInv
<1>3. FileInv => NoOrphanFile
  BY DEF FileInv
<1>q. QED  BY <1>1, <1>2, <1>3, PTL DEF Spec

-----------------------------------------------------------------------------
(* A sweep removes nothing that was recorded within the retention time:     *)
(* neither a file, nor a detection, nor a trail point, however long it has  *)
(* been under way, whatever other sweeps did to the same rows, and whether  *)
(* or not detections share their frames.                                    *)
THEOREM RecentSurvivesHolds == Spec => RecentSurvives
<1> DEFINE Spares ==
      /\ file \ file' \subseteq old
      /\ \A e \in Event : row'[e] = "purged" => row[e] = "purged" \/ Shot[e] \in old
      /\ \A e \in trail \ trail' : Shot[e] \in old
<1>1. Init => TypeOK /\ Expired
  <2>1. Init => Expired  BY DEF Init, Expired, Idle
  <2>q. QED  BY <2>1, InitTyped
<1>2. TypeOK /\ Expired /\ [Next]_vars => TypeOK' /\ Expired'
  BY TypeStep, ExpiredStep
<1>3. TypeOK /\ Expired /\ [Next]_vars => [Spares]_vars
  <2> SUFFICES ASSUME TypeOK, Expired, Next PROVE Spares  OBVIOUS
  <2>1. ASSUME NEW e \in Event, Ingest(e) PROVE Spares
    <3>1. row' = [row EXCEPT ![e] = "stored"]
      BY <2>1 DEF Ingest
    <3>2. \A f \in Event : row'[f] = "purged" => row[f] = "purged"
      BY <3>1 DEF TypeOK
    <3>3. file \subseteq file' /\ trail \subseteq trail'
      BY <2>1 DEF Ingest, Saved
    <3>q. QED  BY <3>2, <3>3
  <2>2. ASSUME NEW s \in Sweeper, NEW e \in Event, Unlink(s, e) PROVE Spares
    <3>1. Shot[e] \in old
      BY <2>2 DEF Unlink, Expired, TypeOK
    <3>q. QED  BY <2>2, <3>1 DEF Unlink
  <2>3. ASSUME NEW s \in Sweeper, DeleteRows(s) PROVE Spares
    BY <2>3 DEF DeleteRows, Expired
  <2>4. ASSUME NEW s \in Sweeper, DeleteTrails(s) PROVE Spares
    <3>1. PICK b \in Limited({e \in trail : Shot[e] \in sweep[s].cutoff}) : trail' = trail \ b
      BY <2>4 DEF DeleteTrails
    <3>2. \A e \in b : Shot[e] \in old
      BY <3>1 DEF Limited, Expired
    <3>q. QED  BY <2>4, <3>1, <3>2 DEF DeleteTrails
  <2>5. CASE UNCHANGED <<row, trail, file>>
    BY <2>5
  <2>q. QED
    BY <2>1, <2>2, <2>3, <2>4, <2>5
       DEF Next, Step, Acknowledge, AddEvidence, Ages, Begin, SelectRows, DeleteRefused,
           SweepFails, UnlinkRefused
<1>q. QED  BY <1>1, <1>2, <1>3, PTL DEF Spec, RecentSurvives
=============================================================================
