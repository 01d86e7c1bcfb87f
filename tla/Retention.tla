----------------------------- MODULE Retention -----------------------------
(* The retention sweep (services/retention.py) against what refers to the   *)
(* rows and files it removes: alerts, trail points, case evidence, and the  *)
(* frames several detections share.  Every worker replica sweeps once a day *)
(* (workers/main.py) and an administrator may start a sweep at any time     *)
(* (api/admin.py), so sweeps overlap.  A detection commits its row, its     *)
(* trail point and its alert in one transaction (AlertEngine models that).  *)
EXTENDS Integers, FiniteSets

CONSTANTS
  Event,        \* detection_events rows
  Snapshot,     \* snapshot files
  Alert,        \* alerts rows, of one watchlist entry and camera
  Sweeper,      \* processes that run purge_expired
  Shot,         \* [Event -> Snapshot]: the frame a detection shows
  Hit,          \* the events that match the watchlist entry
  Dwell,        \* the events a recent trail point of the plate stands for
  Exhibit,      \* the events an officer may put in a case
  Batch,        \* _BATCH_SIZE
  UnlinkFails,  \* TRUE: the file system may refuse to remove a file
  MaxFailures,  \* bound on the failures of sweeps, and of unlink
  None

ASSUME RetentionAssumption ==
  /\ IsFiniteSet(Event) /\ Event # {}
  /\ Shot \in [Event -> Snapshot]
  /\ Hit \subseteq Event /\ Dwell \subseteq Event /\ Exhibit \subseteq Event
  /\ Batch \in Nat \ {0}
  /\ UnlinkFails \in BOOLEAN
  /\ MaxFailures \in Nat
  /\ None \notin Event

VARIABLES
  row,       \* of each event: not recorded yet, in the table, or purged
  trail,     \* the events a track_points row refers to
  alert,     \* the alerts: the event and the frame shown, or None
  open,      \* the alerts whose status is "new"
  exhibit,   \* the events a case_evidence row refers to
  file,      \* the snapshot files on disk
  old,       \* the frames taken before now - detection_retention_days
  sweep,     \* the sweeps
  failures

vars == <<row, trail, alert, open, exhibit, file, old, sweep, failures>>

Stage == {"idle", "select", "unlink", "trails"}
Idle == [at |-> "idle", cutoff |-> {}, batch |-> {}, todo |-> {}]
Begun(c) == [at |-> "select", cutoff |-> c, batch |-> {}, todo |-> {}]

TypeOK ==
  /\ row \in [Event -> {"none", "stored", "purged"}]
  /\ trail \subseteq Event
  /\ alert \in [Alert -> [event : Event, shot : Snapshot] \cup {None}]
  /\ open \subseteq Alert
  /\ exhibit \subseteq Event
  /\ file \subseteq Snapshot
  /\ old \subseteq Snapshot
  /\ sweep \in [Sweeper -> [at : Stage, cutoff : SUBSET Snapshot,
                            batch : SUBSET Event, todo : SUBSET Event]]
  /\ \A s \in Sweeper : /\ sweep[s].todo \subseteq sweep[s].batch
                        /\ Cardinality(sweep[s].batch) <= Batch
  /\ failures \in 0..MaxFailures

Raised == {a \in Alert : alert[a] # None}
Referenced == {alert[a].event : a \in Raised}

Init ==
  /\ row = [e \in Event |-> "none"]
  /\ trail = {} /\ open = {} /\ exhibit = {} /\ file = {} /\ old = {}
  /\ alert = [a \in Alert |-> None]
  /\ sweep = [s \in Sweeper |-> Idle]
  /\ failures = 0

-----------------------------------------------------------------------------
(* What happens beside the sweeps.                                          *)

(* The alert a hit goes to: the open one, which then shows this event and   *)
(* no longer the one before, or a new row.                                  *)
AlertFor(a) == IF open = {} THEN alert[a] = None ELSE a \in open

(* A frame is saved once, for all the detections found in it.               *)
Saved(e) ==
  IF \E f \in Event \ {e} : Shot[f] = Shot[e] /\ row[f] # "none"
  THEN file ELSE file \cup {Shot[e]}

Ingest(e) ==
  /\ row[e] = "none"
  /\ row' = [row EXCEPT ![e] = "stored"]
  /\ file' = Saved(e)
  /\ trail' = IF e \in Dwell THEN trail ELSE trail \cup {e}
  /\ IF e \in Hit
     THEN \E a \in Alert :
            /\ AlertFor(a)
            /\ alert' = [alert EXCEPT ![a] = [event |-> e, shot |-> Shot[e]]]
            /\ open' = open \cup {a}
     ELSE UNCHANGED <<alert, open>>
  /\ UNCHANGED <<exhibit, old, sweep, failures>>

Acknowledge(a) ==
  /\ a \in open
  /\ open' = open \ {a}
  /\ UNCHANGED <<row, trail, alert, exhibit, file, old, sweep, failures>>

(* The foreign key refuses an event that a sweep deleted after it was read. *)
AddEvidence(e) ==
  /\ e \in Exhibit /\ row[e] = "stored"
  /\ exhibit' = exhibit \cup {e}
  /\ UNCHANGED <<row, trail, alert, open, file, old, sweep, failures>>

Ages(f) ==
  /\ f \notin old
  /\ old' = old \cup {f}
  /\ UNCHANGED <<row, trail, alert, open, exhibit, file, sweep, failures>>

-----------------------------------------------------------------------------
(* The sweep.                                                               *)

(* The rows a statement with LIMIT takes: any Batch of them, or all.        *)
Limited(S) ==
  {b \in SUBSET S : Cardinality(b) = Batch \/ (b = S /\ Cardinality(S) < Batch)}

Begin(s) ==
  /\ sweep[s].at = "idle"
  /\ sweep' = [sweep EXCEPT ![s] = Begun(old)]
  /\ UNCHANGED <<row, trail, alert, open, exhibit, file, old, failures>>

(* The rows a sweep looks for: expired, and no alert refers to them.        *)
\* Mutant of Purgeable: without the subquery on alerts.
PurgeableAll(s) == {e \in Event : row[e] = "stored" /\ Shot[e] \in sweep[s].cutoff}
\* Mutant of Purgeable: without the cutoff.
PurgeableYoung(s) == {e \in Event : row[e] = "stored" /\ e \notin Referenced}
Purgeable(s) ==
  {e \in Event : /\ row[e] = "stored"
                 /\ Shot[e] \in sweep[s].cutoff
                 /\ e \notin Referenced}

SelectRows(s) ==
  /\ sweep[s].at = "select"
  /\ \E b \in Limited(Purgeable(s)) :
       sweep' = [sweep EXCEPT ![s].at = IF b = {} THEN "trails" ELSE "unlink",
                              ![s].batch = b, ![s].todo = b]
  /\ UNCHANGED <<row, trail, alert, open, exhibit, file, old, failures>>

(* A file that is already gone is no error.                                 *)
Unlink(s, e) ==
  /\ sweep[s].at = "unlink" /\ e \in sweep[s].todo
  /\ sweep' = [sweep EXCEPT ![s].todo = @ \ {e}]
  /\ file' = file \ {Shot[e]}
  /\ UNCHANGED <<row, trail, alert, open, exhibit, old, failures>>

(* A file that cannot be removed is logged, and its row deleted like the    *)
(* others.                                                                  *)
UnlinkRefused(s, e) ==
  /\ UnlinkFails /\ failures < MaxFailures
  /\ sweep[s].at = "unlink" /\ e \in sweep[s].todo
  /\ failures' = failures + 1
  /\ sweep' = [sweep EXCEPT ![s].todo = @ \ {e}]
  /\ UNCHANGED <<row, trail, alert, open, exhibit, file, old>>

(* The foreign keys of track_points, alerts and case_evidence name no       *)
(* action: a row that one of them refers to cannot be deleted.              *)
\* Mutant of Blocked: the constraint of case_evidence is missing.
BlockedByTrail(b) == \E e \in b : row[e] = "stored" /\ e \in trail \cup Referenced
Blocked(b) ==
  \E e \in b : row[e] = "stored" /\ e \in trail \cup Referenced \cup exhibit

(* The DELETE fails as a whole, and the exception ends the sweep before the *)
(* trail points: the loop logs it and sleeps until the next day.            *)
DeleteRefused(s) ==
  /\ sweep[s].at = "unlink" /\ sweep[s].todo = {}
  /\ Blocked(sweep[s].batch)
  /\ sweep' = [sweep EXCEPT ![s] = Idle]
  /\ UNCHANGED <<row, trail, alert, open, exhibit, file, old, failures>>

DeleteRows(s) ==
  /\ sweep[s].at = "unlink" /\ sweep[s].todo = {}
  /\ ~Blocked(sweep[s].batch)
  /\ row' = [e \in Event |-> IF e \in sweep[s].batch THEN "purged" ELSE row[e]]
  /\ sweep' = [sweep EXCEPT ![s].at = IF Cardinality(sweep[s].batch) < Batch
                                      THEN "trails" ELSE "select",
                            ![s].batch = {}]
  /\ UNCHANGED <<trail, alert, open, exhibit, file, old, failures>>

DeleteTrails(s) ==
  /\ sweep[s].at = "trails"
  /\ \E b \in Limited({e \in trail : Shot[e] \in sweep[s].cutoff}) :
       /\ trail' = trail \ b
       /\ sweep' = IF Cardinality(b) < Batch
                   THEN [sweep EXCEPT ![s] = Idle] ELSE sweep
  /\ UNCHANGED <<row, alert, open, exhibit, file, old, failures>>

(* The process stops, or a statement fails, between two steps.              *)
SweepFails(s) ==
  /\ sweep[s].at # "idle" /\ failures < MaxFailures
  /\ failures' = failures + 1
  /\ sweep' = [sweep EXCEPT ![s] = Idle]
  /\ UNCHANGED <<row, trail, alert, open, exhibit, file, old>>

-----------------------------------------------------------------------------
Step(s) ==
  \/ Begin(s)
  \/ SelectRows(s)
  \/ \E e \in Event : Unlink(s, e)
  \/ DeleteRefused(s)
  \/ DeleteRows(s)
  \/ DeleteTrails(s)

Next ==
  \/ \E e \in Event : Ingest(e) \/ AddEvidence(e)
  \/ \E a \in Alert : Acknowledge(a)
  \/ \E f \in Snapshot : Ages(f)
  \/ \E s \in Sweeper : Step(s) \/ SweepFails(s)
  \/ \E s \in Sweeper, e \in Event : UnlinkRefused(s, e)

Spec == Init /\ [][Next]_vars

(* The loop of a worker starts a sweep every day and each sweep runs to its *)
(* end unless it fails.                                                     *)
FairSpec == Spec /\ \A s \in Sweeper : WF_vars(Step(s))

-----------------------------------------------------------------------------
(* Expired frames that show a recorded detection no alert refers to.        *)
Lapsed ==
  {f \in old : \E e \in Event : Shot[e] = f /\ row[e] # "none" /\ e \notin Referenced}

(* The event an alert refers to stays, and so does the frame an operator    *)
(* opens from its card, whatever sweeps overlap and fail: unless the frame  *)
(* has expired and shows another detection too, of which no alert is left   *)
(* (all detections of a frame share one file).  The sweep unlinks files     *)
(* before the foreign key can object, so it is the SELECT of purge_expired  *)
(* that has to protect them.                                                *)
AlertKeepsEvidence ==
  \A a \in Raised :
    row[alert[a].event] = "stored" /\ alert[a].shot \in file \cup Lapsed

(* An event put in a case is still there, also when it was put there after  *)
(* a sweep selected it.                                                     *)
CaseKeepsEvent == \A e \in exhibit : row[e] = "stored"

(* No file outlives the last row that leads to it: nothing would ever       *)
(* remove it, a sweep finds files through rows only.                        *)
NoOrphanFile == \A f \in file : \E e \in Event : Shot[e] = f /\ row[e] = "stored"

(* A sweep removes nothing that was recorded within the retention time.     *)
RecentSurvives ==
  [][/\ file \ file' \subseteq old
     /\ \A e \in Event : row'[e] = "purged" => row[e] = "purged" \/ Shot[e] \in old
     /\ \A e \in trail \ trail' : Shot[e] \in old]_vars

(* "Always leaves alone anything an Alert still references" (the docstring  *)
(* of services/retention.py): the picture too.  Not so when the frame shows *)
(* another detection.                                                       *)
AlertKeepsPicture == \A a \in Raised : alert[a].shot \in file

(* What docs/deployment.md promises: an expired detection no alert refers   *)
(* to is purged.                                                            *)
ExpiredPurged ==
  \A e \in Event :
    (row[e] = "stored" /\ Shot[e] \in old /\ e \notin Referenced)
      ~> row[e] = "purged"

=============================================================================
