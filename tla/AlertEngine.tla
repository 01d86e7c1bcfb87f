---------------------------- MODULE AlertEngine ----------------------------
(***************************************************************************)
(* Concurrent ingest of detections and the alert inbox they feed           *)
(* (services/pipeline.py, services/matching.py, api/ingest.py and the      *)
(* acknowledge handler of api/alerts.py).                                  *)
(*                                                                         *)
(* A delivery is one run of push_detection (an adapter's signed envelope)  *)
(* or of ingest_detection called by a worker.  Several run at once, in     *)
(* several processes, each in its own READ COMMITTED transaction; every    *)
(* action below is one round trip to PostgreSQL or Redis, so everything    *)
(* that can interleave does.  What a transaction has written is private to *)
(* it (target, newHits, via) until Commit; what it has locked is derived   *)
(* from how far it has got (Holds...).                                     *)
(*                                                                         *)
(* An alert row is named by the delivery that inserted it.                 *)
(***************************************************************************)
EXTENDS Naturals, FiniteSets

CONSTANTS
  Delivery,     \* runs of push_detection / ingest_detection
  Envelope,     \* what a delivery may carry: a set of records, see below
  Camera,       \* camera ids, registered or not
  Registered,   \* the cameras the cameras table has a row for
  Entry,        \* active watchlist entries
  NoEntry,      \* the best match of a detection that matches no entry
  Adapter,      \* departmental adapters
  Worker,       \* "adapter" of a detection a worker ingests in process
  Operator,     \* control-room users who acknowledge alerts
  None          \* no alert row, no delivery

(***************************************************************************)
(* event and seq are the envelope's replay identity, entry the best match  *)
(* of maybe_raise_alert over the watchlist, ts the detection's timestamp.  *)
(***************************************************************************)
EnvelopeType ==
  [adapter: Adapter \cup {Worker}, event: Nat, seq: Nat,
   camera: Camera, entry: Entry \cup {NoEntry}, ts: Nat]

ASSUME EnvelopeAssumption == Envelope \subseteq EnvelopeType
ASSUME CameraAssumption   == Registered \subseteq Camera
ASSUME NoneAssumption     == None \notin Delivery /\ None \notin Envelope
ASSUME NoEntryAssumption  == NoEntry \notin Entry
ASSUME WorkerAssumption   == Worker \notin Adapter

VARIABLES
  pc,         \* how far each delivery has got
  env,        \* the envelope a delivery carries
  dirty,      \* the columns of its camera row a delivery's flush will UPDATE
  target,     \* the alert row the delivery selected, locked or wrote
  newHits,    \* the hit_count it will leave in that row
  via,        \* how it came to write the row
  lastSeen,   \* committed cameras.last_seen_at
  recorded,   \* deliveries whose transaction committed
  status,     \* committed alerts.status, "none" where there is no row
  hits,       \* committed hit_count of an alert's payload
  credit,     \* the alert row a committed delivery was counted in
  published,  \* deliveries whose alert message reached the bus
  ackPc,      \* how far each operator's acknowledge request has got
  ackRow,     \* the alert it was sent for
  ackSibling  \* the other open row of that alert's group

delVars  == <<pc, env, dirty, target, newHits, via>>
rowVars  == <<recorded, status, hits, credit>>
ackVars  == <<ackPc, ackRow, ackSibling>>
vars     == <<delVars, rowVars, ackVars, lastSeen, published>>

-----------------------------------------------------------------------------

(* Outcomes of a delivery: HTTP 200, 401, 404, 409 and everything else.    *)
Answered == {"accepted", "refused", "unknown", "duplicate", "failed"}

(* A transaction is open and nothing of it has committed.                  *)
InFlight == {"begun", "fresh", "receipted", "loaded", "touched", "unmatched",
             "locking", "locked", "inserting", "reselect", "stale",
             "written", "announced"}

(* From the flush of the receipt, of the camera row, of the alert row on.  *)
Receipted == InFlight \ {"begun", "fresh"}
Touched   == Receipted \ {"receipted", "loaded"}
Written   == {"written", "announced"}
Targeted  == {"locking", "locked", "stale"} \cup Written

Label == InFlight \cup Answered \cup {"idle", "committed"}

TypeOK ==
  /\ pc \in [Delivery -> Label]
  /\ env \in [Delivery -> Envelope \cup {None}]
  /\ \A r \in Delivery : pc[r] # "idle" => env[r] \in Envelope
  /\ dirty \in [Delivery -> SUBSET {"status", "last_seen_at"}]
  /\ target \in [Delivery -> Delivery \cup {None}]
  /\ \A r \in Delivery : pc[r] \in Targeted => target[r] \in Delivery
  /\ newHits \in [Delivery -> Nat]
  /\ via \in [Delivery -> {"none", "insert", "lock", "fallback"}]
  /\ lastSeen \in [Registered -> Nat]
  /\ recorded \in SUBSET Delivery
  /\ status \in [Delivery -> {"none", "new", "acknowledged"}]
  /\ hits \in [Delivery -> Nat]
  /\ credit \in [Delivery -> Delivery \cup {None}]
  /\ published \in SUBSET Delivery
  /\ ackPc \in [Operator -> {"idle", "taken", "sought", "closed"}]
  /\ ackRow \in [Operator -> Delivery \cup {None}]
  /\ ackSibling \in [Operator -> Delivery \cup {None}]

-----------------------------------------------------------------------------

FromAdapter(r) == env[r].adapter \in Adapter

(* The two unique constraints of ingest_receipts.                          *)
SameReceipt(r, q) ==
  /\ FromAdapter(r) /\ FromAdapter(q)
  /\ env[r].adapter = env[q].adapter
  /\ env[r].event = env[q].event \/ env[r].seq = env[q].seq

(* alert_fingerprint: the dedup key of an alert.                           *)
SameKey(r, q) ==
  env[r].entry = env[q].entry /\ env[r].camera = env[q].camera

(* The committed open rows a SELECT ... WHERE status = 'new' of r returns. *)
OpenRows(r) == {a \in Delivery : status[a] = "new" /\ SameKey(a, r)}

(* Uncommitted work that makes others wait.                                *)
HoldsReceipt(r) == pc[r] \in Receipted /\ FromAdapter(r)
HoldsCamera(r)  == pc[r] \in Touched /\ dirty[r] # {}
HoldsInsert(r)  == pc[r] \in Written /\ via[r] = "insert"
Updates(r, a)   == pc[r] \in Written /\ via[r] # "insert" /\ target[r] = a
Locks(r, a)     == (pc[r] = "locked" /\ target[r] = a) \/ Updates(r, a)
Closes(o, a)    == \/ ackPc[o] # "idle" /\ ackRow[o] = a
                   \/ ackPc[o] = "closed" /\ ackSibling[o] = a

RowFree(a) == /\ \A q \in Delivery : ~ Locks(q, a)
              /\ \A o \in Operator : ~ Closes(o, a)

-----------------------------------------------------------------------------

Init ==
  /\ pc = [r \in Delivery |-> "idle"]
  /\ env = [r \in Delivery |-> None]
  /\ dirty = [r \in Delivery |-> {}]
  /\ target = [r \in Delivery |-> None]
  /\ newHits = [r \in Delivery |-> 0]
  /\ via = [r \in Delivery |-> "none"]
  /\ lastSeen \in [Registered -> {e.ts : e \in Envelope} \cup {0}]
  /\ recorded = {}
  /\ status = [r \in Delivery |-> "none"]
  /\ hits = [r \in Delivery |-> 0]
  /\ credit = [r \in Delivery |-> None]
  /\ published = {}
  /\ ackPc = [o \in Operator |-> "idle"]
  /\ ackRow = [o \in Operator |-> None]
  /\ ackSibling = [o \in Operator |-> None]

Goto(r, label) == pc' = [pc EXCEPT ![r] = label]

(* A step that leaves everything but the delivery's position alone.        *)
Step(r, label) ==
  /\ Goto(r, label)
  /\ UNCHANGED <<env, dirty, target, newHits, via, rowVars, ackVars, lastSeen, published>>

(* The transaction of r ends without committing and the caller is told.    *)
RollBack(r, outcome) ==
  /\ Goto(r, outcome)
  /\ dirty' = [dirty EXCEPT ![r] = {}]
  /\ target' = [target EXCEPT ![r] = None]
  /\ newHits' = [newHits EXCEPT ![r] = 0]
  /\ via' = [via EXCEPT ![r] = "none"]
  /\ UNCHANGED <<env, rowVars, ackVars, lastSeen, published>>

(***************************************************************************)
(* A request arrives.  An adapter may send an envelope again, and two      *)
(* deliveries of one envelope may overlap.  A worker calls the pipeline    *)
(* directly, without a receipt.                                            *)
(***************************************************************************)
Deliver(r, e) ==
  /\ pc[r] = "idle"
  /\ env' = [env EXCEPT ![r] = e]
  /\ Goto(r, IF e.adapter = Worker THEN "receipted" ELSE "begun")
  /\ UNCHANGED <<dirty, target, newHits, via, rowVars, ackVars, lastSeen, published>>

(* 401: the signature does not verify or issued_at is out of the window.   *)
Refuse(r) ==
  /\ pc[r] = "begun"
  /\ RollBack(r, "refused")

(* The SELECT for an earlier receipt sees committed receipts only.         *)
CheckReplay(r) ==
  /\ pc[r] = "begun"
  /\ IF \E q \in recorded : SameReceipt(r, q)
       THEN RollBack(r, "duplicate")
       ELSE Step(r, "fresh")

(***************************************************************************)
(* INSERT of the receipt, flushed by the first query that follows.  It     *)
(* waits for a transaction holding a conflicting receipt and fails if that *)
(* one has committed: IntegrityError, rollback, 409.                       *)
(***************************************************************************)
AddReceipt(r) ==
  /\ pc[r] = "fresh"
  /\ \A q \in Delivery : HoldsReceipt(q) => ~ SameReceipt(r, q)
  /\ IF \E q \in recorded : SameReceipt(r, q)
       THEN RollBack(r, "duplicate")
       ELSE Step(r, "receipted")

(***************************************************************************)
(* db.get(Camera).  The flush will UPDATE a column only if it gets a value *)
(* other than the loaded one: last_seen_at, and status when the health     *)
(* loop had put the camera offline, which may always have happened.        *)
(***************************************************************************)
LoadCamera(r) ==
  /\ pc[r] = "receipted"
  /\ env[r].camera \in Registered
  /\ \E offline \in SUBSET {"status"} :
       dirty' = [dirty EXCEPT
                   ![r] = IF lastSeen[env[r].camera] = env[r].ts
                            THEN offline ELSE offline \cup {"last_seen_at"}]
  /\ Goto(r, "loaded")
  /\ UNCHANGED <<env, target, newHits, via, rowVars, ackVars, lastSeen, published>>

(* ingest_detection returns None; the receipt goes with the session.       *)
UnknownCamera(r) ==
  /\ pc[r] = "receipted"
  /\ env[r].camera \notin Registered
  /\ RollBack(r, "unknown")

(***************************************************************************)
(* Event, track point and camera row are flushed before the watchlist is   *)
(* read; the UPDATE of the camera row waits for any other one.             *)
(***************************************************************************)
TouchCamera(r) ==
  /\ pc[r] = "loaded"
  /\ dirty[r] # {} => \A q \in Delivery :
                        HoldsCamera(q) => env[q].camera # env[r].camera
  /\ Step(r, IF env[r].entry = NoEntry THEN "unmatched" ELSE "touched")

(* SELECT ... FOR UPDATE: the statement's snapshot picks the open row...   *)
SelectOpen(r) ==
  /\ pc[r] = "touched"
  /\ IF OpenRows(r) = {}
       THEN Goto(r, "inserting") /\ UNCHANGED target
       ELSE /\ \E a \in OpenRows(r) : target' = [target EXCEPT ![r] = a]
            /\ Goto(r, "locking")
  /\ UNCHANGED <<env, dirty, newHits, via, rowVars, ackVars, lastSeen, published>>

(* Fault: with_for_update() is missing.                                    *)
LockOpenUnlocked(r) == pc[r] = "locking" /\ Step(r, "locked")

(* Fault: the caller keeps waiting for the row it selected to be open.     *)
LockOpenStubborn(r) ==
  /\ pc[r] = "locking"
  /\ RowFree(target[r])
  /\ status[target[r]] = "new"
  /\ Step(r, "locked")

(* ... waits for its lock, and drops it if it is no longer open.           *)
LockOpen(r) ==
  /\ pc[r] = "locking"
  /\ RowFree(target[r])
  /\ IF status[target[r]] = "new"
       THEN Goto(r, "locked") /\ UNCHANGED target
       ELSE Goto(r, "inserting") /\ target' = [target EXCEPT ![r] = None]
  /\ UNCHANGED <<env, dirty, newHits, via, rowVars, ackVars, lastSeen, published>>

(* _bump_open_alert on the locked row: read hit_count, write it plus one.  *)
BumpLocked(r) ==
  /\ pc[r] = "locked"
  /\ newHits' = [newHits EXCEPT ![r] = hits[target[r]] + 1]
  /\ via' = [via EXCEPT ![r] = "lock"]
  /\ Goto(r, "written")
  /\ UNCHANGED <<env, dirty, target, rowVars, ackVars, lastSeen, published>>

WriteNewRow(r) ==
  /\ target' = [target EXCEPT ![r] = r]
  /\ newHits' = [newHits EXCEPT ![r] = 1]
  /\ via' = [via EXCEPT ![r] = "insert"]
  /\ Goto(r, "written")

(* Fault: there is no unique index on open rows.                           *)
InsertAlertUnindexed(r) ==
  /\ pc[r] = "inserting"
  /\ WriteNewRow(r)
  /\ UNCHANGED <<env, dirty, rowVars, ackVars, lastSeen, published>>

(* Fault: the row is written by a session, and a commit, of its own.       *)
InsertAlertApart(r) ==
  /\ pc[r] = "inserting"
  /\ OpenRows(r) = {}
  /\ WriteNewRow(r)
  /\ status' = [status EXCEPT ![r] = "new"]
  /\ hits' = [hits EXCEPT ![r] = 1]
  /\ UNCHANGED <<env, dirty, recorded, credit, ackVars, lastSeen, published>>

(***************************************************************************)
(* INSERT in a savepoint.  The partial unique index on open rows makes it  *)
(* wait for an uncommitted row of the same key and for an uncommitted      *)
(* UPDATE of the open one; a committed open row is a unique violation,     *)
(* which undoes the savepoint only.                                        *)
(***************************************************************************)
InsertAlert(r) ==
  /\ pc[r] = "inserting"
  /\ \A q \in Delivery : HoldsInsert(q) => ~ SameKey(q, r)
  /\ \A a \in OpenRows(r) : /\ \A q \in Delivery : ~ Updates(q, a)
                            /\ \A o \in Operator : ~ Closes(o, a)
  /\ IF OpenRows(r) = {}
       THEN WriteNewRow(r)
       ELSE Goto(r, "reselect") /\ UNCHANGED <<target, newHits, via>>
  /\ UNCHANGED <<env, dirty, rowVars, ackVars, lastSeen, published>>

(* The handler of IntegrityError reads the open row again, without a lock. *)
Reselect(r) ==
  /\ pc[r] = "reselect"
  /\ \E a \in OpenRows(r) :
       /\ target' = [target EXCEPT ![r] = a]
       /\ newHits' = [newHits EXCEPT ![r] = hits[a] + 1]
  /\ Goto(r, "stale")
  /\ UNCHANGED <<env, dirty, via, rowVars, ackVars, lastSeen, published>>

(***************************************************************************)
(* No open row any more: the IntegrityError is raised again.               *)
(* push_detection answers every IntegrityError with 409; in a worker it    *)
(* ends the batch.                                                         *)
(***************************************************************************)
Reraise(r) ==
  /\ pc[r] = "reselect"
  /\ OpenRows(r) = {}
  /\ RollBack(r, IF FromAdapter(r) THEN "duplicate" ELSE "failed")

(* _bump_open_alert on the row as re-read: the UPDATE goes by primary key, *)
(* waits for the row, and writes what was computed from the earlier read.  *)
BumpStale(r) ==
  /\ pc[r] = "stale"
  /\ RowFree(target[r])
  /\ via' = [via EXCEPT ![r] = "fallback"]
  /\ Goto(r, "written")
  /\ UNCHANGED <<env, dirty, target, newHits, rowVars, ackVars, lastSeen, published>>

(* bus.publish_alert, inside the transaction.                              *)
PublishAlert(r) ==
  /\ pc[r] = "written"
  /\ published' = published \cup {r}
  /\ Goto(r, "announced")
  /\ UNCHANGED <<env, dirty, target, newHits, via, rowVars, ackVars, lastSeen>>

(* The detection and its camera row, apart from what happens to the alert. *)
CommitDetection(r) ==
  /\ pc[r] \in {"unmatched", "announced"}
  /\ recorded' = recorded \cup {r}
  /\ lastSeen' = [lastSeen EXCEPT
                    ![env[r].camera] = IF "last_seen_at" \in dirty[r]
                                         THEN env[r].ts ELSE @]
  /\ credit' = [credit EXCEPT ![r] = target[r]]
  /\ Goto(r, "committed")
  /\ dirty' = [dirty EXCEPT ![r] = {}]
  /\ target' = [target EXCEPT ![r] = None]
  /\ newHits' = [newHits EXCEPT ![r] = 0]
  /\ UNCHANGED <<env, via, ackVars, published>>

(* Fault: a bump writes the whole row back, its status included.           *)
CommitReopening(r) ==
  /\ CommitDetection(r)
  /\ hits' = [a \in Delivery |-> IF a = target[r] THEN newHits[r] ELSE hits[a]]
  /\ status' = [a \in Delivery |-> IF a = target[r] THEN "new" ELSE status[a]]

(* Receipt, detection, camera row and alert row become visible at once; a  *)
(* bump does not write the status column.                                  *)
Commit(r) ==
  /\ CommitDetection(r)
  /\ hits' = [a \in Delivery |-> IF a = target[r] THEN newHits[r] ELSE hits[a]]
  /\ status' = [a \in Delivery |-> IF a = target[r] /\ via[r] = "insert"
                                     THEN "new" ELSE status[a]]

(* publish_event and set_json after the commit, then the answer.           *)
Reply(r) ==
  /\ pc[r] = "committed"
  /\ Step(r, "accepted")

(***************************************************************************)
(* The process dies, or PostgreSQL or Redis raises: the transaction is     *)
(* rolled back and the caller gets no answer, or a 500.  After the commit  *)
(* it is only the answer that is lost.                                     *)
(***************************************************************************)
Fail(r) ==
  /\ pc[r] \in InFlight \cup {"committed"}
  /\ IF pc[r] = "committed"
       THEN Step(r, "failed")
       ELSE RollBack(r, "failed")

-----------------------------------------------------------------------------

(***************************************************************************)
(* ack_alert.  The alert is looked up by id, whatever its status; the      *)
(* query for its siblings flushes its UPDATE first.                        *)
(***************************************************************************)
AckTake(o, a) ==
  /\ ackPc[o] = "idle"
  /\ status[a] # "none"
  /\ RowFree(a)
  /\ ackPc' = [ackPc EXCEPT ![o] = "taken"]
  /\ ackRow' = [ackRow EXCEPT ![o] = a]
  /\ UNCHANGED <<delVars, rowVars, ackSibling, lastSeen, published>>

(* The other open rows of the group, as committed now.                     *)
AckSeek(o) ==
  /\ ackPc[o] = "taken"
  /\ LET siblings == OpenRows(ackRow[o]) \ {ackRow[o]} IN
       IF siblings = {}
         THEN UNCHANGED ackSibling
         ELSE \E s \in siblings : ackSibling' = [ackSibling EXCEPT ![o] = s]
  /\ ackPc' = [ackPc EXCEPT ![o] = "sought"]
  /\ UNCHANGED <<delVars, rowVars, ackRow, lastSeen, published>>

(* The UPDATE of the siblings, flushed with the audit row.                 *)
AckClose(o) ==
  /\ ackPc[o] = "sought"
  /\ ackSibling[o] # None => RowFree(ackSibling[o])
  /\ ackPc' = [ackPc EXCEPT ![o] = "closed"]
  /\ UNCHANGED <<delVars, rowVars, ackRow, ackSibling, lastSeen, published>>

(* The session of the request is closed.                                   *)
AckEnd(o) ==
  /\ ackPc' = [ackPc EXCEPT ![o] = "idle"]
  /\ ackRow' = [ackRow EXCEPT ![o] = None]
  /\ ackSibling' = [ackSibling EXCEPT ![o] = None]

AckCommit(o) ==
  /\ ackPc[o] = "closed"
  /\ status' = [a \in Delivery |-> IF a \in {ackRow[o], ackSibling[o]}
                                     THEN "acknowledged" ELSE status[a]]
  /\ AckEnd(o)
  /\ UNCHANGED <<delVars, recorded, hits, credit, lastSeen, published>>

AckFail(o) ==
  /\ ackPc[o] # "idle"
  /\ AckEnd(o)
  /\ UNCHANGED <<delVars, rowVars, lastSeen, published>>

-----------------------------------------------------------------------------

(* What a running delivery, and a running acknowledge request, does next.  *)
Advance(r) ==
  \/ CheckReplay(r) \/ AddReceipt(r) \/ LoadCamera(r) \/ UnknownCamera(r)
  \/ TouchCamera(r) \/ SelectOpen(r) \/ LockOpen(r) \/ BumpLocked(r)
  \/ InsertAlert(r) \/ Reselect(r) \/ Reraise(r) \/ BumpStale(r)
  \/ PublishAlert(r) \/ Commit(r) \/ Reply(r)

AckAdvance(o) == AckSeek(o) \/ AckClose(o) \/ AckCommit(o)

(* Every delivery has been answered and no request is under way.           *)
Quiet ==
  /\ \A r \in Delivery : pc[r] \in Answered
  /\ \A o \in Operator : ackPc[o] = "idle"
  /\ UNCHANGED vars

Next ==
  \/ \E r \in Delivery : \/ \E e \in Envelope : Deliver(r, e)
                         \/ Refuse(r) \/ Advance(r) \/ Fail(r)
  \/ \E o \in Operator : \/ \E a \in Delivery : AckTake(o, a)
                         \/ AckAdvance(o) \/ AckFail(o)
  \/ Quiet

Spec == Init /\ [][Next]_vars

(***************************************************************************)
(* The event loops keep serving started requests, and PostgreSQL grants a  *)
(* lock in the order of its queue: a request whose row is free again and   *)
(* again gets it (strong fairness).  Nobody has to send a request.         *)
(***************************************************************************)
Fairness == /\ \A r \in Delivery : SF_vars(Advance(r))
            /\ \A o \in Operator : SF_vars(AckAdvance(o))

FairSpec == Spec /\ Fairness

-----------------------------------------------------------------------------
(***************************************************************************)
(* What the engine promises.                                               *)
(***************************************************************************)

(* The inbox never holds two open alerts of one watchlist entry on one     *)
(* camera, whatever inserts, bumps, acknowledgements and failures overlap  *)
(* (the partial unique index, the savepoint and its fallback).             *)
OneOpenAlert ==
  \A a, b \in Delivery :
    status[a] = "new" /\ status[b] = "new" /\ SameKey(a, b) => a = b

(* A detection an adapter sends is recorded at most once, even when two    *)
(* deliveries of it overlap or its answer is lost and it is sent again     *)
(* (push_detection's look-up and the constraints of ingest_receipts).      *)
RecordedOnce ==
  \A r, q \in recorded : SameReceipt(r, q) => r = q

(* A bump that found its row under FOR UPDATE writes one more than the     *)
(* committed count, into a row that is still open: no acknowledgement and  *)
(* no other bump comes between its read and its commit.                    *)
LockedBumpIsCurrent ==
  \A r \in Delivery : pc[r] \in Written /\ via[r] = "lock" =>
    status[target[r]] = "new" /\ newHits[r] = hits[target[r]] + 1

Counted(a) == {r \in recorded : credit[r] = a}

(* The number on a card is never more than the detections counted in it,   *)
(* and exactly that unless one of them took the unlocked fallback of       *)
(* maybe_raise_alert, which can overwrite another's count.                 *)
HitCountSound ==
  \A a \in Delivery : status[a] # "none" =>
    /\ hits[a] \in 1 .. Cardinality(Counted(a))
    /\ (\A r \in Counted(a) : via[r] # "fallback")
         => hits[a] = Cardinality(Counted(a))

(* A committed detection that matched is counted in an alert row of its    *)
(* own watchlist entry and camera, and an alert row has its detection:     *)
(* neither is ever committed without the other (one transaction).          *)
DetectionHasAlert ==
  /\ \A r \in recorded : env[r].entry # NoEntry =>
       /\ credit[r] \in recorded /\ SameKey(credit[r], r)
       /\ status[credit[r]] # "none"
  /\ \A a \in Delivery : status[a] # "none" => credit[a] = a

(* A delivery answered 401, 404 or 409 has put nothing on the alert bus:   *)
(* the console never shows an alert whose sender was told it was rejected. *)
RejectedIsSilent ==
  \A r \in published : pc[r] \notin {"refused", "unknown", "duplicate"}

(* Every started delivery is answered: waits for receipts, camera rows,    *)
(* alert rows and the unique index never form a cycle or starve.           *)
DeliveryIsAnswered ==
  \A r \in Delivery : pc[r] \in InFlight ~> pc[r] \in Answered

(***************************************************************************)
(* What the repository says and the code does not keep.                    *)
(***************************************************************************)

(* "Duplicate ingest envelope" (api/ingest.py): an adapter told 409 has    *)
(* its detection on record already.                                        *)
DuplicateIsDuplicate ==
  \A r \in Delivery : pc[r] = "duplicate" =>
    \E q \in recorded : SameReceipt(r, q)

(* "same plate on same camera = xN hit counter" (PROJECT_OVERVIEW.md): N   *)
(* is the number of detections counted in the card.                        *)
HitCountExact ==
  \A a \in Delivery : status[a] # "none" =>
    hits[a] = Cardinality(Counted(a))

(* "Alerts still publish on bus (best-effort); durable write retried"      *)
(* (docs/architecture.md): a worker's published alert is not given up      *)
(* without its row.                                                        *)
PublishedIsDurable ==
  \A r \in published : pc[r] \in Answered => r \in recorded

-----------------------------------------------------------------------------
(***************************************************************************)
(* The inbox an operator is promised, and what of this state it sees:      *)
(* committed rows only.                                                    *)
(***************************************************************************)
Inbox == INSTANCE AlertInbox WITH
           filed <- [r \in Delivery |-> IF r \in recorded THEN env[r] ELSE None],
           card <- status

(* The engine implements the inbox: detection, count and card change in    *)
(* one step or not at all, and only as AlertInbox allows.                  *)
ImplementsInbox == Inbox!Spec
=============================================================================
