------------------------- MODULE AlertEngineProofs -------------------------
(***************************************************************************)
(* Proofs about AlertEngine, for every set of deliveries, envelopes,       *)
(* cameras, watchlist entries and operators.                               *)
(***************************************************************************)
EXTENDS AlertEngine, TLAPS

-----------------------------------------------------------------------------
(***************************************************************************)
(* Types.                                                                  *)
(***************************************************************************)

(* The steps that move one delivery on and leave the rest alone.           *)
LEMMA StepType ==
  ASSUME TypeOK, NEW r \in Delivery, pc[r] # "idle",
         NEW label \in Label, Step(r, label),
         label \in Targeted => pc[r] \in Targeted
  PROVE  TypeOK'
BY DEF TypeOK, Step, Goto, rowVars, ackVars

(* A rollback clears what the delivery had written.                        *)
LEMMA RollBackType ==
  ASSUME TypeOK, NEW r \in Delivery, pc[r] # "idle",
         NEW outcome \in Answered, RollBack(r, outcome)
  PROVE  TypeOK'
BY DEF TypeOK, RollBack, Goto, Label, Answered, Targeted, Written, rowVars, ackVars

(* A commit writes a natural number into every count and time stamp.       *)
LEMMA CommitType ==
  ASSUME TypeOK, NEW r \in Delivery, Commit(r)
  PROVE  TypeOK'
<1>1. env[r].ts \in Nat
  BY EnvelopeAssumption DEF Commit, CommitDetection, TypeOK, EnvelopeType
<1>2. lastSeen' \in [Registered -> Nat]
  BY <1>1 DEF Commit, CommitDetection, TypeOK
<1>3. /\ hits' \in [Delivery -> Nat]
      /\ status' \in [Delivery -> {"none", "new", "acknowledged"}]
  BY DEF Commit, TypeOK
<1>4. /\ recorded' \in SUBSET Delivery
      /\ credit' \in [Delivery -> Delivery \cup {None}]
      /\ dirty' \in [Delivery -> SUBSET {"status", "last_seen_at"}]
      /\ target' \in [Delivery -> Delivery \cup {None}]
      /\ newHits' \in [Delivery -> Nat]
  BY DEF Commit, CommitDetection, TypeOK
<1>5. /\ pc' \in [Delivery -> Label]
      /\ \A q \in Delivery : pc'[q] # "idle" => env'[q] \in Envelope
      /\ \A q \in Delivery : pc'[q] \in Targeted => target'[q] \in Delivery
  BY DEF Commit, CommitDetection, TypeOK, Goto, Label, Targeted, Written
<1> QED
  BY <1>2, <1>3, <1>4, <1>5 DEF Commit, CommitDetection, TypeOK, ackVars

LEMMA TypeInit == Init => TypeOK
BY EnvelopeAssumption DEF Init, TypeOK, Label, Targeted, Written, EnvelopeType

LEMMA TypeStep ==
  ASSUME TypeOK, [Next]_vars
  PROVE  TypeOK'
<1>1. ASSUME NEW r \in Delivery, NEW e \in Envelope, Deliver(r, e)
      PROVE  TypeOK'
  BY <1>1 DEF Deliver, Goto, TypeOK, Targeted, Written, InFlight, Label, rowVars, ackVars
<1>2. ASSUME NEW r \in Delivery, Refuse(r)
      PROVE  TypeOK'
  BY <1>2, RollBackType DEF Refuse, Answered
<1>3. ASSUME NEW r \in Delivery, CheckReplay(r)
      PROVE  TypeOK'
  BY <1>3, RollBackType, StepType DEF Targeted, Written, CheckReplay, Answered, InFlight, Label
<1>4. ASSUME NEW r \in Delivery, AddReceipt(r)
      PROVE  TypeOK'
  BY <1>4, RollBackType, StepType DEF Targeted, Written, AddReceipt, Answered, InFlight, Label
<1>5. ASSUME NEW r \in Delivery, LoadCamera(r)
      PROVE  TypeOK'
  BY <1>5 DEF LoadCamera, Goto, TypeOK, Targeted, Written, InFlight, Label, rowVars, ackVars
<1>6. ASSUME NEW r \in Delivery, UnknownCamera(r)
      PROVE  TypeOK'
  BY <1>6, RollBackType DEF UnknownCamera, Answered
<1>7. ASSUME NEW r \in Delivery, TouchCamera(r)
      PROVE  TypeOK'
  BY <1>7, StepType DEF Targeted, Written, TouchCamera, InFlight, Label
<1>8. ASSUME NEW r \in Delivery, SelectOpen(r)
      PROVE  TypeOK'
  BY <1>8 DEF SelectOpen, OpenRows, Goto, TypeOK, Targeted, Written, InFlight, Label, rowVars, ackVars
<1>9. ASSUME NEW r \in Delivery, LockOpen(r)
      PROVE  TypeOK'
  BY <1>9 DEF LockOpen, Goto, TypeOK, Targeted, Written, InFlight, Label, rowVars, ackVars
<1>10. ASSUME NEW r \in Delivery, BumpLocked(r)
      PROVE  TypeOK'
  BY <1>10 DEF BumpLocked, Goto, TypeOK, Targeted, Written, InFlight, Label, rowVars, ackVars
<1>11. ASSUME NEW r \in Delivery, InsertAlert(r)
      PROVE  TypeOK'
  BY <1>11 DEF InsertAlert, WriteNewRow, Goto, TypeOK, Targeted, Written, InFlight, Label, rowVars, ackVars
<1>12. ASSUME NEW r \in Delivery, Reselect(r)
      PROVE  TypeOK'
  BY <1>12 DEF Reselect, OpenRows, Goto, TypeOK, Targeted, Written, InFlight, Label, rowVars, ackVars
<1>13. ASSUME NEW r \in Delivery, Reraise(r)
      PROVE  TypeOK'
  BY <1>13, RollBackType DEF Reraise, Answered
<1>14. ASSUME NEW r \in Delivery, BumpStale(r)
      PROVE  TypeOK'
  BY <1>14 DEF BumpStale, Goto, TypeOK, Targeted, Written, InFlight, Label, rowVars, ackVars
<1>15. ASSUME NEW r \in Delivery, PublishAlert(r)
      PROVE  TypeOK'
  BY <1>15 DEF PublishAlert, Goto, TypeOK, Targeted, Written, InFlight, Label, rowVars, ackVars
<1>16. ASSUME NEW r \in Delivery, Commit(r)
      PROVE  TypeOK'
  BY <1>16, CommitType
<1>17. ASSUME NEW r \in Delivery, Reply(r)
      PROVE  TypeOK'
  BY <1>17, StepType DEF Targeted, Written, Reply, Answered, Label
<1>18. ASSUME NEW r \in Delivery, Fail(r)
      PROVE  TypeOK'
  BY <1>18, RollBackType, StepType DEF Targeted, Written, Fail, Answered, InFlight, Label
<1>19. ASSUME NEW o \in Operator, NEW a \in Delivery, AckTake(o, a)
      PROVE  TypeOK'
  BY <1>19 DEF AckTake, TypeOK, delVars, rowVars
<1>20. ASSUME NEW o \in Operator, AckSeek(o)
      PROVE  TypeOK'
  BY <1>20 DEF AckSeek, OpenRows, TypeOK, delVars, rowVars
<1>21. ASSUME NEW o \in Operator, AckClose(o)
      PROVE  TypeOK'
  BY <1>21 DEF AckClose, TypeOK, delVars, rowVars
<1>22. ASSUME NEW o \in Operator, AckCommit(o)
      PROVE  TypeOK'
  BY <1>22 DEF AckCommit, AckEnd, TypeOK, delVars
<1>23. ASSUME NEW o \in Operator, AckFail(o)
      PROVE  TypeOK'
  BY <1>23 DEF AckFail, AckEnd, TypeOK, delVars, rowVars
<1>24. CASE UNCHANGED vars
  BY <1>24 DEF vars, delVars, rowVars, ackVars, TypeOK
<1> QED
  BY <1>1, <1>2, <1>3, <1>4, <1>5, <1>6, <1>7, <1>8, <1>9, <1>10, <1>11, <1>12, <1>13, <1>14, <1>15, <1>16, <1>17, <1>18, <1>19, <1>20, <1>21, <1>22, <1>23, <1>24
  DEF Next, Advance, AckAdvance, Quiet

(* The variables keep their types: every step of every delivery and of     *)
(* every acknowledge request leaves well-formed rows behind.               *)
THEOREM TypeCorrect == Spec => []TypeOK
<1>1. TypeOK /\ [Next]_vars => TypeOK'
  BY TypeStep
<1> QED
  BY TypeInit, <1>1, PTL DEF Spec



-----------------------------------------------------------------------------
(***************************************************************************)
(* Receipts: a delivery past its receipt's INSERT conflicts with no other  *)
(* such delivery and with none on record.                                  *)
(***************************************************************************)

(* A delivery on record is past its commit.                                *)
Settled == \A r \in recorded : pc[r] \in {"committed", "accepted", "failed"}

Receipts ==
  /\ Settled
  /\ RecordedOnce
  /\ \A r, q \in Delivery :
       HoldsReceipt(r) /\ HoldsReceipt(q) /\ SameReceipt(r, q) => r = q
  /\ \A r \in Delivery, q \in recorded : HoldsReceipt(r) => ~ SameReceipt(r, q)

(* Steps that give nobody a receipt keep them apart.                       *)
LEMMA ReceiptsFrame ==
  ASSUME TypeOK, Receipts, recorded' = recorded, Settled',
         \A q \in Delivery : HoldsReceipt(q)' => HoldsReceipt(q),
         \A q \in Delivery : pc[q] # "idle" => env'[q] = env[q]
  PROVE  Receipts'
<1>1. \A q \in Delivery : HoldsReceipt(q) => env'[q] = env[q]
  BY DEF HoldsReceipt, Receipted, InFlight
<1>2. \A q \in recorded : q \in Delivery /\ env'[q] = env[q]
  BY DEF TypeOK, Receipts, Settled
<1>3. RecordedOnce'
  BY <1>2 DEF Receipts, RecordedOnce, SameReceipt, FromAdapter
<1>4. \A r, q \in Delivery :
        HoldsReceipt(r)' /\ HoldsReceipt(q)' /\ SameReceipt(r, q)' => r = q
  BY <1>1 DEF Receipts, SameReceipt, FromAdapter
<1>5. \A r \in Delivery, q \in recorded : HoldsReceipt(r)' => ~ SameReceipt(r, q)'
  BY <1>1, <1>2 DEF Receipts, SameReceipt, FromAdapter
<1> QED
  BY <1>3, <1>4, <1>5 DEF Receipts

LEMMA ReceiptsStep ==
  ASSUME TypeOK, Receipts, [Next]_vars
  PROVE  Receipts'
<1>1. ASSUME NEW r \in Delivery, NEW e \in Envelope, Deliver(r, e)
      PROVE  Receipts'
  BY <1>1, ReceiptsFrame, WorkerAssumption DEF Deliver, Goto, HoldsReceipt, FromAdapter, Receipted, InFlight, Answered, Settled, Receipts, TypeOK, rowVars, delVars
<1>2. ASSUME NEW r \in Delivery, Refuse(r)
      PROVE  Receipts'
  BY <1>2, ReceiptsFrame, WorkerAssumption DEF Refuse, RollBack, Goto, HoldsReceipt, FromAdapter, Receipted, InFlight, Answered, Settled, Receipts, TypeOK, rowVars, delVars
<1>3. ASSUME NEW r \in Delivery, CheckReplay(r)
      PROVE  Receipts'
  BY <1>3, ReceiptsFrame, WorkerAssumption DEF CheckReplay, RollBack, Step, Goto, HoldsReceipt, FromAdapter, Receipted, InFlight, Answered, Settled, Receipts, TypeOK, rowVars, delVars
<1>4. ASSUME NEW r \in Delivery, AddReceipt(r)
      PROVE  Receipts'
  <2>1. CASE \E q \in recorded : SameReceipt(r, q)
    BY <1>4, <2>1, ReceiptsFrame DEF AddReceipt, RollBack, Goto, HoldsReceipt, FromAdapter, Receipted, InFlight, Settled, Receipts, TypeOK, rowVars
  <2>2. CASE ~ \E q \in recorded : SameReceipt(r, q)
    <3>1. /\ pc[r] = "fresh" /\ pc' = [pc EXCEPT ![r] = "receipted"]
          /\ recorded' = recorded /\ env' = env
      BY <1>4, <2>2 DEF AddReceipt, Step, Goto, rowVars
    <3>2. \A q \in Delivery : q # r => HoldsReceipt(q)' = HoldsReceipt(q)
      BY <3>1 DEF HoldsReceipt, FromAdapter, TypeOK
    <3>3. \A p, q \in Delivery : SameReceipt(p, q)' = SameReceipt(p, q)
      BY <3>1 DEF SameReceipt, FromAdapter
    <3>4. \A q \in Delivery : HoldsReceipt(q) => ~ SameReceipt(r, q) /\ ~ SameReceipt(q, r)
      BY <1>4 DEF AddReceipt, SameReceipt
    <3>5. Settled'
      BY <3>1 DEF Settled, Receipts, TypeOK
    <3>6. RecordedOnce'
      BY <3>1, <3>3 DEF RecordedOnce, Receipts, TypeOK
    <3>7. \A p, q \in Delivery :
            HoldsReceipt(p)' /\ HoldsReceipt(q)' /\ SameReceipt(p, q)' => p = q
      BY <3>2, <3>3, <3>4 DEF Receipts
    <3>8. \A p \in Delivery, q \in recorded' : HoldsReceipt(p)' => ~ SameReceipt(p, q)'
      BY <2>2, <3>1, <3>2, <3>3 DEF Receipts, TypeOK
    <3> QED
      BY <3>5, <3>6, <3>7, <3>8 DEF Receipts
  <2> QED
    BY <2>1, <2>2
<1>5. ASSUME NEW r \in Delivery, LoadCamera(r)
      PROVE  Receipts'
  BY <1>5, ReceiptsFrame, WorkerAssumption DEF LoadCamera, Goto, HoldsReceipt, FromAdapter, Receipted, InFlight, Answered, Settled, Receipts, TypeOK, rowVars, delVars
<1>6. ASSUME NEW r \in Delivery, UnknownCamera(r)
      PROVE  Receipts'
  BY <1>6, ReceiptsFrame, WorkerAssumption DEF UnknownCamera, RollBack, Goto, HoldsReceipt, FromAdapter, Receipted, InFlight, Answered, Settled, Receipts, TypeOK, rowVars, delVars
<1>7. ASSUME NEW r \in Delivery, TouchCamera(r)
      PROVE  Receipts'
  BY <1>7, ReceiptsFrame, WorkerAssumption DEF TouchCamera, Step, Goto, HoldsReceipt, FromAdapter, Receipted, InFlight, Answered, Settled, Receipts, TypeOK, rowVars, delVars
<1>8. ASSUME NEW r \in Delivery, SelectOpen(r)
      PROVE  Receipts'
  BY <1>8, ReceiptsFrame, WorkerAssumption DEF SelectOpen, OpenRows, Goto, HoldsReceipt, FromAdapter, Receipted, InFlight, Answered, Settled, Receipts, TypeOK, rowVars, delVars
<1>9. ASSUME NEW r \in Delivery, LockOpen(r)
      PROVE  Receipts'
  BY <1>9, ReceiptsFrame, WorkerAssumption DEF LockOpen, Goto, HoldsReceipt, FromAdapter, Receipted, InFlight, Answered, Settled, Receipts, TypeOK, rowVars, delVars
<1>10. ASSUME NEW r \in Delivery, BumpLocked(r)
      PROVE  Receipts'
  BY <1>10, ReceiptsFrame, WorkerAssumption DEF BumpLocked, Goto, HoldsReceipt, FromAdapter, Receipted, InFlight, Answered, Settled, Receipts, TypeOK, rowVars, delVars
<1>11. ASSUME NEW r \in Delivery, InsertAlert(r)
      PROVE  Receipts'
  BY <1>11, ReceiptsFrame, WorkerAssumption DEF InsertAlert, OpenRows, WriteNewRow, Goto, HoldsReceipt, FromAdapter, Receipted, InFlight, Answered, Settled, Receipts, TypeOK, rowVars, delVars
<1>12. ASSUME NEW r \in Delivery, Reselect(r)
      PROVE  Receipts'
  BY <1>12, ReceiptsFrame, WorkerAssumption DEF Reselect, OpenRows, Goto, HoldsReceipt, FromAdapter, Receipted, InFlight, Answered, Settled, Receipts, TypeOK, rowVars, delVars
<1>13. ASSUME NEW r \in Delivery, Reraise(r)
      PROVE  Receipts'
  BY <1>13, ReceiptsFrame, WorkerAssumption DEF Reraise, OpenRows, RollBack, Goto, HoldsReceipt, FromAdapter, Receipted, InFlight, Answered, Settled, Receipts, TypeOK, rowVars, delVars
<1>14. ASSUME NEW r \in Delivery, BumpStale(r)
      PROVE  Receipts'
  BY <1>14, ReceiptsFrame, WorkerAssumption DEF BumpStale, Goto, HoldsReceipt, FromAdapter, Receipted, InFlight, Answered, Settled, Receipts, TypeOK, rowVars, delVars
<1>15. ASSUME NEW r \in Delivery, PublishAlert(r)
      PROVE  Receipts'
  BY <1>15, ReceiptsFrame, WorkerAssumption DEF PublishAlert, Goto, HoldsReceipt, FromAdapter, Receipted, InFlight, Answered, Settled, Receipts, TypeOK, rowVars, delVars
<1>16. ASSUME NEW r \in Delivery, Commit(r)
      PROVE  Receipts'
  <2>1. /\ pc[r] \in {"unmatched", "announced"} /\ pc' = [pc EXCEPT ![r] = "committed"]
        /\ recorded' = recorded \cup {r} /\ env' = env
    BY <1>16 DEF Commit, CommitDetection, Goto
  <2>2. \A q \in Delivery : HoldsReceipt(q)' => q # r /\ HoldsReceipt(q)
    BY <2>1 DEF HoldsReceipt, FromAdapter, TypeOK, Receipted, InFlight
  <2>3. \A p, q \in Delivery : /\ SameReceipt(p, q)' = SameReceipt(p, q)
                              /\ SameReceipt(p, q) = SameReceipt(q, p)
    BY <2>1 DEF SameReceipt, FromAdapter
  <2>4. FromAdapter(r) => HoldsReceipt(r)
    BY <2>1 DEF HoldsReceipt, Receipted, InFlight
  <2>5. Settled'
    BY <2>1 DEF Settled, Receipts, TypeOK
  <2>6. \A q \in recorded : ~ SameReceipt(r, q)
    BY <2>4 DEF Receipts, SameReceipt
  <2>7. RecordedOnce'
    BY <2>1, <2>3, <2>6 DEF RecordedOnce, Receipts, TypeOK
  <2>8. \A p \in Delivery : HoldsReceipt(p)' => ~ SameReceipt(p, r)
    BY <2>2, <2>4 DEF Receipts, SameReceipt
  <2> QED
    BY <2>1, <2>2, <2>3, <2>5, <2>7, <2>8 DEF Receipts, TypeOK
<1>17. ASSUME NEW r \in Delivery, Reply(r)
      PROVE  Receipts'
  BY <1>17, ReceiptsFrame, WorkerAssumption DEF Reply, Step, Goto, HoldsReceipt, FromAdapter, Receipted, InFlight, Answered, Settled, Receipts, TypeOK, rowVars, delVars
<1>18. ASSUME NEW r \in Delivery, Fail(r)
      PROVE  Receipts'
  BY <1>18, ReceiptsFrame, WorkerAssumption DEF Fail, RollBack, Step, Goto, HoldsReceipt, FromAdapter, Receipted, InFlight, Answered, Settled, Receipts, TypeOK, rowVars, delVars
<1>19. ASSUME NEW o \in Operator, NEW a \in Delivery, AckTake(o, a)
      PROVE  Receipts'
  BY <1>19, ReceiptsFrame, WorkerAssumption DEF AckTake, HoldsReceipt, FromAdapter, Receipted, InFlight, Answered, Settled, Receipts, TypeOK, rowVars, delVars
<1>20. ASSUME NEW o \in Operator, AckSeek(o)
      PROVE  Receipts'
  BY <1>20, ReceiptsFrame, WorkerAssumption DEF AckSeek, OpenRows, HoldsReceipt, FromAdapter, Receipted, InFlight, Answered, Settled, Receipts, TypeOK, rowVars, delVars
<1>21. ASSUME NEW o \in Operator, AckClose(o)
      PROVE  Receipts'
  BY <1>21, ReceiptsFrame, WorkerAssumption DEF AckClose, HoldsReceipt, FromAdapter, Receipted, InFlight, Answered, Settled, Receipts, TypeOK, rowVars, delVars
<1>22. ASSUME NEW o \in Operator, AckCommit(o)
      PROVE  Receipts'
  BY <1>22, ReceiptsFrame, WorkerAssumption DEF AckCommit, AckEnd, HoldsReceipt, FromAdapter, Receipted, InFlight, Answered, Settled, Receipts, TypeOK, rowVars, delVars
<1>23. ASSUME NEW o \in Operator, AckFail(o)
      PROVE  Receipts'
  BY <1>23, ReceiptsFrame, WorkerAssumption DEF AckFail, AckEnd, HoldsReceipt, FromAdapter, Receipted, InFlight, Answered, Settled, Receipts, TypeOK, rowVars, delVars
<1>24. CASE UNCHANGED vars
  BY <1>24, ReceiptsFrame, WorkerAssumption DEF vars, HoldsReceipt, FromAdapter, Receipted, InFlight, Answered, Settled, Receipts, TypeOK, rowVars, delVars
<1> QED
  BY <1>1, <1>2, <1>3, <1>4, <1>5, <1>6, <1>7, <1>8, <1>9, <1>10, 
     <1>11, <1>12, <1>13, <1>14, <1>15, <1>16, <1>17, <1>18, 
     <1>19, <1>20, <1>21, <1>22, <1>23, <1>24
  DEF Next, Advance, AckAdvance, Quiet

-----------------------------------------------------------------------------
(***************************************************************************)
(* Rows: an uncommitted new row is alone on its watchlist entry and        *)
(* camera, with no open row committed there.                               *)
(***************************************************************************)

(* A row's own delivery is past its commit.                                *)
Standing ==
  \A a \in Delivery : status[a] # "none" => pc[a] \in {"committed", "accepted", "failed"}

(* Only a delivery that has found or written a row has a target, and an    *)
(* INSERT makes the row of its own delivery.                               *)
OwnTarget ==
  \A r \in Delivery : /\ pc[r] \notin Targeted => target[r] = None
                      /\ HoldsInsert(r) => target[r] = r

(* An acknowledge request holds rows that exist.                           *)
Acked ==
  \A o \in Operator, a \in Delivery :
    a \in {ackRow[o], ackSibling[o]} => status[a] # "none"

Inserts ==
  /\ Standing
  /\ Acked
  /\ OwnTarget
  /\ OneOpenAlert
  /\ \A r, q \in Delivery :
       HoldsInsert(r) /\ HoldsInsert(q) /\ SameKey(r, q) => r = q
  /\ \A r, a \in Delivery :
       HoldsInsert(r) /\ status[a] = "new" => ~ SameKey(a, r)

(* Steps that open no row and start no INSERT keep rows apart.             *)
LEMMA InsertsFrame ==
  ASSUME TypeOK, Inserts, Standing', Acked', OwnTarget',
         \A a \in Delivery : status'[a] = "new" => status[a] = "new",
         \A q \in Delivery : HoldsInsert(q)' => HoldsInsert(q),
         \A q \in Delivery : pc[q] # "idle" => env'[q] = env[q]
  PROVE  Inserts'
<1>1. \A q \in Delivery : HoldsInsert(q) => env'[q] = env[q]
  BY DEF HoldsInsert, Written
<1>2. \A a \in Delivery : status[a] = "new" => env'[a] = env[a]
  BY DEF Inserts, Standing
<1>3. OneOpenAlert'
  BY <1>2 DEF Inserts, OneOpenAlert, SameKey
<1>4. \A r, q \in Delivery :
        HoldsInsert(r)' /\ HoldsInsert(q)' /\ SameKey(r, q)' => r = q
  BY <1>1 DEF Inserts, SameKey
<1>5. \A r, a \in Delivery :
        HoldsInsert(r)' /\ status'[a] = "new" => ~ SameKey(a, r)'
  BY <1>1, <1>2 DEF Inserts, SameKey
<1> QED
  BY <1>3, <1>4, <1>5 DEF Inserts

(* A rollback leaves committed rows alone and gives up the new one.        *)
LEMMA InsertsRollBack ==
  ASSUME TypeOK, Inserts, NEW r \in Delivery, pc[r] \in InFlight,
         NEW outcome \in Answered, RollBack(r, outcome)
  PROVE  Inserts'
<1>1. /\ pc' = [pc EXCEPT ![r] = outcome] /\ target' = [target EXCEPT ![r] = None]
      /\ status' = status /\ ackRow' = ackRow /\ ackSibling' = ackSibling /\ env' = env
      /\ via' = [via EXCEPT ![r] = "none"]
  BY DEF RollBack, Goto, rowVars, ackVars
<1>2. Standing' /\ Acked'
  BY <1>1 DEF Standing, Acked, Inserts, InFlight, TypeOK
<1>3. \A q \in Delivery : HoldsInsert(q)' => q # r /\ HoldsInsert(q)
  BY <1>1 DEF HoldsInsert, TypeOK
<1>4. OwnTarget'
  BY <1>1, <1>3 DEF OwnTarget, Inserts, TypeOK
<1> QED
  BY <1>1, <1>2, <1>3, <1>4, InsertsFrame

LEMMA InsertsStep ==
  ASSUME TypeOK, Inserts, [Next]_vars
  PROVE  Inserts'
<1>1. ASSUME NEW r \in Delivery, NEW e \in Envelope, Deliver(r, e)
      PROVE  Inserts'
  BY <1>1, InsertsFrame, NoneAssumption DEF Deliver, Goto, HoldsInsert, Acked, Standing, OwnTarget, Inserts, Targeted, Written, InFlight, Answered, TypeOK, rowVars, delVars, ackVars
<1>2. ASSUME NEW r \in Delivery, Refuse(r)
      PROVE  Inserts'
  BY <1>2, InsertsRollBack DEF Refuse, Answered, InFlight
<1>3. ASSUME NEW r \in Delivery, CheckReplay(r)
      PROVE  Inserts'
  <2>1. CASE \E q \in recorded : SameReceipt(r, q)
    BY <1>3, <2>1, InsertsRollBack DEF CheckReplay, Answered, InFlight
  <2>2. CASE ~ \E q \in recorded : SameReceipt(r, q)
    BY <1>3, <2>2, InsertsFrame, NoneAssumption DEF CheckReplay, Step, Goto, HoldsInsert, Acked, Standing, OwnTarget, Inserts, Targeted, Written, InFlight, Answered, TypeOK, rowVars, delVars, ackVars
  <2> QED
    BY <2>1, <2>2
<1>4. ASSUME NEW r \in Delivery, AddReceipt(r)
      PROVE  Inserts'
  <2>1. CASE \E q \in recorded : SameReceipt(r, q)
    BY <1>4, <2>1, InsertsRollBack DEF AddReceipt, Answered, InFlight
  <2>2. CASE ~ \E q \in recorded : SameReceipt(r, q)
    BY <1>4, <2>2, InsertsFrame, NoneAssumption DEF AddReceipt, Step, Goto, HoldsInsert, Acked, Standing, OwnTarget, Inserts, Targeted, Written, InFlight, Answered, TypeOK, rowVars, delVars, ackVars
  <2> QED
    BY <2>1, <2>2
<1>5. ASSUME NEW r \in Delivery, LoadCamera(r)
      PROVE  Inserts'
  BY <1>5, InsertsFrame, NoneAssumption DEF LoadCamera, Goto, HoldsInsert, Acked, Standing, OwnTarget, Inserts, Targeted, Written, InFlight, Answered, TypeOK, rowVars, delVars, ackVars
<1>6. ASSUME NEW r \in Delivery, UnknownCamera(r)
      PROVE  Inserts'
  BY <1>6, InsertsRollBack DEF UnknownCamera, Answered, InFlight
<1>7. ASSUME NEW r \in Delivery, TouchCamera(r)
      PROVE  Inserts'
  BY <1>7, InsertsFrame, NoneAssumption DEF TouchCamera, Step, Goto, HoldsInsert, Acked, Standing, OwnTarget, Inserts, Targeted, Written, InFlight, Answered, TypeOK, rowVars, delVars, ackVars
<1>8. ASSUME NEW r \in Delivery, SelectOpen(r)
      PROVE  Inserts'
  BY <1>8, InsertsFrame, NoneAssumption DEF SelectOpen, OpenRows, Goto, HoldsInsert, Acked, Standing, OwnTarget, Inserts, Targeted, Written, InFlight, Answered, TypeOK, rowVars, delVars, ackVars
<1>9. ASSUME NEW r \in Delivery, LockOpen(r)
      PROVE  Inserts'
  BY <1>9, InsertsFrame, NoneAssumption DEF LockOpen, Goto, HoldsInsert, Acked, Standing, OwnTarget, Inserts, Targeted, Written, InFlight, Answered, TypeOK, rowVars, delVars, ackVars
<1>10. ASSUME NEW r \in Delivery, BumpLocked(r)
      PROVE  Inserts'
  BY <1>10, InsertsFrame, NoneAssumption DEF BumpLocked, Goto, HoldsInsert, Acked, Standing, OwnTarget, Inserts, Targeted, Written, InFlight, Answered, TypeOK, rowVars, delVars, ackVars
<1>11. ASSUME NEW r \in Delivery, InsertAlert(r)
      PROVE  Inserts'
  <2>1. CASE OpenRows(r) = {}
    <3>1. /\ pc[r] = "inserting" /\ pc' = [pc EXCEPT ![r] = "written"]
          /\ env' = env /\ status' = status /\ via' = [via EXCEPT ![r] = "insert"]
          /\ target' = [target EXCEPT ![r] = r]
      BY <1>11, <2>1 DEF InsertAlert, WriteNewRow, Goto, rowVars
    <3>2. \A q \in Delivery : q # r => HoldsInsert(q)' = HoldsInsert(q)
      BY <3>1 DEF HoldsInsert, TypeOK
    <3>3. \A p, q \in Delivery : /\ SameKey(p, q)' = SameKey(p, q)
                                /\ SameKey(p, q) = SameKey(q, p)
      BY <3>1 DEF SameKey
    <3>4. \A q \in Delivery : HoldsInsert(q) => ~ SameKey(q, r)
      BY <1>11 DEF InsertAlert
    <3>5. \A a \in Delivery : status[a] = "new" => ~ SameKey(a, r)
      BY <2>1 DEF OpenRows
    <3>6. Standing'
      BY <3>1 DEF Standing, Inserts, TypeOK
    <3>11. Acked'
      BY <1>11, <3>1 DEF InsertAlert, Acked, Inserts, ackVars
    <3>7. OwnTarget'
      BY <3>1, <3>2 DEF OwnTarget, Inserts, TypeOK, Targeted, Written
    <3>8. OneOpenAlert'
      BY <3>1, <3>3 DEF OneOpenAlert, Inserts
    <3>9. \A p, q \in Delivery :
            HoldsInsert(p)' /\ HoldsInsert(q)' /\ SameKey(p, q)' => p = q
      BY <3>2, <3>3, <3>4 DEF Inserts
    <3>10. \A q, a \in Delivery :
            HoldsInsert(q)' /\ status'[a] = "new" => ~ SameKey(a, q)'
      BY <3>1, <3>2, <3>3, <3>5 DEF Inserts
    <3> QED
      BY <3>6, <3>7, <3>8, <3>9, <3>10, <3>11 DEF Inserts
  <2>2. CASE OpenRows(r) # {}
    BY <1>11, <2>2, InsertsFrame DEF InsertAlert, Goto, HoldsInsert, Acked, Standing, OwnTarget, Inserts, Targeted, Written, InFlight, Answered, TypeOK, rowVars, delVars, ackVars
  <2> QED
    BY <2>1, <2>2
<1>12. ASSUME NEW r \in Delivery, Reselect(r)
      PROVE  Inserts'
  BY <1>12, InsertsFrame, NoneAssumption DEF Reselect, OpenRows, Goto, HoldsInsert, Acked, Standing, OwnTarget, Inserts, Targeted, Written, InFlight, Answered, TypeOK, rowVars, delVars, ackVars
<1>13. ASSUME NEW r \in Delivery, Reraise(r)
      PROVE  Inserts'
  BY <1>13, InsertsRollBack DEF Reraise, Answered, InFlight
<1>14. ASSUME NEW r \in Delivery, BumpStale(r)
      PROVE  Inserts'
  BY <1>14, InsertsFrame, NoneAssumption DEF BumpStale, Goto, HoldsInsert, Acked, Standing, OwnTarget, Inserts, Targeted, Written, InFlight, Answered, TypeOK, rowVars, delVars, ackVars
<1>15. ASSUME NEW r \in Delivery, PublishAlert(r)
      PROVE  Inserts'
  BY <1>15, InsertsFrame, NoneAssumption DEF PublishAlert, Goto, HoldsInsert, Acked, Standing, OwnTarget, Inserts, Targeted, Written, InFlight, Answered, TypeOK, rowVars, delVars, ackVars
<1>16. ASSUME NEW r \in Delivery, Commit(r)
      PROVE  Inserts'
  <2>1. /\ pc[r] \in {"unmatched", "announced"} /\ pc' = [pc EXCEPT ![r] = "committed"]
        /\ env' = env /\ via' = via /\ target' = [target EXCEPT ![r] = None]
        /\ status' = [a \in Delivery |-> IF a = target[r] /\ via[r] = "insert"
                                           THEN "new" ELSE status[a]]
    BY <1>16 DEF Commit, CommitDetection, Goto
  <2>2. CASE HoldsInsert(r)
    <3>1. target[r] = r
      BY <2>2 DEF Inserts, OwnTarget
    <3>2. status' = [status EXCEPT ![r] = "new"]
      BY <2>1, <2>2, <3>1 DEF HoldsInsert, TypeOK
    <3>3. \A q \in Delivery : HoldsInsert(q)' => q # r /\ HoldsInsert(q) /\ target'[q] = target[q]
      BY <2>1 DEF HoldsInsert, TypeOK, Written
    <3>4. \A p, q \in Delivery : /\ SameKey(p, q)' = SameKey(p, q)
                                /\ SameKey(p, q) = SameKey(q, p)
      BY <2>1 DEF SameKey
    <3>5. Standing'
      BY <2>1, <3>2 DEF Standing, Inserts, TypeOK
    <3>10. Acked'
      BY <1>16, <3>2 DEF Commit, CommitDetection, Acked, Inserts, TypeOK, ackVars
    <3>6. OwnTarget'
      BY <2>1, <3>3 DEF OwnTarget, Inserts, TypeOK, Targeted, Written
    <3>7. OneOpenAlert'
      BY <2>2, <3>2, <3>4 DEF OneOpenAlert, Inserts, TypeOK
    <3>8. \A q, a \in Delivery :
            HoldsInsert(q)' /\ status'[a] = "new" => ~ SameKey(a, q)'
      BY <2>2, <3>2, <3>3, <3>4 DEF Inserts, TypeOK
    <3> QED
      BY <3>3, <3>4, <3>5, <3>6, <3>7, <3>8, <3>10 DEF Inserts
  <2>3. CASE ~ HoldsInsert(r)
    <3>1. status' = status
      BY <2>1, <2>3, NoneAssumption DEF HoldsInsert, Inserts, OwnTarget, Targeted, Written, TypeOK
    <3>3. Acked'
      BY <1>16, <3>1 DEF Commit, CommitDetection, Acked, Inserts, ackVars
    <3>2. Standing' /\ OwnTarget'
      BY <2>1, <3>1 DEF Standing, OwnTarget, HoldsInsert, Inserts, Targeted, Written, TypeOK
    <3> QED
      BY <2>1, <3>1, <3>2, <3>3, InsertsFrame DEF HoldsInsert, Written, TypeOK
  <2> QED
    BY <2>2, <2>3
<1>17. ASSUME NEW r \in Delivery, Reply(r)
      PROVE  Inserts'
  BY <1>17, InsertsFrame, NoneAssumption DEF Reply, Step, Goto, HoldsInsert, Acked, Standing, OwnTarget, Inserts, Targeted, Written, InFlight, Answered, TypeOK, rowVars, delVars, ackVars
<1>18. ASSUME NEW r \in Delivery, Fail(r)
      PROVE  Inserts'
  BY <1>18, InsertsFrame, NoneAssumption DEF Fail, RollBack, Step, Goto, HoldsInsert, Acked, Standing, OwnTarget, Inserts, Targeted, Written, InFlight, Answered, TypeOK, rowVars, delVars, ackVars
<1>19. ASSUME NEW o \in Operator, NEW a \in Delivery, AckTake(o, a)
      PROVE  Inserts'
  BY <1>19, InsertsFrame, NoneAssumption DEF AckTake, HoldsInsert, Acked, Standing, OwnTarget, Inserts, Targeted, Written, InFlight, Answered, TypeOK, rowVars, delVars, ackVars
<1>20. ASSUME NEW o \in Operator, AckSeek(o)
      PROVE  Inserts'
  BY <1>20, InsertsFrame, NoneAssumption DEF AckSeek, OpenRows, HoldsInsert, Acked, Standing, OwnTarget, Inserts, Targeted, Written, InFlight, Answered, TypeOK, rowVars, delVars, ackVars
<1>21. ASSUME NEW o \in Operator, AckClose(o)
      PROVE  Inserts'
  BY <1>21, InsertsFrame, NoneAssumption DEF AckClose, HoldsInsert, Acked, Standing, OwnTarget, Inserts, Targeted, Written, InFlight, Answered, TypeOK, rowVars, delVars, ackVars
<1>22. ASSUME NEW o \in Operator, AckCommit(o)
      PROVE  Inserts'
  BY <1>22, InsertsFrame, NoneAssumption DEF AckCommit, AckEnd, HoldsInsert, Acked, Standing, OwnTarget, Inserts, Targeted, Written, InFlight, Answered, TypeOK, rowVars, delVars, ackVars
<1>23. ASSUME NEW o \in Operator, AckFail(o)
      PROVE  Inserts'
  BY <1>23, InsertsFrame, NoneAssumption DEF AckFail, AckEnd, HoldsInsert, Acked, Standing, OwnTarget, Inserts, Targeted, Written, InFlight, Answered, TypeOK, rowVars, delVars, ackVars
<1>24. CASE UNCHANGED vars
  BY <1>24, InsertsFrame, NoneAssumption DEF vars, HoldsInsert, Acked, Standing, OwnTarget, Inserts, Targeted, Written, InFlight, Answered, TypeOK, rowVars, delVars, ackVars
<1> QED
  BY <1>1, <1>2, <1>3, <1>4, <1>5, <1>6, <1>7, <1>8, <1>9, <1>10, 
     <1>11, <1>12, <1>13, <1>14, <1>15, <1>16, <1>17, <1>18, 
     <1>19, <1>20, <1>21, <1>22, <1>23, <1>24
  DEF Next, Advance, AckAdvance, Quiet

-----------------------------------------------------------------------------
(***************************************************************************)
(* Row locks: an alert row is held by one delivery at a time, never while  *)
(* an acknowledge request holds it, and is open while a delivery that      *)
(* found it under FOR UPDATE holds it.                                     *)
(***************************************************************************)

RowLocks ==
  /\ \A r, q, a \in Delivery : Locks(r, a) /\ Locks(q, a) => r = q
  /\ \A r, a \in Delivery, o \in Operator : Locks(r, a) => ~ Closes(o, a)
  /\ \A r \in Delivery : pc[r] = "locked" => status[target[r]] = "new"
  /\ LockedBumpIsCurrent

(* Steps that take no lock and commit no row.                              *)
LEMMA RowLocksFrame ==
  ASSUME TypeOK, RowLocks, status' = status, hits' = hits,
         \A r, a \in Delivery : Locks(r, a)' => Locks(r, a),
         \A o \in Operator, a \in Delivery : Closes(o, a)' => Closes(o, a),
         \A r \in Delivery : pc'[r] = "locked" => pc[r] = "locked" /\ target'[r] = target[r],
         \A r \in Delivery : pc'[r] \in Written /\ via'[r] = "lock" =>
           /\ pc[r] \in Written /\ via[r] = "lock"
           /\ target'[r] = target[r] /\ newHits'[r] = newHits[r]
  PROVE  RowLocks'
<1>1. LockedBumpIsCurrent'
  BY DEF RowLocks, LockedBumpIsCurrent
<1> QED
  BY <1>1 DEF RowLocks

(* A rollback releases the lock of its delivery.                           *)
LEMMA RowLocksRollBack ==
  ASSUME TypeOK, RowLocks, NEW r \in Delivery,
         NEW outcome \in Answered, RollBack(r, outcome)
  PROVE  RowLocks'
<1>1. /\ pc' = [pc EXCEPT ![r] = outcome] /\ target' = [target EXCEPT ![r] = None]
      /\ newHits' = [newHits EXCEPT ![r] = 0] /\ via' = [via EXCEPT ![r] = "none"]
      /\ status' = status /\ hits' = hits
      /\ ackPc' = ackPc /\ ackRow' = ackRow /\ ackSibling' = ackSibling
      /\ outcome \notin Written \cup {"locked"}
  BY DEF RollBack, Goto, rowVars, ackVars, Answered, Written
<1>2. \A q, a \in Delivery : Locks(q, a)' => Locks(q, a)
  BY <1>1 DEF Locks, Updates, TypeOK, Written
<1>3. \A o \in Operator, a \in Delivery : Closes(o, a)' => Closes(o, a)
  BY <1>1 DEF Closes
<1> QED
  BY <1>1, <1>2, <1>3, RowLocksFrame DEF TypeOK

LEMMA RowLocksStep ==
  ASSUME TypeOK, Inserts, RowLocks, [Next]_vars
  PROVE  RowLocks'
<1>1. ASSUME NEW r \in Delivery, NEW e \in Envelope, Deliver(r, e)
      PROVE  RowLocks'
  BY <1>1, RowLocksFrame DEF Deliver, Goto, Locks, Updates, Closes, Written, TypeOK, rowVars, delVars, ackVars
<1>2. ASSUME NEW r \in Delivery, Refuse(r)
      PROVE  RowLocks'
  BY <1>2, RowLocksRollBack DEF Refuse, Answered
<1>3. ASSUME NEW r \in Delivery, CheckReplay(r)
      PROVE  RowLocks'
  <2>1. CASE \E q \in recorded : SameReceipt(r, q)
    BY <1>3, <2>1, RowLocksRollBack DEF CheckReplay, Answered
  <2>2. CASE ~ \E q \in recorded : SameReceipt(r, q)
    BY <1>3, <2>2, RowLocksFrame DEF CheckReplay, Step, Goto, Locks, Updates, Closes, Written, TypeOK, rowVars, delVars, ackVars
  <2> QED
    BY <2>1, <2>2
<1>4. ASSUME NEW r \in Delivery, AddReceipt(r)
      PROVE  RowLocks'
  <2>1. CASE \E q \in recorded : SameReceipt(r, q)
    BY <1>4, <2>1, RowLocksRollBack DEF AddReceipt, Answered
  <2>2. CASE ~ \E q \in recorded : SameReceipt(r, q)
    BY <1>4, <2>2, RowLocksFrame DEF AddReceipt, Step, Goto, Locks, Updates, Closes, Written, TypeOK, rowVars, delVars, ackVars
  <2> QED
    BY <2>1, <2>2
<1>5. ASSUME NEW r \in Delivery, LoadCamera(r)
      PROVE  RowLocks'
  BY <1>5, RowLocksFrame DEF LoadCamera, Goto, Locks, Updates, Closes, Written, TypeOK, rowVars, delVars, ackVars
<1>6. ASSUME NEW r \in Delivery, UnknownCamera(r)
      PROVE  RowLocks'
  BY <1>6, RowLocksRollBack DEF UnknownCamera, Answered
<1>7. ASSUME NEW r \in Delivery, TouchCamera(r)
      PROVE  RowLocks'
  BY <1>7, RowLocksFrame DEF TouchCamera, Step, Goto, Locks, Updates, Closes, Written, TypeOK, rowVars, delVars, ackVars
<1>8. ASSUME NEW r \in Delivery, SelectOpen(r)
      PROVE  RowLocks'
  BY <1>8, RowLocksFrame DEF SelectOpen, OpenRows, Goto, Locks, Updates, Closes, Written, TypeOK, rowVars, delVars, ackVars
<1>9. ASSUME NEW r \in Delivery, LockOpen(r)
      PROVE  RowLocks'
  <2>1. CASE status[target[r]] = "new"
    <3>1. /\ pc[r] = "locking" /\ pc' = [pc EXCEPT ![r] = "locked"]
          /\ UNCHANGED <<target, via, newHits, status, hits, ackPc, ackRow, ackSibling>>
      BY <1>9, <2>1 DEF LockOpen, Goto, rowVars, ackVars
    <3>2. RowFree(target[r])
      BY <1>9 DEF LockOpen
    <3>3. \A q, a \in Delivery :
            Locks(q, a)' => Locks(q, a) \/ (q = r /\ a = target[r])
      BY <3>1 DEF Locks, Updates, TypeOK, Written
    <3>4. \A o \in Operator, a \in Delivery : Closes(o, a)' => Closes(o, a)
      BY <3>1 DEF Closes
    <3>5. LockedBumpIsCurrent'
      BY <3>1 DEF LockedBumpIsCurrent, RowLocks, TypeOK, Written
    <3>6. \A q \in Delivery : pc'[q] = "locked" => status'[target'[q]] = "new"
      BY <2>1, <3>1 DEF RowLocks, TypeOK
    <3> QED
      BY <3>2, <3>3, <3>4, <3>5, <3>6 DEF RowLocks, RowFree
  <2>2. CASE status[target[r]] # "new"
    BY <1>9, <2>2, RowLocksFrame DEF LockOpen, Goto, Locks, Updates, Closes, Written, TypeOK, rowVars, delVars, ackVars
  <2> QED
    BY <2>1, <2>2
<1>10. ASSUME NEW r \in Delivery, BumpLocked(r)
      PROVE  RowLocks'
  <2>1. /\ pc[r] = "locked" /\ pc' = [pc EXCEPT ![r] = "written"]
        /\ via' = [via EXCEPT ![r] = "lock"]
        /\ newHits' = [newHits EXCEPT ![r] = hits[target[r]] + 1]
        /\ UNCHANGED <<target, status, hits, ackPc, ackRow, ackSibling>>
    BY <1>10 DEF BumpLocked, Goto, rowVars, ackVars
  <2>2. \A q, a \in Delivery : Locks(q, a)' => Locks(q, a)
    BY <2>1 DEF Locks, Updates, TypeOK, Written
  <2>3. \A o \in Operator, a \in Delivery : Closes(o, a)' => Closes(o, a)
    BY <2>1 DEF Closes
  <2>4. LockedBumpIsCurrent'
    BY <2>1 DEF LockedBumpIsCurrent, RowLocks, TypeOK, Written
  <2> QED
    BY <2>1, <2>2, <2>3, <2>4 DEF RowLocks, TypeOK
<1>11. ASSUME NEW r \in Delivery, InsertAlert(r)
      PROVE  RowLocks'
  BY <1>11, RowLocksFrame DEF InsertAlert, OpenRows, WriteNewRow, Goto, Locks, Updates, Closes, Written, TypeOK, rowVars, delVars, ackVars
<1>12. ASSUME NEW r \in Delivery, Reselect(r)
      PROVE  RowLocks'
  BY <1>12, RowLocksFrame DEF Reselect, OpenRows, Goto, Locks, Updates, Closes, Written, TypeOK, rowVars, delVars, ackVars
<1>13. ASSUME NEW r \in Delivery, Reraise(r)
      PROVE  RowLocks'
  BY <1>13, RowLocksRollBack DEF Reraise, Answered
<1>14. ASSUME NEW r \in Delivery, BumpStale(r)
      PROVE  RowLocks'
  <2>1. /\ pc[r] = "stale" /\ pc' = [pc EXCEPT ![r] = "written"]
        /\ via' = [via EXCEPT ![r] = "fallback"]
        /\ UNCHANGED <<target, newHits, status, hits, ackPc, ackRow, ackSibling>>
    BY <1>14 DEF BumpStale, Goto, rowVars, ackVars
  <2>2. RowFree(target[r])
    BY <1>14 DEF BumpStale
  <2>3. \A q, a \in Delivery :
          Locks(q, a)' => Locks(q, a) \/ (q = r /\ a = target[r])
    BY <2>1 DEF Locks, Updates, TypeOK, Written
  <2>4. \A o \in Operator, a \in Delivery : Closes(o, a)' => Closes(o, a)
    BY <2>1 DEF Closes
  <2>5. LockedBumpIsCurrent'
    BY <2>1 DEF LockedBumpIsCurrent, RowLocks, TypeOK, Written
  <2>6. \A q \in Delivery : pc'[q] = "locked" => status'[target'[q]] = "new"
    BY <2>1 DEF RowLocks, TypeOK
  <2> QED
    BY <2>2, <2>3, <2>4, <2>5, <2>6 DEF RowLocks, RowFree
<1>15. ASSUME NEW r \in Delivery, PublishAlert(r)
      PROVE  RowLocks'
  BY <1>15, RowLocksFrame DEF PublishAlert, Goto, Locks, Updates, Closes, Written, TypeOK, rowVars, delVars, ackVars
<1>16. ASSUME NEW r \in Delivery, Commit(r)
      PROVE  RowLocks'
  <2>1. /\ pc[r] \in {"unmatched", "announced"} /\ pc' = [pc EXCEPT ![r] = "committed"]
        /\ target' = [target EXCEPT ![r] = None] /\ newHits' = [newHits EXCEPT ![r] = 0]
        /\ hits' = [a \in Delivery |-> IF a = target[r] THEN newHits[r] ELSE hits[a]]
        /\ status' = [a \in Delivery |-> IF a = target[r] /\ via[r] = "insert"
                                           THEN "new" ELSE status[a]]
        /\ UNCHANGED <<via, ackPc, ackRow, ackSibling>>
    BY <1>16 DEF Commit, CommitDetection, Goto, ackVars
  <2>2. \A q, a \in Delivery : Locks(q, a)' => q # r /\ Locks(q, a)
    BY <2>1 DEF Locks, Updates, TypeOK, Written
  <2>3. \A o \in Operator, a \in Delivery : Closes(o, a)' => Closes(o, a)
    BY <2>1 DEF Closes
  <2>4. \A q \in Delivery :
          q # r /\ (pc[q] = "locked" \/ (pc[q] \in Written /\ via[q] = "lock")) =>
            /\ target[q] \in Delivery /\ target[q] # target[r]
    <3>1. ASSUME NEW q \in Delivery, q # r, pc[q] = "locked" \/ (pc[q] \in Written /\ via[q] = "lock")
          PROVE  /\ target[q] \in Delivery /\ status[target[q]] = "new"
                 /\ Locks(q, target[q])
      BY <3>1 DEF TypeOK, Targeted, RowLocks, LockedBumpIsCurrent, Locks, Updates
    <3>2. CASE pc[r] = "unmatched"
      BY <3>1, <3>2, NoneAssumption DEF Inserts, OwnTarget, Targeted, Written
    <3>3. CASE pc[r] = "announced" /\ via[r] = "insert"
      BY <3>1, <3>3 DEF Inserts, Standing, OwnTarget, HoldsInsert, Written
    <3>4. CASE pc[r] = "announced" /\ via[r] # "insert"
      <4>1. Locks(r, target[r])
        BY <3>4 DEF Locks, Updates, Written
      <4> QED
        BY <3>1, <4>1 DEF RowLocks
    <3> QED
      BY <2>1, <3>2, <3>3, <3>4
  <2>5. ASSUME NEW q \in Delivery, pc'[q] = "locked"
        PROVE  status'[target'[q]] = "new"
    <3>1. q # r /\ pc[q] = "locked" /\ target'[q] = target[q]
      BY <2>1, <2>5 DEF TypeOK
    <3>2. target[q] \in Delivery /\ target[q] # target[r]
      BY <2>4, <3>1
    <3>3. status[target[q]] = "new"
      BY <3>1 DEF RowLocks
    <3> QED
      BY <2>1, <3>1, <3>2, <3>3
  <2>6. LockedBumpIsCurrent'
    <3>1. SUFFICES ASSUME NEW q \in Delivery, pc'[q] \in Written, via'[q] = "lock"
                   PROVE  status'[target'[q]] = "new" /\ newHits'[q] = hits'[target'[q]] + 1
      BY DEF LockedBumpIsCurrent
    <3>2. q # r /\ pc'[q] = pc[q] /\ target'[q] = target[q] /\ newHits'[q] = newHits[q] /\ via[q] = "lock"
      BY <2>1, <3>1 DEF TypeOK, Written
    <3>3. status[target[q]] = "new" /\ newHits[q] = hits[target[q]] + 1
      BY <3>1, <3>2 DEF RowLocks, LockedBumpIsCurrent
    <3> QED
      BY <2>1, <2>4, <3>1, <3>2, <3>3
  <2> QED
    BY <2>2, <2>3, <2>5, <2>6 DEF RowLocks
<1>17. ASSUME NEW r \in Delivery, Reply(r)
      PROVE  RowLocks'
  BY <1>17, RowLocksFrame DEF Reply, Step, Goto, Locks, Updates, Closes, Written, TypeOK, rowVars, delVars, ackVars
<1>18. ASSUME NEW r \in Delivery, Fail(r)
      PROVE  RowLocks'
  <2>1. CASE pc[r] = "committed"
    BY <1>18, <2>1, RowLocksFrame DEF Fail, Step, Goto, Locks, Updates, Closes, Written, TypeOK, rowVars, delVars, ackVars
  <2>2. CASE pc[r] # "committed"
    BY <1>18, <2>2, RowLocksRollBack DEF Fail, Answered
  <2> QED
    BY <2>1, <2>2
<1>19. ASSUME NEW o \in Operator, NEW a \in Delivery, AckTake(o, a)
      PROVE  RowLocks'
  <2>1. /\ ackPc[o] = "idle" /\ ackPc' = [ackPc EXCEPT ![o] = "taken"]
        /\ ackRow' = [ackRow EXCEPT ![o] = a]
        /\ UNCHANGED <<pc, target, newHits, via, status, hits, ackSibling>>
    BY <1>19 DEF AckTake, delVars, rowVars
  <2>2. RowFree(a)
    BY <1>19 DEF AckTake
  <2>3. \A q, b \in Delivery : Locks(q, b)' = Locks(q, b)
    BY <2>1 DEF Locks, Updates
  <2>4. \A p \in Operator, b \in Delivery : Closes(p, b)' => Closes(p, b) \/ b = a
    BY <2>1 DEF Closes, TypeOK
  <2>5. LockedBumpIsCurrent'
    BY <2>1 DEF LockedBumpIsCurrent, RowLocks
  <2> QED
    BY <2>1, <2>2, <2>3, <2>4, <2>5 DEF RowLocks, RowFree
<1>20. ASSUME NEW o \in Operator, AckSeek(o)
      PROVE  RowLocks'
  BY <1>20, RowLocksFrame DEF AckSeek, OpenRows, Locks, Updates, Closes, Written, TypeOK, rowVars, delVars, ackVars
<1>21. ASSUME NEW o \in Operator, AckClose(o)
      PROVE  RowLocks'
  <2>1. /\ ackPc[o] = "sought" /\ ackPc' = [ackPc EXCEPT ![o] = "closed"]
        /\ ackSibling[o] # None => RowFree(ackSibling[o])
        /\ UNCHANGED <<pc, target, newHits, via, status, hits, ackRow, ackSibling>>
    BY <1>21 DEF AckClose, delVars, rowVars
  <2>2. \A q, b \in Delivery : Locks(q, b)' = Locks(q, b)
    BY <2>1 DEF Locks, Updates
  <2>3. \A p \in Operator, b \in Delivery :
          Closes(p, b)' => Closes(p, b) \/ (b = ackSibling[o] /\ b # None)
    BY <2>1, NoneAssumption DEF Closes, TypeOK
  <2>4. LockedBumpIsCurrent'
    BY <2>1 DEF LockedBumpIsCurrent, RowLocks
  <2> QED
    BY <2>1, <2>2, <2>3, <2>4 DEF RowLocks, RowFree
<1>22. ASSUME NEW o \in Operator, AckCommit(o)
      PROVE  RowLocks'
  <2>1. /\ ackPc[o] = "closed" /\ ackPc' = [ackPc EXCEPT ![o] = "idle"]
        /\ ackRow' = [ackRow EXCEPT ![o] = None] /\ ackSibling' = [ackSibling EXCEPT ![o] = None]
        /\ status' = [a \in Delivery |-> IF a \in {ackRow[o], ackSibling[o]}
                                           THEN "acknowledged" ELSE status[a]]
        /\ UNCHANGED <<pc, target, newHits, via, hits>>
    BY <1>22 DEF AckCommit, AckEnd, delVars
  <2>2. \A q, b \in Delivery : Locks(q, b)' = Locks(q, b)
    BY <2>1 DEF Locks, Updates
  <2>3. \A p \in Operator, b \in Delivery : Closes(p, b)' => Closes(p, b)
    BY <2>1, NoneAssumption DEF Closes, TypeOK
  <2>4. \A q \in Delivery :
          (pc[q] = "locked" \/ (pc[q] \in Written /\ via[q] = "lock")) =>
            target[q] \in Delivery /\ status'[target[q]] = status[target[q]]
    <3>1. ASSUME NEW q \in Delivery, pc[q] = "locked" \/ (pc[q] \in Written /\ via[q] = "lock")
          PROVE  target[q] \in Delivery /\ Locks(q, target[q])
      BY <3>1 DEF TypeOK, Targeted, Locks, Updates
    <3>2. \A b \in Delivery : b \in {ackRow[o], ackSibling[o]} => Closes(o, b)
      BY <2>1 DEF Closes
    <3> QED
      BY <2>1, <3>1, <3>2 DEF RowLocks, TypeOK
  <2>5. LockedBumpIsCurrent'
    BY <2>1, <2>4 DEF LockedBumpIsCurrent, RowLocks
  <2>6. ASSUME NEW q \in Delivery, pc'[q] = "locked"
        PROVE  status'[target'[q]] = "new"
    <3>1. pc[q] = "locked" /\ target'[q] = target[q]
      BY <2>1, <2>6
    <3>2. status[target[q]] = "new"
      BY <3>1 DEF RowLocks
    <3>3. status'[target[q]] = status[target[q]]
      BY <2>4, <3>1
    <3> QED
      BY <3>1, <3>2, <3>3
  <2> QED
    BY <2>2, <2>3, <2>5, <2>6 DEF RowLocks
<1>23. ASSUME NEW o \in Operator, AckFail(o)
      PROVE  RowLocks'
  BY <1>23, RowLocksFrame DEF AckFail, AckEnd, Locks, Updates, Closes, Written, TypeOK, rowVars, delVars, ackVars
<1>24. CASE UNCHANGED vars
  BY <1>24, RowLocksFrame DEF vars, Locks, Updates, Closes, Written, TypeOK, rowVars, delVars, ackVars
<1> QED
  BY <1>1, <1>2, <1>3, <1>4, <1>5, <1>6, <1>7, <1>8, <1>9, <1>10, 
     <1>11, <1>12, <1>13, <1>14, <1>15, <1>16, <1>17, <1>18, 
     <1>19, <1>20, <1>21, <1>22, <1>23, <1>24
  DEF Next, Advance, AckAdvance, Quiet

-----------------------------------------------------------------------------
(***************************************************************************)
(* Cards: what is on record and what a delivery is about to commit fit     *)
(* together.                                                               *)
(***************************************************************************)

(* Past the watchlist a delivery is sorted by what its envelope matched.   *)
Matching == {"touched", "locking", "locked", "inserting", "reselect", "stale"} \cup Written

Sorted(r) == /\ pc[r] = "unmatched" => env[r].entry = NoEntry
             /\ pc[r] \in Matching => env[r].entry # NoEntry

(* A row that a delivery did not insert itself is committed, and of its    *)
(* own watchlist entry and camera.                                         *)
Aimed(r) == pc[r] \in Targeted /\ ~ HoldsInsert(r) =>
              status[target[r]] # "none" /\ SameKey(target[r], r)

(* An acknowledge request closes rows of one watchlist entry and camera.   *)
Grouped(o) ==
  /\ ackPc[o] # "idle" => ackRow[o] \in Delivery
  /\ ackSibling[o] # None => ackPc[o] # "idle" /\ SameKey(ackSibling[o], ackRow[o])

Recorded ==
  /\ \A a \in Delivery : status[a] # "none" => a \in recorded /\ env[a].entry # NoEntry
  /\ \A r \in Delivery : r \notin recorded => credit[r] = None
  /\ DetectionHasAlert

CardsFit ==
  /\ \A r \in Delivery : Sorted(r) /\ Aimed(r)
  /\ \A o \in Operator : Grouped(o)
  /\ Recorded

(* The steps that commit nothing.                                          *)
Uncommitted ==
  /\ UNCHANGED <<recorded, status, credit>>
  /\ \A r \in Delivery : pc[r] # "idle" => env'[r] = env[r]

(* A row on record is of a delivery that has started.                      *)
LEMMA OnRecordStarted ==
  ASSUME TypeOK, Receipts, CardsFit
  PROVE  /\ \A r \in recorded : r \in Delivery /\ pc[r] # "idle" /\ env[r] \in Envelope
         /\ \A a \in Delivery : status[a] # "none" => a \in recorded
BY DEF Receipts, Settled, TypeOK, CardsFit, Recorded

LEMMA RecordedFrame ==
  ASSUME TypeOK, Receipts, CardsFit, Uncommitted
  PROVE  Recorded'
<1>1. \A r \in recorded : r \in Delivery /\ env'[r] = env[r]
  BY OnRecordStarted DEF Uncommitted
<1>2. \A a \in Delivery : status'[a] # "none" => a \in recorded' /\ env'[a].entry # NoEntry
  BY <1>1 DEF CardsFit, Recorded, Uncommitted
<1>3. \A r \in recorded : env[r].entry # NoEntry => credit[r] \in recorded
  BY DEF CardsFit, Recorded, DetectionHasAlert
<1>4. DetectionHasAlert'
  BY <1>1, <1>3 DEF CardsFit, Recorded, DetectionHasAlert, SameKey, Uncommitted
<1> QED
  BY <1>2, <1>4 DEF CardsFit, Recorded, Uncommitted

(* A delivery that keeps its place keeps what it is aimed at.              *)
LEMMA AimedFrame ==
  ASSUME TypeOK, Receipts, CardsFit, Uncommitted,
         NEW r \in Delivery, pc'[r] = pc[r], target'[r] = target[r], via'[r] = via[r]
  PROVE  Sorted(r)' /\ Aimed(r)'
<1>1. CASE pc[r] = "idle"
  BY <1>1 DEF Sorted, Aimed, Matching, Targeted, Written
<1>2. CASE pc[r] # "idle" /\ pc[r] \in Targeted /\ ~ HoldsInsert(r)
  <2>1. target[r] \in Delivery /\ status[target[r]] # "none" /\ SameKey(target[r], r)
    BY <1>2 DEF CardsFit, Aimed, TypeOK
  <2>2. env'[target[r]] = env[target[r]] /\ env'[r] = env[r]
    BY <1>2, <2>1, OnRecordStarted DEF Uncommitted
  <2> QED
    BY <2>1, <2>2 DEF Sorted, Aimed, CardsFit, SameKey, Uncommitted
<1>3. CASE pc[r] # "idle" /\ ~ (pc[r] \in Targeted /\ ~ HoldsInsert(r))
  BY <1>3 DEF Sorted, Aimed, CardsFit, HoldsInsert, Uncommitted
<1> QED
  BY <1>1, <1>2, <1>3

LEMMA GroupedFrame ==
  ASSUME TypeOK, Receipts, Inserts, CardsFit, Uncommitted, UNCHANGED ackVars
  PROVE  \A o \in Operator : Grouped(o)'
<1> SUFFICES ASSUME NEW o \in Operator PROVE Grouped(o)'
  OBVIOUS
<1>1. \A a \in {ackRow[o], ackSibling[o]} : a \in Delivery => env'[a] = env[a]
  BY OnRecordStarted DEF Inserts, Acked, Uncommitted
<1>2. ackRow[o] \in Delivery \cup {None} /\ ackSibling[o] \in Delivery \cup {None}
  BY DEF TypeOK
<1> QED
  BY <1>1, <1>2 DEF CardsFit, Grouped, SameKey, ackVars

(* One delivery moves, and nothing is committed.                           *)
LEMMA CardsFrame ==
  ASSUME TypeOK, Receipts, Inserts, CardsFit, Uncommitted, UNCHANGED ackVars,
         NEW r \in Delivery, Sorted(r)' /\ Aimed(r)',
         \A q \in Delivery : q # r => /\ pc'[q] = pc[q] /\ target'[q] = target[q]
                                     /\ via'[q] = via[q]
  PROVE  CardsFit'
BY RecordedFrame, GroupedFrame, AimedFrame DEF CardsFit

LEMMA CardsCommit ==
  ASSUME TypeOK, Receipts, Inserts, CardsFit, NEW r \in Delivery, Commit(r)
  PROVE  CardsFit'
<1>1. /\ pc[r] \in {"unmatched", "announced"} /\ pc' = [pc EXCEPT ![r] = "committed"]
      /\ recorded' = recorded \cup {r} /\ env' = env /\ via' = via
      /\ target' = [target EXCEPT ![r] = None]
      /\ credit' = [credit EXCEPT ![r] = target[r]]
      /\ status' = [a \in Delivery |-> IF a = target[r] /\ via[r] = "insert"
                                         THEN "new" ELSE status[a]]
      /\ UNCHANGED ackVars
  BY DEF Commit, CommitDetection, Goto
<1>2. \A a \in Delivery : status[a] # "none" => status'[a] # "none" /\ a # r
  BY <1>1 DEF Inserts, Standing
<1>3. \A q \in Delivery : q # r => (HoldsInsert(q)' <=> HoldsInsert(q))
  BY <1>1 DEF HoldsInsert, TypeOK
<1>4. \A q, a \in Delivery : SameKey(a, q)' <=> SameKey(a, q)
  BY <1>1 DEF SameKey
<1>5. ASSUME NEW q \in Delivery PROVE Sorted(q)' /\ Aimed(q)'
  <2>1. CASE q = r
    BY <1>1, <2>1 DEF Sorted, Aimed, Matching, Targeted, Written, TypeOK
  <2>2. CASE q # r
    <3>1. pc'[q] = pc[q] /\ target'[q] = target[q]
      BY <1>1, <2>2 DEF TypeOK
    <3>2. Sorted(q)'
      BY <1>1, <3>1 DEF CardsFit, Sorted
    <3>3. Aimed(q)'
      BY <1>2, <1>3, <1>4, <2>2, <3>1 DEF CardsFit, Aimed, TypeOK
    <3> QED
      BY <3>2, <3>3
  <2> QED
    BY <2>1, <2>2
<1>6. ASSUME NEW o \in Operator PROVE Grouped(o)'
  BY <1>1 DEF CardsFit, Grouped, SameKey, ackVars, TypeOK
<1>7. CASE pc[r] = "unmatched"
  <2>1. target[r] = None /\ status' = status /\ env[r].entry = NoEntry
    BY <1>1, <1>7, NoneAssumption DEF Inserts, OwnTarget, Targeted, Written, TypeOK, CardsFit, Sorted
  <2>2. Recorded'
    BY <1>1, <1>4, <2>1 DEF CardsFit, Recorded, DetectionHasAlert, TypeOK
  <2> QED
    BY <1>5, <1>6, <2>2 DEF CardsFit
<1>8. CASE pc[r] = "announced"
  <2>1. target[r] \in Delivery /\ env[r].entry # NoEntry
    BY <1>8 DEF TypeOK, Targeted, Written, CardsFit, Sorted, Matching
  <2>2. CASE via[r] = "insert"
    <3>1. target[r] = r
      BY <1>8, <2>2 DEF Inserts, OwnTarget, HoldsInsert, Written
    <3>2. status' = [status EXCEPT ![r] = "new"] /\ credit' = [credit EXCEPT ![r] = r]
      BY <1>1, <2>2, <3>1 DEF TypeOK
    <3>3. \A q \in recorded : q \in Delivery /\ q # r
      BY <1>8 DEF Receipts, Settled, TypeOK
    <3>4. Recorded'
      BY <1>1, <1>2, <1>4, <2>1, <3>2, <3>3 DEF CardsFit, Recorded, DetectionHasAlert, SameKey, TypeOK
    <3> QED
      BY <1>5, <1>6, <3>4 DEF CardsFit
  <2>3. CASE via[r] # "insert"
    <3>1. status' = status
      BY <1>1, <2>3 DEF TypeOK
    <3>2. status[target[r]] # "none" /\ SameKey(target[r], r)
      BY <1>8, <2>3 DEF CardsFit, Aimed, HoldsInsert, Targeted, Written
    <3>3. \A q \in recorded : q \in Delivery /\ q # r
      BY <1>8 DEF Receipts, Settled, TypeOK
    <3>4. Recorded'
      BY <1>1, <1>2, <1>4, <2>1, <3>1, <3>2, <3>3 DEF CardsFit, Recorded, DetectionHasAlert, TypeOK
    <3> QED
      BY <1>5, <1>6, <3>4 DEF CardsFit
  <2> QED
    BY <2>2, <2>3
<1> QED
  BY <1>1, <1>7, <1>8

(* Steps of an acknowledge request before its commit.                      *)
LEMMA CardsAck ==
  ASSUME TypeOK, Receipts, CardsFit, UNCHANGED <<delVars, rowVars>>,
         \A o \in Operator : Grouped(o)'
  PROVE  CardsFit'
<1>1. Uncommitted
  BY DEF Uncommitted, delVars, rowVars
<1> QED
  BY <1>1, RecordedFrame, AimedFrame DEF CardsFit, delVars

LEMMA CardsAckCommit ==
  ASSUME TypeOK, Receipts, Inserts, CardsFit, NEW o \in Operator, AckCommit(o)
  PROVE  CardsFit'
<1>1. /\ ackPc' = [ackPc EXCEPT ![o] = "idle"] /\ ackRow' = [ackRow EXCEPT ![o] = None]
      /\ ackSibling' = [ackSibling EXCEPT ![o] = None]
      /\ status' = [a \in Delivery |-> IF a \in {ackRow[o], ackSibling[o]}
                                         THEN "acknowledged" ELSE status[a]]
      /\ UNCHANGED <<delVars, recorded, credit>>
  BY DEF AckCommit, AckEnd
<1>2. \A a \in Delivery : status'[a] # "none" <=> status[a] # "none"
  BY <1>1 DEF Inserts, Acked
<1>3. \A a, q \in Delivery : /\ SameKey(a, q)' <=> SameKey(a, q)
                            /\ HoldsInsert(q)' <=> HoldsInsert(q)
  BY <1>1 DEF SameKey, HoldsInsert, delVars
<1>4. ASSUME NEW r \in Delivery PROVE Sorted(r)' /\ Aimed(r)'
  <2>1. Sorted(r)'
    BY <1>1 DEF CardsFit, Sorted, delVars
  <2>2. CASE pc[r] \in Targeted /\ ~ HoldsInsert(r)
    <3>1. target[r] \in Delivery /\ status[target[r]] # "none" /\ SameKey(target[r], r)
      BY <2>2 DEF CardsFit, Aimed, TypeOK
    <3>2. target' = target /\ env' = env
      BY <1>1 DEF delVars
    <3>3. status'[target[r]] # "none" /\ SameKey(target[r], r)'
      BY <1>2, <3>1, <3>2 DEF SameKey
    <3> QED
      BY <2>1, <3>2, <3>3 DEF Aimed
  <2>3. CASE ~ (pc[r] \in Targeted /\ ~ HoldsInsert(r))
    BY <1>1, <1>3, <2>1, <2>3 DEF Aimed, delVars
  <2> QED
    BY <2>2, <2>3
<1>5. \A p \in Operator : Grouped(p)'
  BY <1>1 DEF CardsFit, Grouped, SameKey, delVars, TypeOK
<1>6. \A r \in recorded : env[r].entry # NoEntry => credit[r] \in Delivery
  BY DEF CardsFit, Recorded, DetectionHasAlert, TypeOK
<1>7. DetectionHasAlert'
  <2>1. ASSUME NEW r \in recorded', env'[r].entry # NoEntry
        PROVE  /\ credit'[r] \in recorded' /\ SameKey(credit[r], r)'
               /\ status'[credit'[r]] # "none"
    <3>1. r \in recorded /\ r \in Delivery /\ env' = env /\ credit' = credit
      BY <1>1, <2>1 DEF delVars, TypeOK
    <3>2. /\ credit[r] \in recorded /\ SameKey(credit[r], r) /\ status[credit[r]] # "none"
          /\ credit[r] \in Delivery
      BY <1>6, <2>1, <3>1 DEF CardsFit, Recorded, DetectionHasAlert
    <3> QED
      BY <1>1, <1>2, <3>1, <3>2 DEF SameKey
  <2>2. \A a \in Delivery : status'[a] # "none" => credit'[a] = a
    BY <1>1, <1>2 DEF CardsFit, Recorded, DetectionHasAlert
  <2> QED
    BY <2>1, <2>2 DEF DetectionHasAlert
<1>8. Recorded'
  BY <1>1, <1>2, <1>7 DEF CardsFit, Recorded, delVars
<1> QED
  BY <1>4, <1>5, <1>8 DEF CardsFit

LEMMA CardsStep ==
  ASSUME TypeOK, Receipts, Inserts, CardsFit, [Next]_vars
  PROVE  CardsFit'
<1>1. ASSUME NEW r \in Delivery, NEW e \in Envelope, Deliver(r, e)
      PROVE  CardsFit'
  BY <1>1, CardsFrame DEF Deliver, CardsFit, Sorted, Aimed, Matching, Uncommitted, HoldsInsert, Targeted, Written, InFlight, Answered, Goto, TypeOK, rowVars, ackVars
<1>2. ASSUME NEW r \in Delivery, Refuse(r)
      PROVE  CardsFit'
  BY <1>2, CardsFrame DEF Refuse, RollBack, CardsFit, Sorted, Aimed, Matching, Uncommitted, HoldsInsert, Targeted, Written, InFlight, Answered, Goto, TypeOK, rowVars, ackVars
<1>3. ASSUME NEW r \in Delivery, CheckReplay(r)
      PROVE  CardsFit'
  BY <1>3, CardsFrame DEF CheckReplay, RollBack, Step, CardsFit, Sorted, Aimed, Matching, Uncommitted, HoldsInsert, Targeted, Written, InFlight, Answered, Goto, TypeOK, rowVars, ackVars
<1>4. ASSUME NEW r \in Delivery, AddReceipt(r)
      PROVE  CardsFit'
  BY <1>4, CardsFrame DEF AddReceipt, RollBack, Step, CardsFit, Sorted, Aimed, Matching, Uncommitted, HoldsInsert, Targeted, Written, InFlight, Answered, Goto, TypeOK, rowVars, ackVars
<1>5. ASSUME NEW r \in Delivery, LoadCamera(r)
      PROVE  CardsFit'
  BY <1>5, CardsFrame DEF LoadCamera, CardsFit, Sorted, Aimed, Matching, Uncommitted, HoldsInsert, Targeted, Written, InFlight, Answered, Goto, TypeOK, rowVars, ackVars
<1>6. ASSUME NEW r \in Delivery, UnknownCamera(r)
      PROVE  CardsFit'
  BY <1>6, CardsFrame DEF UnknownCamera, RollBack, CardsFit, Sorted, Aimed, Matching, Uncommitted, HoldsInsert, Targeted, Written, InFlight, Answered, Goto, TypeOK, rowVars, ackVars
<1>7. ASSUME NEW r \in Delivery, TouchCamera(r)
      PROVE  CardsFit'
  <2>1. /\ pc' = [pc EXCEPT ![r] = IF env[r].entry = NoEntry THEN "unmatched" ELSE "touched"]
        /\ UNCHANGED <<env, target, via, recorded, status, credit, ackVars>>
    BY <1>7 DEF TouchCamera, Step, Goto, rowVars
  <2>2. pc[r] \in Label /\ pc'[r] = IF env[r].entry = NoEntry THEN "unmatched" ELSE "touched"
    BY <2>1 DEF TypeOK
  <2>3. Sorted(r)' /\ Aimed(r)'
    BY <2>1, <2>2 DEF Sorted, Aimed, Matching, Targeted, Written
  <2> QED
    BY <2>1, <2>3, CardsFrame DEF Uncommitted, TypeOK
<1>8. ASSUME NEW r \in Delivery, SelectOpen(r)
      PROVE  CardsFit'
  <2>1. /\ UNCHANGED <<env, via, recorded, status, credit, ackVars>>
        /\ pc[r] = "touched"
        /\ \A q \in Delivery : q # r => pc'[q] = pc[q] /\ target'[q] = target[q]
    BY <1>8 DEF SelectOpen, Goto, rowVars, TypeOK
  <2>2. env[r].entry # NoEntry
    BY <2>1 DEF CardsFit, Sorted, Matching
  <2>3. CASE pc' = [pc EXCEPT ![r] = "inserting"]
    <3>1. Sorted(r)' /\ Aimed(r)'
      BY <2>1, <2>2, <2>3 DEF Sorted, Aimed, Targeted, Written, TypeOK
    <3> QED
      BY <2>1, <3>1, CardsFrame DEF Uncommitted
  <2>4. ASSUME NEW a \in OpenRows(r), target' = [target EXCEPT ![r] = a],
               pc' = [pc EXCEPT ![r] = "locking"]
        PROVE  CardsFit'
    <3>1. target'[r] = a /\ pc'[r] = "locking" /\ status[a] = "new" /\ SameKey(a, r)
      BY <2>4 DEF OpenRows, TypeOK
    <3>2. Sorted(r)' /\ Aimed(r)'
      BY <2>1, <2>2, <3>1 DEF Sorted, Aimed, SameKey
    <3> QED
      BY <2>1, <3>2, CardsFrame DEF Uncommitted
  <2> QED
    BY <1>8, <2>3, <2>4 DEF SelectOpen, Goto
<1>9. ASSUME NEW r \in Delivery, LockOpen(r)
      PROVE  CardsFit'
  <2>1. /\ UNCHANGED <<env, via, recorded, status, credit, ackVars>>
        /\ pc[r] = "locking"
        /\ \A q \in Delivery : q # r => pc'[q] = pc[q] /\ target'[q] = target[q]
    BY <1>9 DEF LockOpen, Goto, rowVars, TypeOK
  <2>2. /\ env[r].entry # NoEntry
        /\ status[target[r]] # "none" /\ SameKey(target[r], r)
    BY <2>1 DEF CardsFit, Sorted, Aimed, HoldsInsert, Matching, Targeted, Written
  <2>3. CASE pc'[r] = "inserting"
    <3>1. Sorted(r)' /\ Aimed(r)'
      BY <2>1, <2>2, <2>3 DEF Sorted, Aimed, Targeted, Written
    <3> QED
      BY <2>1, <3>1, CardsFrame DEF Uncommitted
  <2>4. CASE pc'[r] = "locked" /\ target' = target
    <3>1. Sorted(r)' /\ Aimed(r)'
      BY <2>1, <2>2, <2>4 DEF Sorted, Aimed, SameKey
    <3> QED
      BY <2>1, <3>1, CardsFrame DEF Uncommitted
  <2> QED
    BY <1>9, <2>3, <2>4 DEF LockOpen, Goto, TypeOK
<1>10. ASSUME NEW r \in Delivery, BumpLocked(r)
      PROVE  CardsFit'
  <2>1. /\ UNCHANGED <<env, target, recorded, status, credit, ackVars>>
        /\ pc[r] = "locked" /\ pc'[r] = "written" /\ via'[r] = "lock"
        /\ \A q \in Delivery : q # r => pc'[q] = pc[q] /\ via'[q] = via[q]
    BY <1>10 DEF BumpLocked, Goto, rowVars, TypeOK
  <2>2. /\ env[r].entry # NoEntry
        /\ status[target[r]] # "none" /\ SameKey(target[r], r)
    BY <2>1 DEF CardsFit, Sorted, Aimed, HoldsInsert, Matching, Targeted, Written
  <2>3. Sorted(r)' /\ Aimed(r)'
    BY <2>1, <2>2 DEF Sorted, Aimed, SameKey
  <2> QED
    BY <2>1, <2>3, CardsFrame DEF Uncommitted
<1>11. ASSUME NEW r \in Delivery, InsertAlert(r)
      PROVE  CardsFit'
  <2>1. /\ UNCHANGED <<env, recorded, status, credit, ackVars>>
        /\ pc[r] = "inserting"
        /\ \A q \in Delivery : q # r => /\ pc'[q] = pc[q] /\ target'[q] = target[q]
                                       /\ via'[q] = via[q]
    BY <1>11 DEF InsertAlert, WriteNewRow, Goto, rowVars, TypeOK
  <2>2. env[r].entry # NoEntry
    BY <2>1 DEF CardsFit, Sorted, Matching
  <2>3. CASE pc'[r] = "written" /\ via'[r] = "insert"
    <3>1. Sorted(r)' /\ Aimed(r)'
      BY <2>1, <2>2, <2>3 DEF Sorted, Aimed, HoldsInsert, Written
    <3> QED
      BY <2>1, <3>1, CardsFrame DEF Uncommitted
  <2>4. CASE pc'[r] = "reselect"
    <3>1. Sorted(r)' /\ Aimed(r)'
      BY <2>1, <2>2, <2>4 DEF Sorted, Aimed, Targeted, Written
    <3> QED
      BY <2>1, <3>1, CardsFrame DEF Uncommitted
  <2> QED
    BY <1>11, <2>3, <2>4 DEF InsertAlert, WriteNewRow, Goto, TypeOK
<1>12. ASSUME NEW r \in Delivery, Reselect(r)
      PROVE  CardsFit'
  <2>1. /\ UNCHANGED <<env, via, recorded, status, credit, ackVars>>
        /\ pc[r] = "reselect" /\ pc'[r] = "stale"
        /\ \A q \in Delivery : q # r => pc'[q] = pc[q]
    BY <1>12 DEF Reselect, Goto, rowVars, TypeOK
  <2>2. PICK a \in OpenRows(r) : target' = [target EXCEPT ![r] = a]
    BY <1>12 DEF Reselect
  <2>3. env[r].entry # NoEntry
    BY <2>1 DEF CardsFit, Sorted, Matching
  <2>4. /\ target'[r] = a /\ status[a] = "new" /\ SameKey(a, r)
        /\ \A q \in Delivery : q # r => target'[q] = target[q]
    BY <2>2 DEF OpenRows, TypeOK
  <2>5. Sorted(r)' /\ Aimed(r)'
    BY <2>1, <2>3, <2>4 DEF Sorted, Aimed, SameKey
  <2> QED
    BY <2>1, <2>4, <2>5, CardsFrame DEF Uncommitted
<1>13. ASSUME NEW r \in Delivery, Reraise(r)
      PROVE  CardsFit'
  BY <1>13, CardsFrame DEF Reraise, RollBack, CardsFit, Sorted, Aimed, Matching, Uncommitted, HoldsInsert, Targeted, Written, InFlight, Answered, Goto, TypeOK, rowVars, ackVars
<1>14. ASSUME NEW r \in Delivery, BumpStale(r)
      PROVE  CardsFit'
  <2>1. /\ UNCHANGED <<env, target, recorded, status, credit, ackVars>>
        /\ pc[r] = "stale" /\ pc'[r] = "written" /\ via'[r] = "fallback"
        /\ \A q \in Delivery : q # r => pc'[q] = pc[q] /\ via'[q] = via[q]
    BY <1>14 DEF BumpStale, Goto, rowVars, TypeOK
  <2>2. /\ env[r].entry # NoEntry
        /\ status[target[r]] # "none" /\ SameKey(target[r], r)
    BY <2>1 DEF CardsFit, Sorted, Aimed, HoldsInsert, Matching, Targeted, Written
  <2>3. Sorted(r)' /\ Aimed(r)'
    BY <2>1, <2>2 DEF Sorted, Aimed, SameKey
  <2> QED
    BY <2>1, <2>3, CardsFrame DEF Uncommitted
<1>15. ASSUME NEW r \in Delivery, PublishAlert(r)
      PROVE  CardsFit'
  <2>1. /\ UNCHANGED <<env, target, via, recorded, status, credit, ackVars>>
        /\ pc[r] = "written" /\ pc'[r] = "announced"
        /\ \A q \in Delivery : q # r => pc'[q] = pc[q]
    BY <1>15 DEF PublishAlert, Goto, rowVars, TypeOK
  <2>2. env[r].entry # NoEntry
    BY <2>1 DEF CardsFit, Sorted, Matching, Written
  <2>3. Sorted(r)' /\ Aimed(r)'
    BY <2>1, <2>2 DEF CardsFit, Sorted, Aimed, SameKey, HoldsInsert, Targeted, Written
  <2> QED
    BY <2>1, <2>3, CardsFrame DEF Uncommitted
<1>16. ASSUME NEW r \in Delivery, Reply(r)
      PROVE  CardsFit'
  BY <1>16, CardsFrame DEF Reply, Step, CardsFit, Sorted, Aimed, Matching, Uncommitted, HoldsInsert, Targeted, Written, InFlight, Answered, Goto, TypeOK, rowVars, ackVars
<1>17. ASSUME NEW r \in Delivery, Fail(r)
      PROVE  CardsFit'
  BY <1>17, CardsFrame DEF Fail, RollBack, Step, CardsFit, Sorted, Aimed, Matching, Uncommitted, HoldsInsert, Targeted, Written, InFlight, Answered, Goto, TypeOK, rowVars, ackVars
<1>18. ASSUME NEW r \in Delivery, Commit(r)
      PROVE  CardsFit'
  BY <1>18, CardsCommit
<1>19. ASSUME NEW o \in Operator, NEW a \in Delivery, AckTake(o, a)
      PROVE  CardsFit'
  BY <1>19, CardsAck DEF AckTake, CardsFit, Grouped, SameKey, TypeOK, delVars, rowVars
<1>20. ASSUME NEW o \in Operator, AckSeek(o)
      PROVE  CardsFit'
  BY <1>20, CardsAck DEF AckSeek, OpenRows, CardsFit, Grouped, SameKey, TypeOK, delVars, rowVars
<1>21. ASSUME NEW o \in Operator, AckClose(o)
      PROVE  CardsFit'
  BY <1>21, CardsAck DEF AckClose, CardsFit, Grouped, SameKey, TypeOK, delVars, rowVars
<1>22. ASSUME NEW o \in Operator, AckCommit(o)
      PROVE  CardsFit'
  BY <1>22, CardsAckCommit
<1>23. ASSUME NEW o \in Operator, AckFail(o)
      PROVE  CardsFit'
  BY <1>23, CardsAck DEF AckFail, AckEnd, CardsFit, Grouped, SameKey, TypeOK, delVars, rowVars
<1>24. CASE UNCHANGED vars
  BY <1>24, CardsAck DEF vars, ackVars, CardsFit, Grouped, SameKey, TypeOK, delVars, rowVars
<1> QED
  BY <1>1, <1>2, <1>3, <1>4, <1>5, <1>6, <1>7, <1>8, <1>9, <1>10, <1>11, <1>12,
     <1>13, <1>14, <1>15, <1>16, <1>17, <1>18, <1>19, <1>20, <1>21, <1>22, <1>23, <1>24
  DEF Next, Advance, AckAdvance, Quiet

-----------------------------------------------------------------------------
(***************************************************************************)
(* The invariants.                                                         *)
(***************************************************************************)

IInv == TypeOK /\ Receipts /\ Inserts /\ RowLocks /\ CardsFit

LEMMA IInvInit == Init => IInv
<1> SUFFICES ASSUME Init PROVE IInv
  OBVIOUS
<1>1. TypeOK
  BY TypeInit
<1>2. \A r \in Delivery : /\ pc[r] = "idle" /\ status[r] = "none"
                          /\ target[r] = None
  BY DEF Init
<1>3. Receipts
  BY <1>2 DEF Init, Receipts, Settled, RecordedOnce, HoldsReceipt, Receipted, InFlight
<1>4. Inserts
  BY <1>2, NoneAssumption DEF Init, Inserts, Standing, Acked, OwnTarget, OneOpenAlert, HoldsInsert, Written
<1>5. RowLocks
  BY <1>2 DEF RowLocks, LockedBumpIsCurrent, Locks, Updates, Written
<1>6. CardsFit
  BY <1>2 DEF Init, CardsFit, Sorted, Aimed, Grouped, Recorded, DetectionHasAlert, Matching, Targeted, Written
<1> QED
  BY <1>1, <1>3, <1>4, <1>5, <1>6 DEF IInv

LEMMA Invariance == Spec => []IInv
<1>1. IInv /\ [Next]_vars => IInv'
  BY TypeStep, ReceiptsStep, InsertsStep, RowLocksStep, CardsStep DEF IInv
<1> QED
  BY IInvInit, <1>1, PTL DEF Spec

(* At most one open alert per watchlist entry and camera: the partial      *)
(* unique index, the savepoint and the fallback keep it through every      *)
(* interleaving of any number of ingests and acknowledgements.             *)
THEOREM OneOpenAlertHolds == Spec => []OneOpenAlert
<1>1. IInv => OneOpenAlert
  BY DEF IInv, Inserts
<1> QED
  BY Invariance, <1>1, PTL

(* push_detection records no envelope twice, however often and however     *)
(* concurrently an adapter sends it.                                       *)
THEOREM RecordedOnceHolds == Spec => []RecordedOnce
<1>1. IInv => RecordedOnce
  BY DEF IInv, Receipts
<1> QED
  BY Invariance, <1>1, PTL

(* What maybe_raise_alert writes into a row it locked with FOR UPDATE is   *)
(* still right when it commits: no count is lost and no closed card bumped *)
(* on that path.                                                           *)
THEOREM LockedBumpIsCurrentHolds == Spec => []LockedBumpIsCurrent
<1>1. IInv => LockedBumpIsCurrent
  BY DEF IInv, RowLocks
<1> QED
  BY Invariance, <1>1, PTL

(* A committed detection that matched the watchlist is counted in a card   *)
(* of its own entry and camera, and no card exists without its detection:  *)
(* push_detection commits the receipt, the detection and the alert row     *)
(* together or not at all.                                                 *)
THEOREM DetectionHasAlertHolds == Spec => []DetectionHasAlert
<1>1. IInv => DetectionHasAlert
  BY DEF IInv, CardsFit, Recorded
<1> QED
  BY Invariance, <1>1, PTL

-----------------------------------------------------------------------------
(***************************************************************************)
(* The engine implements the inbox.  Only a commit is visible in it; every *)
(* other step of a delivery or of an acknowledge request stutters.         *)
(***************************************************************************)

LEMMA InboxInit == Init => Inbox!Init
BY DEF Init, Inbox!Init

(* What the inbox has on record is what has been committed.                *)
LEMMA InboxRecord ==
  ASSUME IInv
  PROVE  Inbox!OnRecord = recorded
<1>1. \A r \in recorded : r \in Delivery /\ env[r] \in Envelope
  BY OnRecordStarted DEF IInv
<1> QED
  BY <1>1, NoneAssumption DEF Inbox!OnRecord

LEMMA InboxStutter ==
  ASSUME IInv, Uncommitted
  PROVE  UNCHANGED Inbox!vars
<1>1. \A r \in Delivery : r \in recorded => env'[r] = env[r]
  BY OnRecordStarted DEF IInv, Uncommitted
<1>2. recorded' = recorded /\ status' = status /\ credit' = credit
  BY DEF Uncommitted
<1>3. [r \in Delivery |-> IF r \in recorded THEN env[r] ELSE None]'
        = [r \in Delivery |-> IF r \in recorded THEN env[r] ELSE None]
  BY <1>1, <1>2
<1> QED
  BY <1>2, <1>3 DEF Inbox!vars

(* Of all steps only the two commits are visible.                          *)
LEMMA VisibleSteps ==
  ASSUME IInv, [Next]_vars
  PROVE  \/ Uncommitted
         \/ \E r \in Delivery : Commit(r)
         \/ \E o \in Operator : AckCommit(o)
<1>1. ASSUME NEW r \in Delivery, NEW e \in Envelope, Deliver(r, e)
      PROVE  Uncommitted
  BY <1>1 DEF Deliver, Uncommitted, rowVars, IInv, TypeOK
<1>2. ASSUME NEW r \in Delivery, Refuse(r) \/ Fail(r) \/ Advance(r), ~ Commit(r)
      PROVE  Uncommitted
  BY <1>2 DEF Refuse, Fail, Advance, CheckReplay, AddReceipt, LoadCamera, UnknownCamera,
     TouchCamera, SelectOpen, LockOpen, BumpLocked, InsertAlert, Reselect, Reraise, BumpStale,
     PublishAlert, Reply, RollBack, Step, Uncommitted, rowVars
<1>3. ASSUME NEW o \in Operator, NEW a \in Delivery, AckTake(o, a)
      PROVE  Uncommitted
  BY <1>3 DEF AckTake, Uncommitted, delVars, rowVars
<1>4. ASSUME NEW o \in Operator, AckSeek(o) \/ AckClose(o) \/ AckFail(o)
      PROVE  Uncommitted
  BY <1>4 DEF AckSeek, AckClose, AckFail, Uncommitted, delVars, rowVars
<1>5. CASE UNCHANGED vars
  BY <1>5 DEF vars, Uncommitted, delVars, rowVars
<1> QED
  BY <1>1, <1>2, <1>3, <1>4, <1>5 DEF Next, AckAdvance, Quiet

(* A commit files a new detection, raises its card if it inserted one and  *)
(* counts it in an existing one of its entry and camera otherwise.         *)
LEMMA CommitFiles ==
  ASSUME IInv, NEW r \in Delivery, Commit(r)
  PROVE  Inbox!Next
<1>1. /\ pc[r] \in {"unmatched", "announced"} /\ env' = env
      /\ recorded' = recorded \cup {r}
      /\ credit' = [credit EXCEPT ![r] = target[r]]
      /\ status' = [a \in Delivery |-> IF a = target[r] /\ via[r] = "insert"
                                         THEN "new" ELSE status[a]]
  BY DEF Commit, CommitDetection, Goto
<1>2. /\ env[r] \in Envelope /\ r \notin recorded
      /\ \A q \in recorded : q \in Delivery
  BY <1>1 DEF IInv, TypeOK, Receipts, Settled
<1>3. /\ status \in [Delivery -> {"none", "new", "acknowledged"}]
      /\ credit \in [Delivery -> Delivery \cup {None}]
  BY DEF IInv, TypeOK
<1>4. Inbox!File(r, env[r])
  <2>1. \A q \in recorded : ~ Inbox!Replay(env[r], env[q])
    <3> SUFFICES ASSUME NEW q \in recorded, Inbox!Replay(env[r], env[q]) PROVE FALSE
      OBVIOUS
    <3>1. SameReceipt(r, q) /\ FromAdapter(r)
      BY DEF Inbox!Replay, SameReceipt, FromAdapter
    <3>2. HoldsReceipt(r)
      BY <1>1, <3>1 DEF HoldsReceipt, Receipted, InFlight
    <3> QED
      BY <3>1, <3>2 DEF IInv, Receipts
  <2>2. \A q \in Inbox!OnRecord : ~ Inbox!Replay(env[r], [p \in Delivery |-> IF p \in recorded THEN env[p] ELSE None][q])
    BY <1>2, <2>1, InboxRecord
  <2>3. [q \in Delivery |-> IF q \in recorded THEN env[q] ELSE None]'
          = [[q \in Delivery |-> IF q \in recorded THEN env[q] ELSE None] EXCEPT ![r] = env[r]]
    BY <1>1
  <2> QED
    BY <1>2, <2>2, <2>3 DEF Inbox!File
<1>5. CASE pc[r] = "unmatched"
  <2>1. env[r].entry = NoEntry /\ target[r] = None /\ credit[r] = None
    BY <1>2, <1>5 DEF IInv, Inserts, OwnTarget, Targeted, Written, CardsFit, Sorted, Recorded
  <2>2. status' = status /\ credit' = credit
    BY <1>1, <1>3, <2>1, NoneAssumption
  <2>3. Inbox!Note(r, env[r])
    BY <1>4, <2>1, <2>2 DEF Inbox!Note
  <2> QED
    BY <1>2, <2>3 DEF Inbox!Next
<1>6. CASE pc[r] = "announced"
  <2>1. env[r].entry # NoEntry
    BY <1>6 DEF IInv, CardsFit, Sorted, Matching, Written
  <2>2. CASE via[r] = "insert"
    <3>1. HoldsInsert(r) /\ target[r] = r
      BY <1>6, <2>2 DEF IInv, Inserts, OwnTarget, HoldsInsert, Written
    <3>2. \A a \in Inbox!Cards(env[r]) : status[a] # "new"
      <4> SUFFICES ASSUME NEW a \in Inbox!Cards(env[r]), status[a] = "new" PROVE FALSE
        OBVIOUS
      <4>1. a \in recorded /\ a \in Delivery
        BY <1>2, InboxRecord DEF Inbox!Cards
      <4>2. SameKey(a, r)
        BY <4>1 DEF Inbox!Cards, Inbox!OnKey, SameKey
      <4> QED
        BY <3>1, <4>1, <4>2 DEF IInv, Inserts
    <3>3. /\ status' = [status EXCEPT ![r] = "new"]
          /\ credit' = [credit EXCEPT ![r] = r]
      BY <1>1, <1>3, <2>2, <3>1
    <3>4. Inbox!Raise(r, env[r])
      BY <1>4, <2>1, <3>2, <3>3 DEF Inbox!Raise
    <3> QED
      BY <1>2, <3>4 DEF Inbox!Next
  <2>3. CASE via[r] # "insert"
    <3>1. /\ target[r] \in Delivery /\ status[target[r]] # "none" /\ SameKey(target[r], r)
          /\ target[r] \in recorded
      BY <1>6, <2>3 DEF IInv, TypeOK, CardsFit, Recorded, Aimed, HoldsInsert, Targeted, Written
    <3>2. target[r] \in Inbox!Cards(env[r])
      BY <3>1, InboxRecord DEF Inbox!Cards, Inbox!OnKey, SameKey
    <3>3. status' = status
      BY <1>1, <1>3, <2>3
    <3>4. Inbox!Stack(r, env[r])
      BY <1>1, <1>4, <2>1, <3>2, <3>3 DEF Inbox!Stack
    <3> QED
      BY <1>2, <3>4 DEF Inbox!Next
  <2> QED
    BY <2>2, <2>3
<1> QED
  BY <1>1, <1>5, <1>6

(* The commit of an acknowledgement closes the cards it had taken.         *)
LEMMA AckCloses ==
  ASSUME IInv, NEW o \in Operator, AckCommit(o)
  PROVE  Inbox!Next
<1> DEFINE S == {ackRow[o], ackSibling[o]} \cap Delivery
<1>1. /\ ackPc[o] = "closed" /\ env' = env /\ recorded' = recorded /\ credit' = credit
      /\ status' = [a \in Delivery |-> IF a \in {ackRow[o], ackSibling[o]}
                                         THEN "acknowledged" ELSE status[a]]
  BY DEF AckCommit, delVars
<1>2. ackRow[o] \in S
  BY <1>1 DEF IInv, CardsFit, Grouped
<1>3. \A a \in S : a \in recorded /\ status[a] # "none"
  BY DEF IInv, Inserts, Acked, CardsFit, Recorded
<1>4. \A a, b \in S : SameKey(a, b)
  BY NoneAssumption DEF IInv, CardsFit, Grouped, SameKey
<1>5. \A a, b \in S : a \in Inbox!Cards([r \in Delivery |-> IF r \in recorded THEN env[r] ELSE None][b])
  BY <1>3, <1>4, InboxRecord DEF Inbox!Cards, Inbox!OnKey, SameKey
<1>6. status' = [a \in Delivery |-> IF a \in S THEN "acknowledged" ELSE status[a]]
  BY <1>1
<1>7. [r \in Delivery |-> IF r \in recorded THEN env[r] ELSE None]'
        = [r \in Delivery |-> IF r \in recorded THEN env[r] ELSE None]
  BY <1>1
<1>8. Inbox!Close(S)
  BY <1>1, <1>2, <1>5, <1>6, <1>7 DEF Inbox!Close
<1>9. S \in SUBSET Inbox!OnRecord
  BY <1>3, InboxRecord
<1> QED
  BY <1>8, <1>9 DEF Inbox!Next

(* Whatever requests overlap, wait or fail, an operator sees an inbox in   *)
(* which detections are filed one at a time and once, each in at most one  *)
(* card of its own entry and camera, one card open per key, and cards only *)
(* ever close: push_detection, maybe_raise_alert and ack_alert implement   *)
(* AlertInbox.                                                             *)
THEOREM EngineImplementsInbox == Spec => ImplementsInbox
<1>1. IInv /\ [Next]_vars => [Inbox!Next]_(Inbox!vars)
  BY VisibleSteps, InboxStutter, CommitFiles, AckCloses
<1> QED
  BY InboxInit, Invariance, <1>1, PTL DEF Spec, ImplementsInbox, Inbox!Spec
=============================================================================
