----------------------------- MODULE AlertInbox -----------------------------
(***************************************************************************)
(* What the alert engine promises the control room, without transactions,  *)
(* locks or requests: detections are filed one at a time, each in at most  *)
(* one card, at most one card is open per watchlist entry and camera, and  *)
(* a card is only ever closed.                                             *)
(***************************************************************************)
CONSTANTS Delivery, Envelope, Adapter, NoEntry, None

VARIABLES
  filed,   \* the envelope on record for a delivery, or None
  card,    \* status of the card a delivery opened
  credit   \* the card a delivery is counted in

vars == <<filed, card, credit>>

OnRecord == {r \in Delivery : filed[r] # None}

(* Same sender and the same event id or sequence number.                   *)
Replay(e, f) ==
  /\ e.adapter \in Adapter /\ e.adapter = f.adapter
  /\ e.event = f.event \/ e.seq = f.seq

OnKey(a, e) == filed[a].entry = e.entry /\ filed[a].camera = e.camera

Cards(e) == {a \in OnRecord : card[a] # "none" /\ OnKey(a, e)}

Init ==
  /\ filed = [r \in Delivery |-> None]
  /\ card = [r \in Delivery |-> "none"]
  /\ credit = [r \in Delivery |-> None]

(* A detection goes on record once, and only a new one.                    *)
File(r, e) ==
  /\ filed[r] = None
  /\ \A q \in OnRecord : ~ Replay(e, filed[q])
  /\ filed' = [filed EXCEPT ![r] = e]

(* It matches no watchlist entry.                                          *)
Note(r, e) ==
  /\ File(r, e)
  /\ e.entry = NoEntry
  /\ UNCHANGED <<card, credit>>

(* It opens a card, and there was none open for its entry and camera.      *)
Raise(r, e) ==
  /\ File(r, e)
  /\ e.entry # NoEntry
  /\ \A a \in Cards(e) : card[a] # "new"
  /\ card' = [card EXCEPT ![r] = "new"]
  /\ credit' = [credit EXCEPT ![r] = r]

(* It is counted in a card that exists for its entry and camera.           *)
Stack(r, e) ==
  /\ File(r, e)
  /\ e.entry # NoEntry
  /\ \E a \in Cards(e) : credit' = [credit EXCEPT ![r] = a]
  /\ UNCHANGED card

(* An operator closes cards of one entry and camera.                       *)
Close(S) ==
  /\ S # {}
  /\ \A a, b \in S : a \in Cards(filed[b])
  /\ card' = [a \in Delivery |-> IF a \in S THEN "acknowledged" ELSE card[a]]
  /\ UNCHANGED <<filed, credit>>

Next ==
  \/ \E r \in Delivery, e \in Envelope : Note(r, e) \/ Raise(r, e) \/ Stack(r, e)
  \/ \E S \in SUBSET OnRecord : Close(S)

Spec == Init /\ [][Next]_vars
=============================================================================
