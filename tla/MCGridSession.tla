--------------------------- MODULE MCGridSession ----------------------------
(* Small instances of GridSession for TLC.                                 *)
EXTENDS GridSession, SequencesExt

CONSTANTS p1, p2, p3, t1, t2, t3

(* One thread per replica, or two in the first, as in a worker, which      *)
(* syncs the catalogue beside its grab threads.                            *)
OneEach == t1 :> p1 @@ t2 :> p2
TwoInOne == t1 :> p1 @@ t2 :> p1
TwoAndOne == t1 :> p1 @@ t2 :> p1 @@ t3 :> p2

(* More tokens than the variables of three threads can hold at once.       *)
Tokens == 1 .. 11

(* States that differ in the names of tokens only are one: tokens are      *)
(* compared with each other and with None, and a login may issue any that  *)
(* nobody holds.  Each holder stands for the first that has the same one.  *)
Processes == SetToSeq(Process)
Threads   == SetToSeq(Thread)

SessionView ==
  LET held == <<None, valid, shared>>
                \o [i \in DOMAIN Processes |-> cookie[Processes[i]]]
                \o [i \in DOMAIN Threads |-> token[Threads[i]]]
                \o [i \in DOMAIN Threads |-> sent[Threads[i]]]
                \o [i \in DOMAIN Threads |-> used[Threads[i]]]
  IN  <<[i \in DOMAIN held |-> CHOOSE j \in DOMAIN held : held[j] = held[i]],
        age, lock, pc, force, got, path, restored>>
=============================================================================
