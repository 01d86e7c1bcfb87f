------------------------------ MODULE FaceEngine ------------------------------
(***************************************************************************)
(* The ArcFace engine of services/face.py.  Every process loads it for     *)
(* itself, in its warm-up thread and in any call that finds it not loaded: *)
(* both download the pack into one volume that the processes share, with   *)
(* no lock, and open two ONNX files.  A failure is remembered until the    *)
(* process ends.  The API asks it for watchlist stills and face searches.  *)
(* The workers only warm it up: they would embed persons of live frames    *)
(* (_maybe_embed_person), but never of the Sentinel cameras, whose frames  *)
(* are the only ones that reach them.                                      *)
(***************************************************************************)
EXTENDS Naturals

CONSTANTS
    Apis, Workers, \* processes
    MaxCrashes,    \* bound: processes killed
    MaxFaults      \* bound: downloads that fail

ASSUME ProcsAssumption == Apis \cap Workers = {}
ASSUME BoundsAssumption == MaxCrashes \in Nat /\ MaxFaults \in Nat

VARIABLES
    file, opener,   \* the shared ONNX files; the thread that truncated each last
    det, rec, meta, \* processes whose _det, _rec, _det_meta are set
    failed,         \* processes whose _failed is set
    pc,             \* the step of each thread
    answer,         \* what the last call of each API process came to
    sure,           \* history: the last call began with all of the engine loaded
    crashes, faults

files == <<file, opener>>
sessions == <<det, rec, meta, failed>>
calls == <<answer, sure>>
counts == <<crashes, faults>>
vars == <<files, sessions, pc, calls, counts>>

Procs == Apis \cup Workers
Names == {"det", "rec"}
Threads == (Procs \X {"warm"}) \cup (Apis \X {"loop"})
NoThread == <<>>
Steps == {"idle", "load", "look", "fetch", "writeDet", "writeRec",
          "openDet", "openRec", "openMeta", "use", "done"}
Answers == {"pending", "served", "no face", "refused", "broken"}

TypeOK ==
    /\ file \in [Names -> {"absent", "torn", "whole"}]
    /\ opener \in [Names -> Threads \cup {NoThread}]
    /\ det \subseteq Procs /\ rec \subseteq Procs /\ meta \subseteq Procs
    /\ failed \subseteq Procs
    /\ pc \in [Threads -> Steps]
    /\ answer \in [Apis -> Answers] /\ sure \subseteq Apis
    /\ crashes \in 0..MaxCrashes /\ faults \in 0..MaxFaults

Start(t) == IF t[2] = "warm" THEN "load" ELSE "idle"

Init ==
    /\ file = [n \in Names |-> "absent"] /\ opener = [n \in Names |-> NoThread]
    /\ det = {} /\ rec = {} /\ meta = {} /\ failed = {}
    /\ pc = [t \in Threads |-> Start(t)]
    /\ answer = [p \in Apis |-> "no face"] /\ sure = {}
    /\ crashes = 0 /\ faults = 0

-----------------------------------------------------------------------------
(* arcface_ready, and the first test of _load_sessions. *)
Ready(p) == p \in det /\ p \in rec

GoTo(t, step) == pc' = [pc EXCEPT ![t] = step]

(* require_arcface, or warm-up, comes back. *)
Loaded(t) == GoTo(t, IF t[2] = "warm" THEN "done" ELSE "use")

(* The call of the loop thread ends with an answer; a warm-up has none. *)
Return(t, a) ==
    /\ GoTo(t, IF t[2] = "warm" THEN "done" ELSE "idle")
    /\ answer' = IF t[2] = "warm" THEN answer ELSE [answer EXCEPT ![t[1]] = a]

(* enroll_face and search_face, on the event loop: a still was uploaded. *)
Ask(p) ==
    /\ pc[<<p, "loop">>] = "idle"
    /\ GoTo(<<p, "loop">>, "load")
    /\ answer' = [answer EXCEPT ![p] = "pending"]
    /\ sure' = IF Ready(p) /\ p \in meta THEN sure \cup {p} ELSE sure \ {p}
    /\ UNCHANGED <<files, sessions, counts>>

(* Mutant of Refuses: a failure is reported before the sessions are looked  *)
(* at.                                                                     *)
RefusesFirst(p) == p \in failed

Refuses(p) == ~Ready(p) /\ p \in failed

(* _load_sessions up to its try. *)
Load(t) ==
    /\ pc[t] = "load"
    /\ \/ Refuses(t[1]) /\ Return(t, "refused")
       \/ ~Refuses(t[1]) /\ Ready(t[1]) /\ Loaded(t) /\ UNCHANGED answer
       \/ ~Refuses(t[1]) /\ ~Ready(t[1]) /\ GoTo(t, "look") /\ UNCHANGED answer
    /\ UNCHANGED <<files, sessions, sure, counts>>

-----------------------------------------------------------------------------
(* _download_buffalo: nothing to do when both names exist. *)
Look(t) ==
    /\ pc[t] = "look"
    /\ GoTo(t, IF \A n \in Names : file[n] # "absent" THEN "openDet" ELSE "fetch")
    /\ UNCHANGED <<files, sessions, calls, counts>>

(* The except branch of _load_sessions. *)
Failure(t) ==
    /\ failed' = failed \cup {t[1]}
    /\ Return(t, "refused")
    /\ UNCHANGED <<det, rec, meta, sure>>

FetchFails(t) ==
    /\ pc[t] = "fetch" /\ faults < MaxFaults
    /\ faults' = faults + 1
    /\ Failure(t)
    /\ UNCHANGED <<files, crashes>>

Truncated(f, n) == [f EXCEPT ![n] = "torn"]

(* Mutant of Closed: a member of the pack that cannot be read is skipped.   *)
ClosedEmpty(f, t, n) == {[f EXCEPT ![n] = "whole"], f}

(* write_bytes gives the whole file; a file that another thread truncated  *)
(* in the meantime has its bytes only when that thread has written too.    *)
Closed(f, t, n) ==
    {[f EXCEPT ![n] = "whole"]} \cup IF opener[n] = t THEN {} ELSE {f}

Fetch(t) ==
    /\ pc[t] = "fetch" /\ GoTo(t, "writeDet")
    /\ file' = Truncated(file, "det")
    /\ opener' = [opener EXCEPT !["det"] = t]
    /\ UNCHANGED <<sessions, calls, counts>>

WriteDet(t) ==
    /\ pc[t] = "writeDet" /\ GoTo(t, "writeRec")
    /\ \E f \in Closed(file, t, "det") : file' = Truncated(f, "rec")
    /\ opener' = [opener EXCEPT !["rec"] = t]
    /\ UNCHANGED <<sessions, calls, counts>>

WriteRec(t) ==
    /\ pc[t] = "writeRec" /\ GoTo(t, "openDet")
    /\ file' \in Closed(file, t, "rec")
    /\ UNCHANGED <<opener, sessions, calls, counts>>

(* ort.InferenceSession raises on a torn file. *)
OpenDet(t) ==
    /\ pc[t] = "openDet"
    /\ IF file["det"] = "whole"
       THEN det' = det \cup {t[1]} /\ GoTo(t, "openRec")
            /\ UNCHANGED <<rec, meta, failed, calls>>
       ELSE Failure(t)
    /\ UNCHANGED <<files, counts>>

(* Mutant of MayOpenRec: a failure of another thread counts here too. *)
MayOpenRecUnlessFailed(p) == file["rec"] = "whole" /\ p \notin failed

MayOpenRec(p) == file["rec"] = "whole"

OpenRec(t) ==
    /\ pc[t] = "openRec"
    /\ IF MayOpenRec(t[1])
       THEN rec' = rec \cup {t[1]} /\ GoTo(t, "openMeta")
            /\ UNCHANGED <<det, meta, failed, calls>>
       ELSE Failure(t)
    /\ UNCHANGED <<files, counts>>

OpenMeta(t) ==
    /\ pc[t] = "openMeta"
    /\ meta' = meta \cup {t[1]} /\ Loaded(t)
    /\ UNCHANGED <<files, det, rec, failed, calls, counts>>

-----------------------------------------------------------------------------
(* _detect_bgr reads _det_meta; KeyError is no FaceEngineError. *)
Detects(p) == p \in meta

(* embed_image_bytes, once the engine is there. *)
Embed(p) ==
    /\ pc[<<p, "loop">>] = "use" /\ Detects(p)
    /\ Return(<<p, "loop">>, "served")
    /\ UNCHANGED <<files, sessions, sure, counts>>

NoFace(p) ==
    /\ pc[<<p, "loop">>] = "use" /\ Detects(p)
    /\ Return(<<p, "loop">>, "no face")
    /\ UNCHANGED <<files, sessions, sure, counts>>

Breaks(p) ==
    /\ pc[<<p, "loop">>] = "use" /\ ~Detects(p)
    /\ Return(<<p, "loop">>, "broken")
    /\ UNCHANGED <<files, sessions, sure, counts>>

(* A process is killed and started again; the volume stays as it is. *)
Crash(p) ==
    /\ crashes < MaxCrashes /\ crashes' = crashes + 1
    /\ det' = det \ {p} /\ rec' = rec \ {p} /\ meta' = meta \ {p} /\ failed' = failed \ {p}
    /\ pc' = [t \in Threads |-> IF t[1] = p THEN Start(t) ELSE pc[t]]
    /\ opener' = [n \in Names |-> IF opener[n] \in {p} \X {"warm", "loop"} THEN NoThread ELSE opener[n]]
    /\ answer' = [q \in Apis |-> IF q = p THEN "no face" ELSE answer[q]]
    /\ sure' = sure \ {p}
    /\ UNCHANGED <<file, faults>>

Loading(t) ==
    \/ Load(t) \/ Look(t) \/ FetchFails(t) \/ Fetch(t) \/ WriteDet(t) \/ WriteRec(t)
    \/ OpenDet(t) \/ OpenRec(t) \/ OpenMeta(t)

Using(p) == Embed(p) \/ NoFace(p) \/ Breaks(p)

Next ==
    \/ \E t \in Threads : Loading(t)
    \/ \E p \in Apis : Ask(p) \/ Using(p)
    \/ \E p \in Procs : Crash(p)

(* The download has a time limit and everything else is local work. *)
Fairness ==
    /\ \A t \in Threads : WF_vars(Loading(t))
    /\ \A p \in Apis : WF_vars(Using(p))

Spec == Init /\ [][Next]_vars
FairSpec == Spec /\ Fairness

-----------------------------------------------------------------------------
(* A call that begins with the engine loaded is served, or finds no face:  *)
(* a failure that another thread of the process had, before or since, does *)
(* not reach it (the order of the tests in _load_sessions).                *)
LoadedServes == \A p \in sure : answer[p] \notin {"refused", "broken"}

(* Threads and processes may download at the same time and truncate each   *)
(* other's files, and one may find both names while another still writes:  *)
(* when the last has written, both files are whole.                        *)
WholeWhenQuiet ==
    crashes = 0 /\ (\A t \in Threads : pc[t] \notin {"writeDet", "writeRec"})
        => \A n \in Names : file[n] # "torn"

(* If no download fails and nothing is killed, the race for the files has  *)
(* a winner: some process gets its engine.                                 *)
SomeoneReady == [](crashes = 0 /\ faults = 0) => <>(\E p \in Procs : Ready(p))

(* "Safe to call from a worker thread" (warmup_arcface): a call never finds *)
(* the two sessions without the meta data.  Not so, between the two.        *)
NeverBroken == \A p \in Apis : answer[p] # "broken"

(* The faces come back whatever was killed.  Not so: a torn file has both   *)
(* names, no later start downloads again, and every load fails.             *)
BackAfterCrash == []<>(\E p \in Procs : Ready(p))
=============================================================================
