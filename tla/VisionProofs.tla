----------------------------- MODULE VisionProofs -----------------------------
(***************************************************************************)
(* What is proved of FaceEngine and of Tracker, which share no variable.   *)
(***************************************************************************)
EXTENDS FaceEngine, Tracker, FiniteSetTheorems, WellFoundedInduction, TLAPS

(* FaceEngine: the race for the model files and what a loaded engine       *)
(* promises, for any number of processes, crashes and failed downloads.    *)

Writing(n) == IF n = "det" THEN "writeDet" ELSE "writeRec"

(* A torn file is being written by the thread that truncated it last,      *)
(* unless a process was killed.                                            *)
TornIsWritten ==
    crashes = 0 => \A n \in Names :
        file[n] = "torn" => opener[n] \in Threads /\ pc[opener[n]] = Writing(n)

FilesInv ==
    /\ DOMAIN file = Names /\ DOMAIN opener = Names /\ DOMAIN pc = Threads
    /\ crashes \in Nat
    /\ TornIsWritten

LEMMA FilesInit == Init => FilesInv
  <1> SUFFICES ASSUME Init PROVE FilesInv
    OBVIOUS
  <1>1. DOMAIN file = Names /\ DOMAIN opener = Names /\ DOMAIN pc = Threads /\ crashes = 0
    BY DEF Init
  <1>2. \A n \in Names : file[n] # "torn"
    BY DEF Init
  <1> QED
    BY <1>1, <1>2 DEF FilesInv, TornIsWritten

(* A step that moves one thread, which is not writing, and leaves the      *)
(* files alone.                                                            *)
LEMMA FilesKept ==
  ASSUME FilesInv, UNCHANGED <<files, crashes>>, DOMAIN pc' = Threads,
         \A t \in Threads : pc[t] \in {"writeDet", "writeRec"} => pc'[t] = pc[t]
  PROVE  FilesInv'
  <1>1. file' = file /\ opener' = opener /\ crashes' = crashes
    BY DEF files
  <1>2. ASSUME crashes = 0, NEW n \in Names, file[n] = "torn"
        PROVE  opener[n] \in Threads /\ pc'[opener[n]] = Writing(n)
    <2>1. opener[n] \in Threads /\ pc[opener[n]] = Writing(n)
      BY <1>2 DEF FilesInv, TornIsWritten
    <2>2. Writing(n) \in {"writeDet", "writeRec"}
      BY DEF Writing
    <2> QED
      BY <2>1, <2>2
  <1> QED
    BY <1>1, <1>2 DEF FilesInv, TornIsWritten, Writing

(* GoTo and Return move one thread. *)
LEMMA Moves ==
  ASSUME FilesInv, NEW t \in Threads, NEW step, GoTo(t, step)
  PROVE  /\ DOMAIN pc' = Threads
         /\ pc'[t] = step
         /\ \A u \in Threads : u # t => pc'[u] = pc[u]
  BY DEF FilesInv, GoTo

LEMMA FetchStep ==
  ASSUME FilesInv, NEW t \in Threads, Fetch(t)
  PROVE  FilesInv'
  <1>1. /\ pc[t] = "fetch" /\ GoTo(t, "writeDet")
        /\ file' = [file EXCEPT !["det"] = "torn"]
        /\ opener' = [opener EXCEPT !["det"] = t]
        /\ crashes' = crashes
    BY DEF Fetch, Truncated, counts
  <1>2. /\ DOMAIN pc' = Threads /\ pc'[t] = "writeDet"
        /\ \A u \in Threads : u # t => pc'[u] = pc[u]
    BY <1>1, Moves
  <1>3. DOMAIN file' = Names /\ DOMAIN opener' = Names
    BY <1>1 DEF FilesInv
  <1>4. ASSUME crashes = 0, NEW n \in Names, file'[n] = "torn"
        PROVE  opener'[n] \in Threads /\ pc'[opener'[n]] = Writing(n)
    <2>1. CASE n = "det"
      BY <1>1, <1>2, <2>1 DEF FilesInv, Names, Writing
    <2>2. CASE n = "rec"
      <3>1. file[n] = "torn" /\ opener'[n] = opener[n]
        BY <1>1, <1>4, <2>2 DEF FilesInv, Names
      <3>2. opener[n] \in Threads /\ pc[opener[n]] = "writeRec"
        BY <1>4, <2>2, <3>1 DEF FilesInv, TornIsWritten, Writing
      <3>3. opener[n] # t
        BY <1>1, <3>2
      <3> QED
        BY <1>2, <2>2, <3>1, <3>2, <3>3 DEF Writing
    <2> QED
      BY <2>1, <2>2 DEF Names
  <1> QED
    BY <1>1, <1>2, <1>3, <1>4 DEF FilesInv, TornIsWritten, Writing

LEMMA WriteDetStep ==
  ASSUME FilesInv, NEW t \in Threads, WriteDet(t)
  PROVE  FilesInv'
  <1>1. PICK f \in Closed(file, t, "det") : file' = [f EXCEPT !["rec"] = "torn"]
    BY DEF WriteDet, Truncated
  <1>2. /\ pc[t] = "writeDet" /\ GoTo(t, "writeRec")
        /\ opener' = [opener EXCEPT !["rec"] = t]
        /\ crashes' = crashes
    BY DEF WriteDet, counts
  <1>3. /\ DOMAIN pc' = Threads /\ pc'[t] = "writeRec"
        /\ \A u \in Threads : u # t => pc'[u] = pc[u]
    BY <1>2, Moves
  <1>4. /\ DOMAIN f = Names
        /\ f["det"] = "torn" => file["det"] = "torn" /\ opener["det"] # t
    BY <1>1 DEF Closed, FilesInv, Names
  <1>5. DOMAIN file' = Names /\ DOMAIN opener' = Names
    BY <1>1, <1>2, <1>4 DEF FilesInv
  <1>6. ASSUME crashes = 0, NEW n \in Names, file'[n] = "torn"
        PROVE  opener'[n] \in Threads /\ pc'[opener'[n]] = Writing(n)
    <2>1. CASE n = "rec"
      BY <1>2, <1>3, <2>1 DEF FilesInv, Names, Writing
    <2>2. CASE n = "det"
      <3>1. f["det"] = "torn" /\ opener'[n] = opener[n]
        BY <1>1, <1>2, <1>4, <1>6, <2>2 DEF FilesInv, Names
      <3>2. opener[n] \in Threads /\ pc[opener[n]] = "writeDet" /\ opener[n] # t
        BY <1>4, <1>6, <2>2, <3>1 DEF FilesInv, TornIsWritten, Writing
      <3> QED
        BY <1>3, <2>2, <3>1, <3>2 DEF Writing
    <2> QED
      BY <2>1, <2>2 DEF Names
  <1> QED
    BY <1>2, <1>3, <1>5, <1>6 DEF FilesInv, TornIsWritten, Writing

LEMMA WriteRecStep ==
  ASSUME FilesInv, NEW t \in Threads, WriteRec(t)
  PROVE  FilesInv'
  <1>1. /\ pc[t] = "writeRec" /\ GoTo(t, "openDet")
        /\ file' \in Closed(file, t, "rec")
        /\ opener' = opener /\ crashes' = crashes
    BY DEF WriteRec, counts
  <1>2. /\ DOMAIN pc' = Threads
        /\ \A u \in Threads : u # t => pc'[u] = pc[u]
    BY <1>1, Moves
  <1>3. /\ DOMAIN file' = Names
        /\ file'["rec"] = "torn" => file["rec"] = "torn" /\ opener["rec"] # t
        /\ file'["det"] = file["det"]
    BY <1>1 DEF Closed, FilesInv, Names
  <1>4. ASSUME crashes = 0, NEW n \in Names, file'[n] = "torn"
        PROVE  opener[n] \in Threads /\ pc'[opener[n]] = Writing(n)
    <2>1. file[n] = "torn"
      BY <1>3, <1>4 DEF Names
    <2>2. opener[n] \in Threads /\ pc[opener[n]] = Writing(n)
      BY <1>4, <2>1 DEF FilesInv, TornIsWritten
    <2>3. opener[n] # t
      <3>1. CASE n = "rec"
        BY <1>3, <1>4, <3>1
      <3>2. CASE n = "det"
        BY <1>1, <2>2, <3>2 DEF Writing
      <3> QED
        BY <3>1, <3>2 DEF Names
    <2> QED
      BY <1>2, <2>2, <2>3
  <1> QED
    BY <1>1, <1>2, <1>3, <1>4 DEF FilesInv, TornIsWritten, Writing

(* The steps of a thread that is not writing. *)
LEMMA OtherStep ==
  ASSUME FilesInv, NEW t \in Threads, NEW step,
         GoTo(t, step), pc[t] \notin {"writeDet", "writeRec"}, UNCHANGED <<files, crashes>>
  PROVE  FilesInv'
  <1>1. DOMAIN pc' = Threads /\ \A u \in Threads : u # t => pc'[u] = pc[u]
    BY Moves
  <1> QED
    BY <1>1, FilesKept

LEMMA LoadingStep ==
  ASSUME FilesInv, NEW t \in Threads, Loading(t)
  PROVE  FilesInv'
  <1>1. CASE Load(t)
    <2>1. pc[t] = "load" /\ UNCHANGED <<files, crashes>> /\ \E step : GoTo(t, step)
      BY <1>1 DEF Load, Return, Loaded, counts
    <2> QED
      BY <2>1, OtherStep
  <1>2. CASE Look(t)
    <2>1. pc[t] = "look" /\ UNCHANGED <<files, crashes>> /\ \E step : GoTo(t, step)
      BY <1>2 DEF Look, counts
    <2> QED
      BY <2>1, OtherStep
  <1>3. CASE FetchFails(t)
    <2>1. pc[t] = "fetch" /\ UNCHANGED <<files, crashes>> /\ \E step : GoTo(t, step)
      BY <1>3 DEF FetchFails, Failure, Return
    <2> QED
      BY <2>1, OtherStep
  <1>4. CASE OpenDet(t)
    <2>1. pc[t] = "openDet" /\ UNCHANGED <<files, crashes>> /\ \E step : GoTo(t, step)
      BY <1>4 DEF OpenDet, Failure, Return, counts
    <2> QED
      BY <2>1, OtherStep
  <1>5. CASE OpenRec(t)
    <2>1. pc[t] = "openRec" /\ UNCHANGED <<files, crashes>> /\ \E step : GoTo(t, step)
      BY <1>5 DEF OpenRec, Failure, Return, counts
    <2> QED
      BY <2>1, OtherStep
  <1>6. CASE OpenMeta(t)
    <2>1. pc[t] = "openMeta" /\ UNCHANGED <<files, crashes>> /\ \E step : GoTo(t, step)
      BY <1>6 DEF OpenMeta, Loaded, counts
    <2> QED
      BY <2>1, OtherStep
  <1> QED
    BY <1>1, <1>2, <1>3, <1>4, <1>5, <1>6, FetchStep, WriteDetStep, WriteRecStep DEF Loading

LEMMA CallStep ==
  ASSUME FilesInv, NEW p \in Apis, Ask(p) \/ Using(p)
  PROVE  FilesInv'
  <1>1. <<p, "loop">> \in Threads
    BY DEF Threads
  <1>2. CASE Ask(p)
    <2>1. /\ pc[<<p, "loop">>] = "idle" /\ GoTo(<<p, "loop">>, "load")
          /\ UNCHANGED <<files, crashes>>
      BY <1>2 DEF Ask, counts
    <2> QED
      BY <1>1, <2>1, OtherStep
  <1>3. CASE Using(p)
    <2>1. /\ pc[<<p, "loop">>] = "use" /\ \E step : GoTo(<<p, "loop">>, step)
          /\ UNCHANGED <<files, crashes>>
      BY <1>3 DEF Using, Embed, NoFace, Breaks, Return, counts
    <2> QED
      BY <1>1, <2>1, OtherStep
  <1> QED
    BY <1>2, <1>3

LEMMA FilesNext ==
  ASSUME FilesInv, [Next]_vars
  PROVE  FilesInv'
  <1>1. ASSUME NEW p \in Procs, Crash(p) PROVE FilesInv'
    <2>1. /\ file' = file /\ crashes' = crashes + 1
          /\ DOMAIN pc' = Threads /\ DOMAIN opener' = Names
      BY <1>1 DEF Crash
    <2>2. crashes' \in Nat /\ crashes' # 0
      BY <2>1 DEF FilesInv
    <2> QED
      BY <2>1, <2>2 DEF FilesInv, TornIsWritten
  <1>2. CASE UNCHANGED vars
    <2>1. UNCHANGED <<file, opener, pc, crashes>>
      BY <1>2 DEF vars, files, counts
    <2> QED
      BY <2>1 DEF FilesInv, TornIsWritten, Writing
  <1> QED
    BY <1>1, <1>2, LoadingStep, CallStep DEF Next

(* Whoever writes last leaves whole files: a torn one still has its writer. *)
THEOREM FilesEndWhole == Spec => []WholeWhenQuiet
  <1>1. FilesInv => WholeWhenQuiet
    BY DEF FilesInv, TornIsWritten, WholeWhenQuiet, Writing
  <1> QED
    BY <1>1, FilesInit, FilesNext, PTL DEF Spec

-----------------------------------------------------------------------------
(* A call that began with the engine loaded is before its load, or uses    *)
(* it; what is loaded stays until the process ends.                        *)
Serving(p) ==
    /\ p \in det /\ p \in rec /\ p \in meta
    /\ pc[<<p, "loop">>] \in {"idle", "load", "use"}
    /\ answer[p] \notin {"refused", "broken"}

ServeInv ==
    /\ DOMAIN pc = Threads /\ DOMAIN answer = Apis /\ sure \subseteq Apis
    /\ \A p \in sure : Serving(p)

LEMMA ServeInit == Init => ServeInv
  BY DEF Init, ServeInv

(* A step of a warm-up, or of the loop of a process that is not sure. *)
LEMMA ServeKept ==
  ASSUME ServeInv, NEW t \in Threads, NEW step, GoTo(t, step),
         \/ answer' = answer
         \/ \E a : answer' = [answer EXCEPT ![t[1]] = a],
         t[2] = "warm" \/ t[1] \notin sure, t[2] = "warm" => answer' = answer,
         det \subseteq det', rec \subseteq rec', meta \subseteq meta', sure' = sure
  PROVE  ServeInv'
  <1>1. DOMAIN pc' = Threads /\ \A u \in Threads : u # t => pc'[u] = pc[u]
    BY DEF ServeInv, GoTo
  <1>2. DOMAIN answer' = Apis
    BY DEF ServeInv
  <1>3. ASSUME NEW p \in sure PROVE Serving(p)'
    <2>1. <<p, "loop">> \in Threads /\ <<p, "loop">> # t
      BY DEF ServeInv, Threads
    <2>2. answer'[p] = answer[p]
      BY DEF ServeInv, Threads
    <2> QED
      BY <1>1, <2>1, <2>2 DEF ServeInv, Serving
  <1> QED
    BY <1>1, <1>2, <1>3 DEF ServeInv

LEMMA ServeLoad ==
  ASSUME ServeInv, NEW t \in Threads, Load(t)
  PROVE  ServeInv'
  <1>1. /\ pc[t] = "load"
        /\ UNCHANGED <<det, rec, meta, sure>>
    BY DEF Load, sessions
  <1>2. CASE t[2] = "warm" \/ t[1] \notin sure
    <2>1. \E step : GoTo(t, step)
      BY DEF Load, Return, Loaded
    <2>2. /\ t[2] = "warm" => answer' = answer
          /\ answer' = answer \/ \E a : answer' = [answer EXCEPT ![t[1]] = a]
      BY DEF Load, Return
    <2> QED
      BY <1>1, <1>2, <2>1, <2>2, ServeKept
  <1>3. CASE t[2] # "warm" /\ t[1] \in sure
    <2>1. Ready(t[1])
      BY <1>3 DEF ServeInv, Serving, Ready
    <2>2. Loaded(t) /\ answer' = answer
      BY <2>1 DEF Load, Refuses
    <2>3. pc' = [pc EXCEPT ![t] = "use"]
      BY <1>3, <2>2 DEF Loaded, GoTo
    <2>4. ASSUME NEW p \in sure PROVE Serving(p)'
      <3>1. <<p, "loop">> \in Threads
        BY DEF ServeInv, Threads
      <3>2. pc'[<<p, "loop">>] \in {pc[<<p, "loop">>], "use"}
        BY <2>3, <3>1 DEF ServeInv
      <3> QED
        BY <1>1, <2>2, <3>2 DEF ServeInv, Serving
    <2> QED
      BY <1>1, <2>2, <2>3, <2>4 DEF ServeInv
  <1> QED
    BY <1>2, <1>3

(* The other steps of loading are those of no sure process' loop. *)
LEMMA LoaderIsNotSure ==
  ASSUME ServeInv, NEW t \in Threads, pc[t] \notin {"idle", "load", "use"}
  PROVE  t[2] = "warm" \/ t[1] \notin sure
  <1> SUFFICES ASSUME t[2] # "warm", t[1] \in sure PROVE FALSE
    OBVIOUS
  <1>1. t = <<t[1], "loop">>
    BY DEF Threads
  <1> QED
    BY <1>1 DEF ServeInv, Serving

LEMMA ServeLoading ==
  ASSUME ServeInv, NEW t \in Threads, Loading(t)
  PROVE  ServeInv'
  <1>1. CASE Load(t)
    BY <1>1, ServeLoad
  <1>2. CASE ~Load(t)
    <2>1. pc[t] \notin {"idle", "load", "use"}
      BY <1>2 DEF Loading, Look, FetchFails, Fetch, WriteDet, WriteRec, OpenDet, OpenRec, OpenMeta
    <2>2. \E step : GoTo(t, step)
      BY <1>2 DEF Loading, Look, FetchFails, Fetch, WriteDet, WriteRec, OpenDet, OpenRec, OpenMeta,
                  Failure, Return, Loaded
    <2>3. /\ t[2] = "warm" => answer' = answer
          /\ answer' = answer \/ \E a : answer' = [answer EXCEPT ![t[1]] = a]
      BY <1>2 DEF Loading, Look, FetchFails, Fetch, WriteDet, WriteRec, OpenDet, OpenRec, OpenMeta,
                  Failure, Return, calls
    <2>4. det \subseteq det' /\ rec \subseteq rec' /\ meta \subseteq meta' /\ sure' = sure
      BY <1>2 DEF Loading, Look, FetchFails, Fetch, WriteDet, WriteRec, OpenDet, OpenRec, OpenMeta,
                  Failure, calls, sessions
    <2> QED
      BY <2>1, <2>2, <2>3, <2>4, LoaderIsNotSure, ServeKept
  <1> QED
    BY <1>1, <1>2

LEMMA ServeAsk ==
  ASSUME ServeInv, NEW p \in Apis, Ask(p)
  PROVE  ServeInv'
  <1>1. /\ pc' = [pc EXCEPT ![<<p, "loop">>] = "load"]
        /\ answer' = [answer EXCEPT ![p] = "pending"]
        /\ sure' = IF Ready(p) /\ p \in meta THEN sure \cup {p} ELSE sure \ {p}
        /\ det' = det /\ rec' = rec /\ meta' = meta
    BY DEF Ask, GoTo, sessions
  <1>2. \A q \in Apis : <<q, "loop">> \in Threads
    BY DEF Threads
  <1>3. ASSUME NEW q \in sure' PROVE Serving(q)'
    <2>1. CASE q = p
      BY <1>1, <1>2, <1>3, <2>1 DEF ServeInv, Serving, Ready
    <2>2. CASE q # p
      <3>1. q \in sure /\ q \in Apis /\ <<q, "loop">> # <<p, "loop">>
        BY <1>1, <2>2 DEF ServeInv
      <3>2. pc'[<<q, "loop">>] = pc[<<q, "loop">>] /\ answer'[q] = answer[q]
        BY <1>1, <1>2, <2>2, <3>1 DEF ServeInv
      <3> QED
        BY <1>1, <3>1, <3>2 DEF ServeInv, Serving
    <2> QED
      BY <2>1, <2>2
  <1> QED
    BY <1>1, <1>3 DEF ServeInv

LEMMA ServeUsing ==
  ASSUME ServeInv, NEW p \in Apis, Using(p)
  PROVE  ServeInv'
  <1>1. /\ sure' = sure /\ det' = det /\ rec' = rec /\ meta' = meta
        /\ pc' = [pc EXCEPT ![<<p, "loop">>] = "idle"]
    BY DEF Using, Embed, NoFace, Breaks, Return, GoTo, sessions
  <1>2. PICK a : answer' = [answer EXCEPT ![p] = a] /\ (a \in {"served", "no face"} \/ p \notin meta)
    BY DEF Using, Embed, NoFace, Breaks, Return, Detects
  <1>3. ASSUME NEW q \in sure PROVE Serving(q)'
    <2>1. <<q, "loop">> \in Threads /\ q \in Apis /\ Serving(q)
      BY DEF ServeInv, Threads
    <2>2. pc'[<<q, "loop">>] \in {pc[<<q, "loop">>], "idle"}
      BY <1>1, <2>1 DEF ServeInv
    <2>3. answer'[q] \notin {"refused", "broken"}
      BY <1>2, <2>1 DEF ServeInv, Serving
    <2> QED
      BY <1>1, <2>1, <2>2, <2>3 DEF Serving
  <1> QED
    BY <1>1, <1>2, <1>3 DEF ServeInv

LEMMA ServeCrash ==
  ASSUME ServeInv, NEW p \in Procs, Crash(p)
  PROVE  ServeInv'
  <1>1. /\ sure' = sure \ {p} /\ det' = det \ {p} /\ rec' = rec \ {p} /\ meta' = meta \ {p}
        /\ pc' = [t \in Threads |-> IF t[1] = p THEN Start(t) ELSE pc[t]]
        /\ answer' = [q \in Apis |-> IF q = p THEN "no face" ELSE answer[q]]
    BY DEF Crash
  <1>2. ASSUME NEW q \in sure' PROVE Serving(q)'
    <2>1. q \in sure /\ q # p /\ q \in Apis /\ <<q, "loop">> \in Threads
      BY <1>1 DEF ServeInv, Threads
    <2>2. pc'[<<q, "loop">>] = pc[<<q, "loop">>] /\ answer'[q] = answer[q]
      BY <1>1, <2>1 DEF ServeInv
    <2> QED
      BY <1>1, <2>1, <2>2 DEF ServeInv, Serving
  <1> QED
    BY <1>1, <1>2 DEF ServeInv

LEMMA ServeNext ==
  ASSUME ServeInv, [Next]_vars
  PROVE  ServeInv'
  <1>1. CASE UNCHANGED vars
    BY <1>1 DEF vars, sessions, calls, ServeInv, Serving
  <1> QED
    BY <1>1, ServeLoading, ServeAsk, ServeUsing, ServeCrash DEF Next

(* A call that begins with the engine loaded is never refused. *)
THEOREM LoadedAlwaysServes == Spec => []LoadedServes
  <1>1. ServeInv => LoadedServes
    BY DEF ServeInv, Serving, LoadedServes
  <1> QED
    BY <1>1, ServeInit, ServeNext, PTL DEF Spec

-----------------------------------------------------------------------------
(***************************************************************************)
(* Tracker, for any number of boxes, places and epochs.  The greedy        *)
(* matching is a recursive function on the sets of pairs: GreedyDefined    *)
(* proves it well defined and GreedyMatches that it takes no track and no  *)
(* box twice and leaves a pair only for one ahead of it, both by the       *)
(* smallest set that would be an exception.  OneTrackPerBox and            *)
(* ScenesOfOneEpoch are made inductive by what the ids and the hits of the *)
(* tracks can be (Numbered, Young).                                        *)
(***************************************************************************)
(* A set of numbers has a least one, and a set of finite sets a smallest:  *)
(* the forms of induction the proofs below use.                            *)
LEMMA Least ==
    ASSUME NEW T, T \subseteq Nat, T # {}
    PROVE  \E n \in T : \A m \in T : n <= m
<1>1. PICK n \in T : \A m \in T : ~(<<m, n>> \in OpToRel(<, Nat))
  <2>1. IsWellFoundedOn(OpToRel(<, Nat), Nat)
    BY NatLessThanWellFounded DEF OpToRel
  <2>2. QED
    BY <2>1, WFMin DEF OpToRel
<1>2. \A m \in T : ~(m < n)
  BY <1>1 DEF OpToRel
<1>3. QED
  BY <1>2

LEMMA Smallest ==
    ASSUME NEW S, IsFiniteSet(S), NEW F, F \subseteq SUBSET S, F # {}
    PROVE  \E P \in F : \A Q \in F : Q \subseteq P => Q = P
<1>1. IsWellFoundedOn(StrictSubsetOrdering(S), SUBSET S)
  BY FS_StrictSubsetOrderingWellFounded, FS_FiniteSubsetsOfFinite
<1>2. PICK P \in F : \A Q \in F : <<Q, P>> \notin StrictSubsetOrdering(S)
  BY <1>1, WFMin
<1>3. QED
  BY <1>2 DEF StrictSubsetOrdering

-----------------------------------------------------------------------------
(* Pairs of a track and a box, with their overlap.                         *)
Pairs == Int \X Int \X Int

LEMMA AheadOrders ==
    ASSUME NEW p \in Pairs, NEW q \in Pairs, NEW r \in Pairs
    PROVE  /\ Ahead(p, p)
           /\ Ahead(p, q) \/ Ahead(q, p)
           /\ Ahead(p, q) /\ Ahead(q, r) => Ahead(p, r)
BY DEF Pairs, Ahead

LEMMA BestIsAhead ==
    ASSUME NEW P, IsFiniteSet(P), P \subseteq Pairs, P # {}
    PROVE  Best(P) \in P /\ \A q \in P : Ahead(Best(P), q)
<1> DEFINE HasBest(Q) == \E p \in Q : \A q \in Q : Ahead(p, q)
           F == {Q \in SUBSET P : Q # {} /\ ~HasBest(Q)}
<1>1. ASSUME F # {} PROVE FALSE
  <2>1. PICK U \in F : \A Q \in F : Q \subseteq U => Q = U
    <3>1. F \subseteq SUBSET P
      OBVIOUS
    <3> HIDE DEF F
    <3>2. QED
      BY <1>1, <3>1, Smallest
  <2>2. PICK p \in U : TRUE
    OBVIOUS
  <2>3. CASE U \ {p} = {}
    BY <2>1, <2>2, <2>3, AheadOrders
  <2>4. CASE U \ {p} # {}
    <3>1. U \ {p} \notin F
      BY <2>1, <2>2
    <3>2. PICK b \in U \ {p} : \A q \in U \ {p} : Ahead(b, q)
      BY <2>4, <3>1
    <3>3. QED
      BY <2>1, <2>2, <3>2, AheadOrders
  <2>5. QED
    BY <2>3, <2>4
<1>2. P \notin F
  BY <1>1
<1>3. HasBest(P)
  BY <1>2
<1>4. QED
  BY <1>3 DEF Best

-----------------------------------------------------------------------------
Rest(P) == {p \in P : Apart(p, Best(P))}

(* One call of the recursion, given what it returns for the smaller sets.  *)
Taken(g, P) == IF P = {} THEN {} ELSE {Best(P)} \cup g[Rest(P)]

LEMMA RestSmaller ==
    ASSUME NEW P, IsFiniteSet(P), P \subseteq Pairs, P # {}
    PROVE  /\ Rest(P) \subseteq P /\ Best(P) \in P \ Rest(P)
           /\ Cardinality(Rest(P)) < Cardinality(P)
<1>1. Best(P) \in P /\ Rest(P) \subseteq P /\ Best(P) \notin Rest(P)
  BY BestIsAhead DEF Rest, Apart
<1>2. Cardinality(Rest(P)) <= Cardinality(P) /\ Cardinality(Rest(P)) # Cardinality(P)
  BY <1>1, FS_Subset
<1>3. Cardinality(Rest(P)) \in Nat /\ Cardinality(P) \in Nat
  BY <1>1, FS_Subset, FS_CardinalityType
<1>4. QED
  BY <1>1, <1>2, <1>3

(* The recursion of Greedy has a function that satisfies it.               *)
LEMMA GreedyDefined ==
    ASSUME NEW P0, IsFiniteSet(P0), P0 \subseteq Pairs
    PROVE  \E g : g = [P \in SUBSET P0 |-> Taken(g, P)]
<1> DEFINE Upto(n) == {P \in SUBSET P0 : Cardinality(P) <= n}
           Works(n) == \E g : DOMAIN g = SUBSET P0 /\ \A P \in Upto(n) : g[P] = Taken(g, P)
           T == {n \in Nat : ~Works(n)}
<1>0. \A P \in SUBSET P0 : IsFiniteSet(P) /\ Cardinality(P) \in Nat /\ P \subseteq Pairs
                         /\ Cardinality(P) <= Cardinality(P0)
  BY FS_Subset, FS_CardinalityType
<1>1. Works(0)
  <2> DEFINE g == [P \in SUBSET P0 |-> {}]
  <2>1. \A P \in Upto(0) : P = {}
    BY <1>0, FS_EmptySet
  <2>2. \A P \in Upto(0) : g[P] = Taken(g, P)
    BY <2>1 DEF Taken
  <2>3. DOMAIN g = SUBSET P0
    OBVIOUS
  <2> HIDE DEF g
  <2>4. QED
    BY <2>2, <2>3
<1>2. ASSUME NEW n \in Nat, Works(n) PROVE Works(n + 1)
  <2>1. PICK f : DOMAIN f = SUBSET P0 /\ \A P \in Upto(n) : f[P] = Taken(f, P)
    BY <1>2
  <2> DEFINE g == [P \in SUBSET P0 |-> Taken(f, P)]
  <2>2. \A P \in Upto(n) : g[P] = f[P]
    BY <2>1
  <2>3. ASSUME NEW P \in Upto(n + 1) PROVE g[P] = Taken(g, P)
    <3>1. CASE P = {}
      BY <3>1 DEF Taken
    <3>2. CASE P # {}
      <4>1. Rest(P) \in Upto(n)
        BY <1>0, <3>2, RestSmaller
      <4>2. QED
        BY <2>2, <3>2, <4>1 DEF Taken
    <3>3. QED
      BY <3>1, <3>2
  <2>4. DOMAIN g = SUBSET P0
    OBVIOUS
  <2> HIDE DEF g
  <2>5. QED
    BY <2>3, <2>4
<1>3. T = {}
  <2> SUFFICES ASSUME T # {} PROVE FALSE
    OBVIOUS
  <2>1. T \subseteq Nat
    OBVIOUS
  <2> HIDE DEF Works
  <2>2. PICK n \in T : \A m \in T : n <= m
    BY <2>1, Least
  <2>3. n # 0 /\ n \in Nat
    BY <1>1, <2>2
  <2>4. n - 1 \in Nat /\ n - 1 \notin T
    BY <2>2, <2>3
  <2>5. QED
    BY <1>2, <2>2, <2>3, <2>4
<1>4. PICK g : DOMAIN g = SUBSET P0 /\ \A P \in Upto(Cardinality(P0)) : g[P] = Taken(g, P)
  BY <1>0, <1>3
<1>5. \A P \in SUBSET P0 : g[P] = Taken(g, P)
  BY <1>0, <1>4
<1> DEFINE h == [P \in SUBSET P0 |-> Taken(g, P)]
<1>6. \A P \in SUBSET P0 : h[P] = g[P]
  BY <1>5
<1>7. \A P \in SUBSET P0 : Taken(h, P) = Taken(g, P)
  BY <1>0, <1>6, RestSmaller DEF Taken
<1>8. h = [P \in SUBSET P0 |-> Taken(h, P)]
  BY <1>7
<1> HIDE DEF h
<1>9. QED
  BY <1>8

(* What one may rely on of the pairs that are taken: they are of those     *)
(* offered, they share neither track nor box, and a pair that is not taken *)
(* lost its track or its box to one ahead of it.                           *)
Matches(M, P) ==
    /\ M \subseteq P
    /\ \A p, q \in M : p # q => Apart(p, q)
    /\ \A p \in P : \E q \in M : ~Apart(p, q) /\ Ahead(q, p)

LEMMA GreedyMatches ==
    ASSUME NEW P0, IsFiniteSet(P0), P0 \subseteq Pairs
    PROVE  Matches(Greedy(P0), P0)
<1> DEFINE g == CHOOSE g : g = [P \in SUBSET P0 |-> Taken(g, P)]
<1>1. g = [P \in SUBSET P0 |-> Taken(g, P)]
  <2>1. \E f : f = [P \in SUBSET P0 |-> Taken(f, P)]
    BY GreedyDefined
  <2>2. QED
    BY <2>1
<1>2. Greedy(P0) = g[P0]
  BY DEF Greedy, Taken, Rest
<1> HIDE DEF g
<1> DEFINE F == {P \in SUBSET P0 : ~Matches(g[P], P)}
<1>3. ASSUME F # {} PROVE FALSE
  <2>1. PICK U \in F : \A Q \in F : Q \subseteq U => Q = U
    <3>1. F \subseteq SUBSET P0
      OBVIOUS
    <3> HIDE DEF F
    <3>2. QED
      BY <1>3, <3>1, Smallest
  <2>2. U \subseteq P0 /\ ~Matches(g[U], U) /\ g[U] = Taken(g, U) /\ IsFiniteSet(U)
    BY <1>1, <2>1, FS_Subset
  <2>3. U # {}
    BY <2>2 DEF Matches, Taken
  <2>4. /\ Rest(U) \subseteq U /\ Best(U) \in U \ Rest(U)
        /\ \A q \in U : Ahead(Best(U), q)
    BY <2>2, <2>3, RestSmaller, BestIsAhead
  <2>5. Matches(g[Rest(U)], Rest(U))
    BY <2>1, <2>2, <2>4
  <2>6. g[U] = {Best(U)} \cup g[Rest(U)]
    BY <2>2, <2>3 DEF Taken
  <2>7. g[U] \subseteq U
    BY <2>4, <2>5, <2>6 DEF Matches
  <2>8. ASSUME NEW p \in g[U], NEW q \in g[U], p # q PROVE Apart(p, q)
    <3>1. CASE p = Best(U)
      BY <2>5, <2>6, <2>8, <3>1 DEF Matches, Rest, Apart
    <3>2. CASE q = Best(U)
      BY <2>5, <2>6, <2>8, <3>2 DEF Matches, Rest, Apart
    <3>3. CASE p # Best(U) /\ q # Best(U)
      BY <2>5, <2>6, <2>8, <3>3 DEF Matches
    <3>4. QED
      BY <3>1, <3>2, <3>3
  <2>9. ASSUME NEW p \in U PROVE \E q \in g[U] : ~Apart(p, q) /\ Ahead(q, p)
    <3>1. CASE p \in Rest(U)
      BY <2>5, <2>6, <3>1 DEF Matches
    <3>2. CASE p \notin Rest(U)
      BY <2>4, <2>6, <3>2 DEF Rest
    <3>3. QED
      BY <3>1, <3>2
  <2>10. QED
    BY <2>2, <2>7, <2>8, <2>9 DEF Matches
<1>4. QED
  BY <1>2, <1>3

-----------------------------------------------------------------------------
(* The overlap of two boxes is a number, and a frame is finite.            *)
LEMMA IouNumber == \A a, b \in Places : Iou(a, b) \in Int
<1> SUFFICES ASSUME NEW a \in Places, NEW b \in Places PROVE Iou(a, b) \in Int
  OBVIOUS
<1> DEFINE inter == IF Abs(a - b) < Width THEN Width - Abs(a - b) ELSE 0
<1>1. a \in Int /\ b \in Int /\ Width \in Nat \ {0}
  BY PlacesAssumption
<1>2. Abs(a - b) \in Nat
  BY <1>1 DEF Abs
<1>3. inter \in Nat /\ inter <= Width
  BY <1>1, <1>2
<1>4. Iou(a, b) = (100 * inter) \div (2 * Width - inter)
  BY DEF Iou
<1> HIDE DEF inter
<1>5. 2 * Width - inter > 0 /\ 100 * inter \in Int /\ 2 * Width - inter \in Int
  BY <1>1, <1>3
<1>6. QED
  BY <1>4, <1>5

LEMMA FrameBoxes ==
    ASSUME NEW frame \in Frames
    PROVE  /\ IsFiniteSet(DOMAIN frame) /\ DOMAIN frame \subseteq Int
           /\ \A d \in DOMAIN frame : frame[d] \in Places
           /\ \A d, e \in DOMAIN frame : frame[d] = frame[e] => d = e
           /\ frame \in Seq(Places)
<1>1. PICK k \in 0..MaxBoxes : frame \in [1..k -> Places]
  BY DEF Frames
<1>2. k \in Nat /\ IsFiniteSet(1..k)
  BY FS_Interval, LimitsAssumption
<1>3. QED
  BY <1>1, <1>2 DEF Frames

(* The pairs that update considers.                                        *)
Offered(old, frame) == {<<t.id, d, Iou(t.at, frame[d])>> : t \in old, d \in DOMAIN frame}

(* A list of tracks that differ in their ids.                              *)
Listed(old) ==
    /\ IsFiniteSet(old)
    /\ old \subseteq Tracks
    /\ \A t, u \in old : t.id = u.id => t = u

LEMMA OfferedFinite ==
    ASSUME NEW old, Listed(old), NEW frame \in Frames
    PROVE  IsFiniteSet(Offered(old, frame)) /\ Offered(old, frame) \subseteq Pairs
<1> DEFINE S == old \X DOMAIN frame
           f == [x \in S |-> <<x[1].id, x[2], Iou(x[1].at, frame[x[2]])>>]
<1>1. IsFiniteSet(S)
  BY FrameBoxes, FS_Product DEF Listed
<1>2. f \in Surjection(S, Offered(old, frame))
  <2>1. \A x \in S : f[x] \in Offered(old, frame)
    BY DEF Offered
  <2>2. ASSUME NEW t \in old, NEW d \in DOMAIN frame
        PROVE  <<t, d>> \in S /\ f[<<t, d>>] = <<t.id, d, Iou(t.at, frame[d])>>
    OBVIOUS
  <2>3. f \in [S -> Offered(old, frame)]
    BY <2>1
  <2> HIDE DEF f, S
  <2>4. ASSUME NEW v \in Offered(old, frame) PROVE \E x \in S : f[x] = v
    <3>1. PICK t \in old, d \in DOMAIN frame : v = <<t.id, d, Iou(t.at, frame[d])>>
      BY DEF Offered
    <3>2. QED
      BY <2>2, <3>1
  <2>5. QED
    BY <2>3, <2>4 DEF Surjection
<1>3. IsFiniteSet(Offered(old, frame))
  <2> HIDE DEF f, S
  <2>1. QED
    BY <1>1, <1>2, FS_Surjection
<1>4. \A t \in old : t.id \in Int /\ t.at \in Places
  BY LimitsAssumption DEF Listed, Tracks
<1>5. Offered(old, frame) \subseteq Pairs
  <2>1. ASSUME NEW t \in old, NEW d \in DOMAIN frame
        PROVE  <<t.id, d, Iou(t.at, frame[d])>> \in Pairs
    <3>1. d \in Int /\ frame[d] \in Places /\ t.id \in Int /\ t.at \in Places
      BY <1>4, FrameBoxes
    <3>2. Iou(t.at, frame[d]) \in Int
      BY <3>1, IouNumber
    <3>3. QED
      BY <3>1, <3>2 DEF Pairs
  <2>2. QED
    BY <2>1 DEF Offered
<1>6. QED
  BY <1>3, <1>5

(* What the two rounds yield.                                              *)
Assigned(M, old, frame) ==
    /\ \A p \in M : p \in Offered(old, frame) /\ p[3] >= Low
    /\ \A p, q \in M : p # q => Apart(p, q)
    /\ \A p \in Offered(old, frame) :
            /\ p[3] >= Low => \E q \in M : ~Apart(p, q)
            /\ p[3] >= High => \E q \in M : ~Apart(p, q) /\ q[3] >= p[3]

LEMMA MatchedAssigns ==
    ASSUME NEW old, Listed(old), NEW frame \in Frames
    PROVE  Assigned(Matched(old, frame), old, frame)
<1> DEFINE all == Offered(old, frame)
           high == {p \in all : p[3] >= High}
           first == Greedy(high)
           left == {p \in all : \A q \in first : Apart(p, q)}
           low == {p \in left : p[3] >= Low}
           second == Greedy(low)
<1>1. IsFiniteSet(all) /\ all \subseteq Pairs
  BY OfferedFinite
<1>2. IsFiniteSet(high) /\ high \subseteq Pairs /\ IsFiniteSet(low) /\ low \subseteq Pairs
  BY <1>1, FS_Subset
<1>3. Matched(old, frame) = first \cup second
  BY DEF Matched, Offered, Thresholds
<1> HIDE DEF all
<1>4. Matches(first, high)
  <2> HIDE DEF high
  <2>1. QED
    BY <1>2, GreedyMatches
<1> HIDE DEF first
<1>5. Matches(second, low)
  <2> HIDE DEF low
  <2>1. QED
    BY <1>2, GreedyMatches
<1> HIDE DEF second
<1>6. \A p \in first \cup second : p \in all /\ p[3] >= Low
  BY <1>1, <1>4, <1>5 DEF Matches, High, Low, Pairs
<1>7. \A p, q \in first \cup second : p # q => Apart(p, q)
  BY <1>4, <1>5 DEF Matches, Apart
<1>8. ASSUME NEW p \in all, p[3] >= Low PROVE \E q \in first \cup second : ~Apart(p, q)
  BY <1>5, <1>8 DEF Matches
<1>9. ASSUME NEW p \in all, p[3] >= High
      PROVE  \E q \in first \cup second : ~Apart(p, q) /\ q[3] >= p[3]
  <2>1. PICK q \in first : ~Apart(p, q) /\ Ahead(q, p)
    BY <1>4, <1>9 DEF Matches
  <2>2. q \in Pairs /\ p \in Pairs
    BY <1>1, <1>4 DEF Matches
  <2>3. q[3] >= p[3]
    BY <2>1, <2>2 DEF Ahead, Pairs
  <2>4. QED
    BY <2>1, <2>3
<1>10. QED
  BY <1>3, <1>6, <1>7, <1>8, <1>9 DEF Assigned, all

-----------------------------------------------------------------------------
(***************************************************************************)
(* One frame, for the tracks old, the next id n and the pairs M that the   *)
(* two rounds assigned.                                                    *)
(***************************************************************************)
ReadyTracks(old, n) == Listed(old) /\ n \in Int /\ \A t \in old : t.id < n

(* A pair is of the one track with its id.                                 *)
LEMMA PairTrack ==
    ASSUME NEW old, NEW n, ReadyTracks(old, n), NEW frame \in Frames,
           NEW M, Assigned(M, old, frame), NEW p \in M
    PROVE  /\ p[2] \in DOMAIN frame /\ p[2] \in Int
           /\ \E t \in old : /\ p = <<t.id, p[2], Iou(t.at, frame[p[2]])>>
                             /\ p[1] = t.id /\ p[3] = Iou(t.at, frame[p[2]])
                             /\ \A u \in old : u.id = p[1] => u = t
<1>1. PICK t \in old, d \in DOMAIN frame : p = <<t.id, d, Iou(t.at, frame[d])>>
  BY DEF Assigned, Offered
<1>2. p[1] = t.id /\ p[2] = d /\ p[3] = Iou(t.at, frame[d])
  BY <1>1
<1>3. QED
  BY <1>1, <1>2, FrameBoxes DEF ReadyTracks, Listed

(* The new ids lie between the next id and the next id after the frame,    *)
(* and no two boxes get the same.                                          *)
LEMMA NewIds ==
    ASSUME NEW n \in Int, NEW frame \in Frames, NEW M
    PROVE  /\ Cardinality(New(M, frame)) \in Nat
           /\ \A d \in New(M, frame) :
                /\ NewId(n, M, frame, d) \in Int
                /\ n <= NewId(n, M, frame, d)
                /\ NewId(n, M, frame, d) < n + Cardinality(New(M, frame))
           /\ \A d, e \in New(M, frame) :
                NewId(n, M, frame, d) = NewId(n, M, frame, e) => d = e
<1> DEFINE N == New(M, frame)
           Below(d) == {e \in N : e < d}
<1>1. N \subseteq DOMAIN frame /\ N \subseteq Int /\ IsFiniteSet(N)
  BY FrameBoxes, FS_Subset DEF New
<1>2. \A d : NewId(n, M, frame, d) = n + Cardinality(Below(d))
  BY DEF NewId
<1> HIDE DEF N
<1>3. Cardinality(N) \in Nat
  BY <1>1, FS_CardinalityType
<1>4. \A d \in N : /\ IsFiniteSet(Below(d)) /\ Cardinality(Below(d)) \in Nat
                   /\ Cardinality(Below(d)) < Cardinality(N)
  <2> SUFFICES ASSUME NEW d \in N
               PROVE  /\ IsFiniteSet(Below(d)) /\ Cardinality(Below(d)) \in Nat
                      /\ Cardinality(Below(d)) < Cardinality(N)
    OBVIOUS
  <2>1. Below(d) \subseteq N /\ Below(d) # N
    BY <1>1
  <2> HIDE DEF Below
  <2>2. IsFiniteSet(Below(d)) /\ Cardinality(Below(d)) \in Nat
    BY <1>1, <2>1, FS_Subset, FS_CardinalityType
  <2>3. Cardinality(Below(d)) <= Cardinality(N) /\ Cardinality(Below(d)) # Cardinality(N)
    BY <1>1, <2>1, FS_Subset
  <2>4. QED
    BY <1>3, <2>2, <2>3
<1>5. ASSUME NEW d \in N, NEW e \in N, d < e PROVE Cardinality(Below(d)) < Cardinality(Below(e))
  <2>1. Below(d) \subseteq Below(e) /\ Below(d) # Below(e)
    BY <1>1, <1>5
  <2>2. IsFiniteSet(Below(e)) /\ Cardinality(Below(e)) \in Nat /\ Cardinality(Below(d)) \in Nat
    BY <1>4
  <2> HIDE DEF Below
  <2>3. Cardinality(Below(d)) <= Cardinality(Below(e))
        /\ Cardinality(Below(d)) # Cardinality(Below(e))
    BY <2>1, <2>2, FS_Subset
  <2>4. QED
    BY <2>2, <2>3
<1> HIDE DEF Below
<1>6. \A d, e \in N : d # e => Cardinality(Below(d)) # Cardinality(Below(e))
  <2> SUFFICES ASSUME NEW d \in N, NEW e \in N, d # e
               PROVE  Cardinality(Below(d)) # Cardinality(Below(e))
    OBVIOUS
  <2>1. d < e \/ e < d
    BY <1>1
  <2>2. QED
    BY <1>4, <1>5, <2>1
<1>7. QED
  BY <1>2, <1>3, <1>4, <1>6 DEF N

(* What a detection is given that took the box of a track.                 *)
FromTrack(m, p, t, d, frame) ==
    /\ p[2] = d /\ p[1] = t.id /\ p[3] = Iou(t.at, frame[d])
    /\ m = [id |-> t.id, hits |-> Capped(t.hits + 1), iou |-> p[3], dx |-> frame[d] - t.at]

LEMMA MarkOf ==
    ASSUME NEW old, NEW n, ReadyTracks(old, n), NEW frame \in Frames,
           NEW M, Assigned(M, old, frame), NEW d \in DOMAIN frame, d \notin New(M, frame)
    PROVE  \E p \in M, t \in old : FromTrack(Marks(old, n, M, frame)[d], p, t, d, frame)
<1>1. PICK p \in M : p[2] = d
  BY DEF New
<1>2. p = CHOOSE q \in M : q[2] = d
  <2>1. \A q \in M : q[2] = d => q = p
    BY <1>1 DEF Assigned, Apart
  <2>2. QED
    BY <1>1, <2>1
<1>3. PICK t \in old : /\ p[1] = t.id /\ p[3] = Iou(t.at, frame[d])
                       /\ \A u \in old : u.id = p[1] => u = t
  BY <1>1, PairTrack
<1>4. t = CHOOSE u \in old : u.id = p[1]
  BY <1>3
<1>5. Marks(old, n, M, frame)[d] =
          [id |-> t.id, hits |-> Capped(t.hits + 1),
           iou |-> Iou(t.at, frame[d]), dx |-> frame[d] - t.at]
  BY <1>2, <1>4 DEF Marks
<1>6. QED
  BY <1>1, <1>3, <1>5 DEF FromTrack

(* What becomes of a track.                                                *)
LEMMA UpdatedOf ==
    ASSUME NEW old, NEW n, ReadyTracks(old, n), NEW frame \in Frames,
           NEW M, Assigned(M, old, frame), NEW t \in old
    PROVE  \/ \E p \in M : /\ p[1] = t.id /\ p[2] \in DOMAIN frame
                          /\ Updated(t, M, frame) =
                                [id |-> t.id, at |-> frame[p[2]], misses |-> 0,
                                 hits |-> Capped(t.hits + 1)]
           \/ /\ \A p \in M : p[1] # t.id
              /\ Updated(t, M, frame) =
                    [id |-> t.id, at |-> t.at, misses |-> t.misses + 1, hits |-> t.hits]
<1>1. t = [id |-> t.id, at |-> t.at, misses |-> t.misses, hits |-> t.hits]
  BY DEF ReadyTracks, Listed, Tracks
<1>2. CASE \E p \in M : p[1] = t.id
  <2>1. PICK p \in M : p[1] = t.id
    BY <1>2
  <2>2. p = CHOOSE q \in M : q[1] = t.id
    <3>1. \A q \in M : q[1] = t.id => q = p
      BY <2>1 DEF Assigned, Apart
    <3>2. QED
      BY <2>1, <3>1
  <2>3. Updated(t, M, frame) = [t EXCEPT !.at = frame[p[2]], !.misses = 0, !.hits = Capped(t.hits + 1)]
    BY <1>2, <2>2 DEF Updated
  <2>4. QED
    BY <1>1, <2>1, <2>3, PairTrack
<1>3. CASE ~\E p \in M : p[1] = t.id
  BY <1>1, <1>3 DEF Updated
<1>4. QED
  BY <1>2, <1>3

(* The tracks after the frame: ids that differ and lie below the next id,  *)
(* boxes that differ for those seen in it.                                 *)
After(old, n, M, frame) == Kept(old, M, frame) \cup Appended(n, M, frame)

(* A track after the frame is one kept unseen, one seen, or a new one.     *)
LEMMA AfterOf ==
    ASSUME NEW old, NEW n, ReadyTracks(old, n), NEW frame \in Frames,
           NEW M, Assigned(M, old, frame), NEW u \in After(old, n, M, frame)
    PROVE  \/ /\ u.misses # 0
              /\ \E t \in old : /\ \A p \in M : p[1] # t.id
                              /\ t.misses + 1 <= MaxMisses
                              /\ u = [id |-> t.id, at |-> t.at, misses |-> t.misses + 1, hits |-> t.hits]
           \/ \E p \in M, t \in old :
                /\ p[1] = t.id /\ p[2] \in DOMAIN frame
                /\ u = [id |-> t.id, at |-> frame[p[2]], misses |-> 0, hits |-> Capped(t.hits + 1)]
           \/ \E d \in New(M, frame) :
                u = [id |-> NewId(n, M, frame, d), at |-> frame[d], misses |-> 0, hits |-> 1]
<1>1. CASE u \in Appended(n, M, frame)
  BY <1>1 DEF Appended
<1>2. CASE u \in Kept(old, M, frame)
  <2>1. PICK t \in old : u = Updated(t, M, frame) /\ u.misses <= MaxMisses
    BY <1>2 DEF Kept
  <2>2. t.misses \in Nat
    BY LimitsAssumption DEF ReadyTracks, Listed, Tracks
  <2>3. CASE \E p \in M : p[1] = t.id
    BY <2>1, <2>3, UpdatedOf
  <2>4. CASE ~\E p \in M : p[1] = t.id
    <3>1. u = [id |-> t.id, at |-> t.at, misses |-> t.misses + 1, hits |-> t.hits]
      BY <2>1, <2>4, UpdatedOf
    <3>2. QED
      BY <2>1, <2>2, <2>4, <3>1
  <2>5. QED
    BY <2>3, <2>4
<1>3. QED
  BY <1>1, <1>2 DEF After

LEMMA AfterFinite ==
    ASSUME NEW old, NEW n, ReadyTracks(old, n), NEW frame \in Frames, NEW M
    PROVE  IsFiniteSet(After(old, n, M, frame))
<1> DEFINE f == [t \in old |-> Updated(t, M, frame)]
           R == {Updated(t, M, frame) : t \in old}
           N == New(M, frame)
           g == [d \in N |-> [id |-> NewId(n, M, frame, d), at |-> frame[d],
                              misses |-> 0, hits |-> 1]]
<1>1. f \in Surjection(old, R)
  BY DEF Surjection
<1>2. g \in Surjection(N, Appended(n, M, frame))
  BY DEF Surjection, Appended
<1>3. IsFiniteSet(old) /\ IsFiniteSet(N)
  BY FrameBoxes, FS_Subset DEF ReadyTracks, Listed, New
<1>4. Kept(old, M, frame) \subseteq R
  BY DEF Kept
<1> HIDE DEF f, g, R, N
<1>5. IsFiniteSet(R) /\ IsFiniteSet(Appended(n, M, frame))
  BY <1>1, <1>2, <1>3, FS_Surjection
<1>6. IsFiniteSet(Kept(old, M, frame))
  BY <1>4, <1>5, FS_Subset
<1>7. QED
  BY <1>5, <1>6, FS_Union DEF After

(* The ids of the tracks after the frame.                                  *)
LEMMA AfterIds ==
    ASSUME NEW old, NEW n, ReadyTracks(old, n), NEW frame \in Frames,
           NEW M, Assigned(M, old, frame),
           NEW t \in After(old, n, M, frame), NEW u \in After(old, n, M, frame), t.id = u.id
    PROVE  t = u
<1> DEFINE IsKept(v, o) == /\ o \in old /\ v.id = o.id /\ v = Updated(o, M, frame)
           IsNew(v, d) == /\ d \in New(M, frame) /\ v.id = NewId(n, M, frame, d)
                          /\ v = [id |-> NewId(n, M, frame, d), at |-> frame[d],
                                  misses |-> 0, hits |-> 1]
<1>1. ASSUME NEW v \in After(old, n, M, frame)
      PROVE  (\E o \in old : IsKept(v, o)) \/ (\E d \in New(M, frame) : IsNew(v, d))
  <2>1. CASE v \in Appended(n, M, frame)
    BY <2>1 DEF Appended
  <2>2. CASE v \in Kept(old, M, frame)
    <3>1. PICK o \in old : v = Updated(o, M, frame)
      BY <2>2 DEF Kept
    <3>2. v.id = o.id
      BY <3>1, UpdatedOf
    <3>3. QED
      BY <3>1, <3>2
  <2>3. QED
    BY <2>1, <2>2 DEF After
<1>2. \A o \in old : \A d \in New(M, frame) : o.id # NewId(n, M, frame, d)
  <2> SUFFICES ASSUME NEW o \in old, NEW d \in New(M, frame)
               PROVE  o.id # NewId(n, M, frame, d)
    OBVIOUS
  <2>1. o.id \in Int /\ o.id < n /\ n \in Int
    BY LimitsAssumption DEF ReadyTracks, Listed, Tracks
  <2>2. QED
    BY <2>1, NewIds
<1>3. CASE \E o \in old : IsKept(t, o)
  <2>1. PICK o \in old : IsKept(t, o)
    BY <1>3
  <2>2. PICK o2 \in old : IsKept(u, o2)
    BY <1>1, <1>2, <2>1
  <2>3. o = o2
    BY <2>1, <2>2 DEF ReadyTracks, Listed
  <2>4. QED
    BY <2>1, <2>2, <2>3
<1>4. CASE \E d \in New(M, frame) : IsNew(t, d)
  <2>1. PICK d \in New(M, frame) : IsNew(t, d)
    BY <1>4
  <2>2. PICK e \in New(M, frame) : IsNew(u, e)
    <3>1. ASSUME NEW o \in old, IsKept(u, o) PROVE FALSE
      <4>1. o.id = NewId(n, M, frame, d)
        BY <2>1, <3>1
      <4>2. QED
        BY <1>2, <4>1
    <3>2. QED
      BY <1>1, <3>1
  <2>3. d = e
    BY <2>1, <2>2, NewIds DEF ReadyTracks
  <2>4. QED
    BY <2>1, <2>2, <2>3
<1>5. QED
  BY <1>1, <1>3, <1>4

(* Two tracks seen in the frame are at different boxes.                    *)
LEMMA AfterPlaces ==
    ASSUME NEW old, NEW n, ReadyTracks(old, n), NEW frame \in Frames,
           NEW M, Assigned(M, old, frame),
           NEW t \in After(old, n, M, frame), NEW u \in After(old, n, M, frame),
           t.misses = 0, u.misses = 0, t.at = u.at
    PROVE  t = u
<1> DEFINE Takes(v, d) == \/ \E p \in M : p[1] = v.id /\ p[2] = d
                          \/ d \in New(M, frame) /\ v.id = NewId(n, M, frame, d)
<1>1. ASSUME NEW v \in After(old, n, M, frame), v.misses = 0
      PROVE  \E d \in DOMAIN frame : v.at = frame[d] /\ Takes(v, d)
  <2>1. CASE \E d \in New(M, frame) :
                v = [id |-> NewId(n, M, frame, d), at |-> frame[d], misses |-> 0, hits |-> 1]
    BY <2>1 DEF New
  <2>2. CASE \E p \in M, o \in old :
                /\ p[1] = o.id /\ p[2] \in DOMAIN frame
                /\ v = [id |-> o.id, at |-> frame[p[2]], misses |-> 0, hits |-> Capped(o.hits + 1)]
    BY <2>2
  <2>3. QED
    BY <1>1, <2>1, <2>2, AfterOf
<1>2. PICK d \in DOMAIN frame : t.at = frame[d] /\ Takes(t, d)
  BY <1>1
<1>3. PICK e \in DOMAIN frame : u.at = frame[e] /\ Takes(u, e)
  BY <1>1
<1>4. d = e
  BY <1>2, <1>3, FrameBoxes
<1>5. t.id = u.id
  BY <1>2, <1>3, <1>4 DEF Assigned, Apart, New
<1>6. QED
  BY <1>5, AfterIds

(* Every mark names a track that is at its box.                            *)
LEMMA AfterMarks ==
    ASSUME NEW old, NEW n, ReadyTracks(old, n), NEW frame \in Frames,
           NEW M, Assigned(M, old, frame), NEW d \in DOMAIN frame
    PROVE  \E t \in After(old, n, M, frame) :
                t.id = Marks(old, n, M, frame)[d].id /\ t.at = frame[d] /\ t.misses = 0
<1>1. CASE d \in New(M, frame)
  <2>1. [id |-> NewId(n, M, frame, d), at |-> frame[d], misses |-> 0, hits |-> 1]
            \in After(old, n, M, frame)
    BY <1>1 DEF After, Appended
  <2>2. Marks(old, n, M, frame)[d].id = NewId(n, M, frame, d)
    BY <1>1 DEF Marks
  <2>3. QED
    BY <2>1, <2>2
<1>2. CASE d \notin New(M, frame)
  <2>1. PICK p \in M, t \in old : FromTrack(Marks(old, n, M, frame)[d], p, t, d, frame)
    BY <1>2, MarkOf
  <2>2. p[2] = d /\ p[1] = t.id /\ Marks(old, n, M, frame)[d].id = t.id
    BY <2>1 DEF FromTrack
  <2>3. Updated(t, M, frame) = [id |-> t.id, at |-> frame[d], misses |-> 0, hits |-> Capped(t.hits + 1)]
    BY <2>2, UpdatedOf DEF Assigned, Apart
  <2>4. Updated(t, M, frame) \in Kept(old, M, frame)
    BY <2>3, LimitsAssumption DEF Kept
  <2>5. QED
    BY <2>2, <2>3, <2>4 DEF After
<1>3. QED
  BY <1>1, <1>2

(* No two detections of a frame get the same id.                           *)
LEMMA MarksDiffer ==
    ASSUME NEW old, NEW n, ReadyTracks(old, n), NEW frame \in Frames,
           NEW M, Assigned(M, old, frame), NEW d \in DOMAIN frame, NEW e \in DOMAIN frame,
           Marks(old, n, M, frame)[d].id = Marks(old, n, M, frame)[e].id
    PROVE  d = e
<1>1. PICK t \in After(old, n, M, frame) :
            t.id = Marks(old, n, M, frame)[d].id /\ t.at = frame[d]
  BY AfterMarks
<1>2. PICK u \in After(old, n, M, frame) :
            u.id = Marks(old, n, M, frame)[e].id /\ u.at = frame[e]
  BY AfterMarks
<1>3. t = u
  BY <1>1, <1>2, AfterIds
<1>4. QED
  BY <1>1, <1>2, <1>3, FrameBoxes

-----------------------------------------------------------------------------
(***************************************************************************)
(* The invariant.  Beside OneTrackPerBox it says that ids given lie below  *)
(* the next one (Numbered), and that no track of the epoch's tracker was   *)
(* seen in more frames than the epoch has had (Young).                     *)
(***************************************************************************)
Numbered ==
    /\ IsFiniteSet(tracks) /\ \A t \in tracks : t.id < next
    /\ key <= epoch

Young == key = epoch => \A t \in tracks : t.hits <= age

IInv == TrackerTypeOK /\ Numbered /\ Young /\ OneTrackPerBox /\ ScenesOfOneEpoch

LEMMA LiveReady == IInv => ReadyTracks(Live, NextId) /\ NextId \in 1..(MaxId + 1)
<1> SUFFICES ASSUME IInv PROVE ReadyTracks(Live, NextId) /\ NextId \in 1..(MaxId + 1)
  OBVIOUS
<1>1. IsFiniteSet({})
  BY FS_EmptySet
<1>2. CASE SameEpoch
  BY <1>2, LimitsAssumption
     DEF IInv, TrackerTypeOK, Numbered, OneTrackPerBox, ReadyTracks, Listed, Live, NextId
<1>3. CASE ~SameEpoch
  BY <1>1, <1>3, LimitsAssumption DEF ReadyTracks, Listed, Live, NextId
<1>4. QED
  BY <1>2, <1>3

LEMMA InitInv == TrackerInit => IInv
<1>1. IsFiniteSet({})
  BY FS_EmptySet
<1>2. QED
  BY <1>1, LimitsAssumption
     DEF TrackerInit, IInv, TrackerTypeOK, Numbered, Young, OneTrackPerBox, ScenesOfOneEpoch, NoEpoch

LEMMA CutKeeps == IInv /\ Cut => IInv'
BY LimitsAssumption
   DEF Cut, IInv, TrackerTypeOK, Numbered, Young, OneTrackPerBox, ScenesOfOneEpoch, NoEpoch

LEMMA CappedNumber == \A k \in Nat : Capped(k) \in 0..StopHits /\ Capped(k) <= k
                                  /\ (k >= 1 => Capped(k) >= 1)
BY LimitsAssumption DEF Capped

(* What a frame does, with the pairs it assigns.                           *)
LEMMA FrameStep ==
    ASSUME IInv, NEW frame \in Frames, Frame(frame)
    PROVE  \E M : /\ Assigned(M, Live, frame)
                 /\ NextId + Cardinality(New(M, frame)) <= MaxId + 1
                 /\ key' = epoch /\ epoch' = epoch /\ boxes' = frame
                 /\ next' = NextId + Cardinality(New(M, frame))
                 /\ tracks' = After(Live, NextId, M, frame)
                 /\ marks' = Marks(Live, NextId, M, frame)
                 /\ scenes' = Scenes(frame, marks')
                 /\ age' = Capped(age + 1)
<1>1. Assigned(Matched(Live, frame), Live, frame)
  BY LiveReady, MatchedAssigns DEF ReadyTracks
<1>2. QED
  BY <1>1 DEF Frame, After

LEMMA FrameTyped ==
    ASSUME IInv, NEW frame \in Frames, Frame(frame)
    PROVE  TrackerTypeOK' /\ Numbered' /\ Young'
<1>1. PICK M :
        /\ Assigned(M, Live, frame)
        /\ NextId + Cardinality(New(M, frame)) <= MaxId + 1
        /\ key' = epoch /\ epoch' = epoch /\ boxes' = frame
        /\ next' = NextId + Cardinality(New(M, frame))
        /\ tracks' = After(Live, NextId, M, frame)
        /\ marks' = Marks(Live, NextId, M, frame)
        /\ scenes' = Scenes(frame, marks')
        /\ age' = Capped(age + 1)
  BY FrameStep
<1>2. ReadyTracks(Live, NextId) /\ NextId \in 1..(MaxId + 1) /\ Cardinality(New(M, frame)) \in Nat
  BY LiveReady, NewIds
<1>3. age \in Nat /\ age' \in 0..StopHits /\ age' >= 1
      /\ (age' < age + 1 => age' = StopHits)
  BY <1>1, CappedNumber, LimitsAssumption DEF IInv, TrackerTypeOK, Capped
<1>4. \A t \in Live : /\ t \in Tracks /\ t.id < NextId /\ t.hits <= age
  BY DEF IInv, TrackerTypeOK, Numbered, Young, Live, NextId, SameEpoch
<1>5. next' \in 1..(MaxId + 1) /\ NextId <= next'
  BY <1>1, <1>2, LimitsAssumption
<1>6. ASSUME NEW u \in tracks'
      PROVE  u \in Tracks /\ u.id < next' /\ u.hits <= age'
  <2>1. CASE \E t \in Live : /\ t.misses + 1 <= MaxMisses
                             /\ u = [id |-> t.id, at |-> t.at, misses |-> t.misses + 1, hits |-> t.hits]
    BY <1>2, <1>3, <1>4, <1>5, <2>1, LimitsAssumption DEF Tracks
  <2>2. CASE \E p \in M, t \in Live :
                /\ p[1] = t.id /\ p[2] \in DOMAIN frame
                /\ u = [id |-> t.id, at |-> frame[p[2]], misses |-> 0, hits |-> Capped(t.hits + 1)]
    <3>1. PICK t \in Live, b \in Places :
                u = [id |-> t.id, at |-> b, misses |-> 0, hits |-> Capped(t.hits + 1)]
      BY <2>2, FrameBoxes
    <3>2. Capped(t.hits + 1) \in 1..StopHits /\ Capped(t.hits + 1) <= age'
      BY <1>1, <1>3, <1>4, LimitsAssumption DEF Tracks, Capped
    <3>3. QED
      BY <1>2, <1>4, <1>5, <3>1, <3>2, LimitsAssumption DEF Tracks
  <2>3. CASE \E d \in New(M, frame) :
                u = [id |-> NewId(NextId, M, frame, d), at |-> frame[d], misses |-> 0, hits |-> 1]
    <3>1. PICK d \in New(M, frame) :
                u = [id |-> NewId(NextId, M, frame, d), at |-> frame[d], misses |-> 0, hits |-> 1]
      BY <2>3
    <3>2. frame[d] \in Places
      BY FrameBoxes DEF New
    <3>3. NewId(NextId, M, frame, d) \in 1..MaxId /\ NewId(NextId, M, frame, d) < next'
      BY <1>1, <1>2, <1>5, NewIds, LimitsAssumption
    <3>4. QED
      BY <1>3, <3>1, <3>2, <3>3, LimitsAssumption DEF Tracks
  <2>4. QED
    BY <1>1, <1>2, <1>6, <2>1, <2>2, <2>3, AfterOf
<1>7. IsFiniteSet(tracks')
  BY <1>1, <1>2, AfterFinite
<1>8. scenes' \subseteq {"crowding", "stopped_vehicle", "wrong_way"}
  BY <1>1 DEF Scenes
<1>9. boxes' \in Seq(Places) /\ DOMAIN marks' = DOMAIN boxes'
  BY <1>1, FrameBoxes DEF Marks
<1>10. TrackerTypeOK'
  BY <1>1, <1>3, <1>5, <1>6, <1>8, <1>9 DEF TrackerTypeOK, IInv
<1>11. Numbered'
  BY <1>1, <1>6, <1>7 DEF Numbered, IInv, TrackerTypeOK
<1>12. Young'
  BY <1>6 DEF Young
<1>13. QED
  BY <1>10, <1>11, <1>12

LEMMA FrameOneTrack ==
    ASSUME IInv, NEW frame \in Frames, Frame(frame)
    PROVE  OneTrackPerBox'
<1>1. PICK M :
        /\ Assigned(M, Live, frame) /\ boxes' = frame
        /\ tracks' = After(Live, NextId, M, frame)
        /\ marks' = Marks(Live, NextId, M, frame)
  BY FrameStep
<1>2. ReadyTracks(Live, NextId)
  BY LiveReady
<1>3. DOMAIN marks' = DOMAIN frame
  BY <1>1 DEF Marks
<1>4. \A d, e \in DOMAIN marks' : marks'[d].id = marks'[e].id => d = e
  BY <1>1, <1>2, <1>3, MarksDiffer
<1>5. \A t, u \in tracks' : t.id = u.id => t = u
  BY <1>1, <1>2, AfterIds
<1>6. \A t, u \in tracks' : t.at = u.at /\ t.misses = 0 /\ u.misses = 0 => t = u
  BY <1>1, <1>2, AfterPlaces
<1>7. \A d \in DOMAIN marks' : \E t \in tracks' :
            t.id = marks'[d].id /\ t.at = boxes'[d] /\ t.misses = 0
  BY <1>1, <1>2, <1>3, AfterMarks
<1>8. QED
  BY <1>4, <1>5, <1>6, <1>7 DEF OneTrackPerBox

(* A detection that carries on a track of the epoch.                       *)
LEMMA Carried ==
    ASSUME IInv, NEW frame \in Frames, Frame(frame), NEW d \in DOMAIN frame
    PROVE  \/ marks'[d].hits = 1 /\ marks'[d].dx = 0
           \/ /\ marks'[d].hits <= Capped(age + 1) /\ marks'[d].hits \in Nat
              /\ age >= 1
<1>1. PICK M : Assigned(M, Live, frame) /\ marks' = Marks(Live, NextId, M, frame)
  BY FrameStep
<1>2. CASE d \in New(M, frame)
  BY <1>1, <1>2 DEF Marks
<1>3. CASE d \notin New(M, frame)
  <2>1. PICK p \in M, t \in Live : FromTrack(marks'[d], p, t, d, frame)
    BY <1>1, <1>3, LiveReady, MarkOf
  <2>2. t.hits \in 1..StopHits /\ t.hits <= age /\ age \in Nat
    BY LimitsAssumption DEF IInv, TrackerTypeOK, Tracks, Young, Live, SameEpoch
  <2>3. marks'[d].hits = Capped(t.hits + 1)
    BY <2>1 DEF FromTrack
  <2>4. QED
    BY <2>2, <2>3, LimitsAssumption DEF Capped
<1>4. QED
  BY <1>2, <1>3

LEMMA FrameScenes ==
    ASSUME IInv, NEW frame \in Frames, Frame(frame)
    PROVE  ScenesOfOneEpoch'
<1>1. scenes' = Scenes(frame, marks') /\ age' = Capped(age + 1)
  BY FrameStep
<1>2. age \in Nat
  BY LimitsAssumption DEF IInv, TrackerTypeOK
<1>3. ASSUME "stopped_vehicle" \in scenes' PROVE age' >= StopHits
  <2>1. PICK d \in DOMAIN frame : marks'[d].hits >= StopHits
    BY <1>1, <1>3 DEF Scenes, Stopped, Vehicles
  <2>2. QED
    BY <1>1, <1>2, <2>1, Carried, LimitsAssumption DEF Capped
<1>4. ASSUME "wrong_way" \in scenes' PROVE age' >= 2
  <2>1. PICK d \in DOMAIN frame : Abs(marks'[d].dx) >= Against
    BY <1>1, <1>4 DEF Scenes, WrongWay, Vehicles
  <2>2. marks'[d].dx # 0
    BY <2>1, LimitsAssumption DEF Abs
  <2>3. age >= 1
    BY <2>2, Carried
  <2>4. QED
    BY <1>1, <1>2, <2>3, LimitsAssumption DEF Capped
<1>5. QED
  BY <1>3, <1>4 DEF ScenesOfOneEpoch

LEMMA Inductive == IInv /\ [TrackerNext]_trackerVars => IInv'
<1> SUFFICES ASSUME IInv, [TrackerNext]_trackerVars PROVE IInv'
  OBVIOUS
<1>1. CASE Cut
  BY <1>1, CutKeeps
<1>2. ASSUME NEW frame \in Frames, Frame(frame) PROVE IInv'
  BY <1>2, FrameTyped, FrameOneTrack, FrameScenes DEF IInv
<1>3. CASE UNCHANGED trackerVars
  BY <1>3 DEF trackerVars, IInv, TrackerTypeOK, Numbered, Young, OneTrackPerBox, ScenesOfOneEpoch
<1>4. QED
  BY <1>1, <1>2, <1>3 DEF TrackerNext

LEMMA Invariance == TrackerSpec => []IInv
BY InitInv, Inductive, PTL DEF TrackerSpec

(* Every reachable state of the tracker is well typed.                     *)
THEOREM TrackerTypeCorrect == TrackerSpec => []TrackerTypeOK
BY Invariance, PTL DEF IInv

(* However many boxes a frame has and wherever they are, two of them never *)
(* get one id, no two tracks share an id or a box of the last frame, and   *)
(* each box is where its track was last seen.                              *)
THEOREM OneTrackPerBoxHolds == TrackerSpec => []OneTrackPerBox
BY Invariance, PTL DEF IInv

(* A vehicle is reported stopped, or against the flow, from what this      *)
(* epoch of the stream showed alone.                                       *)
THEOREM ScenesOfOneEpochHolds == TrackerSpec => []ScenesOfOneEpoch
BY Invariance, PTL DEF IInv

-----------------------------------------------------------------------------
(* The pair of a track and a detection was considered, and what came of it *)
(* is in the marks.                                                        *)
Outcome(M, frame) ==
    /\ DOMAIN marks' = DOMAIN frame /\ boxes' = frame
    /\ \A q \in M : /\ q[2] \in DOMAIN frame /\ q[3] >= Low /\ q[3] \in Int
                    /\ marks'[q[2]].id = q[1] /\ marks'[q[2]].iou = q[3]
    /\ \A t \in Live : \A d \in DOMAIN frame :
            /\ Iou(t.at, frame[d]) >= Low => \E q \in M : q[1] = t.id \/ q[2] = d
            /\ Iou(t.at, frame[d]) >= High =>
                    \E q \in M : (q[1] = t.id \/ q[2] = d) /\ q[3] >= Iou(t.at, frame[d])

LEMMA FrameAssigns ==
    ASSUME IInv, NEW frame \in Frames, Frame(frame)
    PROVE  \E M : Outcome(M, frame)
<1>1. PICK M : /\ Assigned(M, Live, frame) /\ boxes' = frame
               /\ marks' = Marks(Live, NextId, M, frame)
  BY FrameStep
<1>2. ReadyTracks(Live, NextId)
  BY LiveReady
<1>3. DOMAIN marks' = DOMAIN frame
  BY <1>1 DEF Marks
<1>4. ASSUME NEW q \in M
      PROVE  /\ q[2] \in DOMAIN frame /\ q[3] >= Low /\ q[3] \in Int
             /\ marks'[q[2]].id = q[1] /\ marks'[q[2]].iou = q[3]
  <2>1. q[2] \in DOMAIN frame /\ q[3] >= Low /\ q \in Pairs
    BY <1>1, <1>2, PairTrack, OfferedFinite DEF Assigned, ReadyTracks
  <2>2. q[2] \notin New(M, frame)
    BY DEF New
  <2>3. PICK p \in M, t \in Live : FromTrack(marks'[q[2]], p, t, q[2], frame)
    BY <1>1, <1>2, <2>1, <2>2, MarkOf
  <2>4. p = q
    BY <1>1, <2>3 DEF Assigned, Apart, FromTrack
  <2>5. QED
    BY <2>1, <2>3, <2>4 DEF FromTrack, Pairs
<1>5. ASSUME NEW t \in Live, NEW d \in DOMAIN frame
      PROVE  /\ Iou(t.at, frame[d]) >= Low => \E q \in M : q[1] = t.id \/ q[2] = d
             /\ Iou(t.at, frame[d]) >= High =>
                    \E q \in M : (q[1] = t.id \/ q[2] = d) /\ q[3] >= Iou(t.at, frame[d])
  <2> DEFINE p == <<t.id, d, Iou(t.at, frame[d])>>
  <2>1. p \in Offered(Live, frame)
    BY DEF Offered
  <2>2. p[1] = t.id /\ p[2] = d /\ p[3] = Iou(t.at, frame[d])
    OBVIOUS
  <2> HIDE DEF p
  <2>3. QED
    BY <1>1, <2>1, <2>2 DEF Assigned, Apart
<1>6. QED
  BY <1>1, <1>3, <1>4, <1>5 DEF Outcome

(* A step that shows boxes, or ages the epoch, is a frame.                 *)
LEMMA OnlyFramesAge ==
    ASSUME [TrackerNext]_trackerVars, age' # 0
    PROVE  UNCHANGED trackerVars \/ \E frame \in Frames : Frame(frame)
BY DEF TrackerNext, Cut

(* Every track that overlaps a box with a new id was given to another box  *)
(* of the frame.                                                           *)
THEOREM NewOnlyIfAloneHolds == TrackerSpec => NewOnlyIfAlone
<1>1. IInv /\ [TrackerNext]_trackerVars =>
        [boxes' # <<>> /\ age' # 0 =>
            \A d \in DOMAIN marks' : marks'[d].iou = 0 =>
                \A t \in Live : Iou(t.at, boxes'[d]) >= Low =>
                    \E e \in DOMAIN marks' : e # d /\ marks'[e].id = t.id]_trackerVars
  <2> SUFFICES ASSUME IInv, NEW frame \in Frames, Frame(frame),
                      NEW d \in DOMAIN marks', marks'[d].iou = 0,
                      NEW t \in Live, Iou(t.at, boxes'[d]) >= Low
               PROVE  \E e \in DOMAIN marks' : e # d /\ marks'[e].id = t.id
    BY OnlyFramesAge
  <2>1. PICK M : Outcome(M, frame)
    BY FrameAssigns
  <2>2. PICK q \in M : q[1] = t.id \/ q[2] = d
    BY <2>1 DEF Outcome
  <2>3. q[2] # d
    BY <2>1 DEF Outcome, Low
  <2>4. QED
    BY <2>1, <2>2, <2>3 DEF Outcome
<1>2. QED
  BY <1>1, Invariance, PTL DEF TrackerSpec, NewOnlyIfAlone

(* Of a track and a box that overlap by the high threshold, one is matched *)
(* at least as well.                                                       *)
THEOREM NoBetterPairHolds == TrackerSpec => NoBetterPair
<1>1. IInv /\ [TrackerNext]_trackerVars =>
        [age' # 0 =>
            \A d \in DOMAIN marks' : \A t \in Live :
                LET iou == Iou(t.at, boxes'[d])
                IN  iou >= High =>
                        \/ marks'[d].iou >= iou
                        \/ \E e \in DOMAIN marks' : marks'[e].id = t.id /\ marks'[e].iou >= iou]_trackerVars
  <2> SUFFICES ASSUME IInv, NEW frame \in Frames, Frame(frame),
                      NEW d \in DOMAIN marks', NEW t \in Live, Iou(t.at, boxes'[d]) >= High
               PROVE  \/ marks'[d].iou >= Iou(t.at, boxes'[d])
                      \/ \E e \in DOMAIN marks' :
                            marks'[e].id = t.id /\ marks'[e].iou >= Iou(t.at, boxes'[d])
    BY OnlyFramesAge
  <2>1. PICK M : Outcome(M, frame)
    BY FrameAssigns
  <2>2. PICK q \in M : (q[1] = t.id \/ q[2] = d) /\ q[3] >= Iou(t.at, frame[d])
    BY <2>1 DEF Outcome
  <2>3. QED
    BY <2>1, <2>2 DEF Outcome
<1>2. QED
  BY <1>1, Invariance, PTL DEF TrackerSpec, NoBetterPair
===============================================================================
