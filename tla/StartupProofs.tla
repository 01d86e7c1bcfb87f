-------------------------- MODULE StartupProofs --------------------------
(***************************************************************************)
(* Startup of a deployment with one backend that is brought up in order:   *)
(* TargetsOnce, MinorHasNoFace and PhotosKept, for every number of workers *)
(* and whatever is killed.  None is inductive: each seed decides by what   *)
(* it read before.  The invariant adds that until a backend is healthy no  *)
(* worker starts (Ordered), that what a seed under way has read still      *)
(* decides as the database would (Looked), and what is there once one seed *)
(* has been committed (AllThere).                                          *)
(***************************************************************************)
EXTENDS Startup, FiniteSetTheorems, WellFoundedInduction, TLAPS

(* One backend container, as docker-compose.yml has it.                    *)
OneBackend == \A p, q \in Backends : p = q

Columns == db = [tables |-> db.tables, roles |-> db.roles, watch |-> db.watch,
                 face |-> db.face, blocked |-> db.blocked, rows |-> db.rows]

(* The database, the processes and the upload under way are well formed.   *)
Formed ==
    /\ Columns
    /\ DOMAIN db.watch = Tags /\ DOMAIN db.face = Tags
    /\ DOMAIN pc = Procs /\ DOMAIN seen = Procs

(* The seed of a process has been committed.                               *)
Up(p) == pc[p] \in {"lifespan", "collapse", "collapsing", "index", "serve"}
Filled == healthy \/ \E p \in Procs : Up(p)

(* Until a backend has come to serve, no worker starts.                    *)
Ordered == ~healthy => /\ \A p \in Procs \ Backends : pc[p] = "down"
                       /\ \A p \in Backends : pc[p] # "serve"

There ==
    /\ \A t \in Tags : db.watch[t] = 1
    /\ \A s \in Slugs : db.roles[s] = "current"
    /\ \A t \in FaceTags : db.face[t] # "none"
    /\ db.face[Minor] = "none" /\ db.blocked

AllThere == Filled => There

(* No target twice, and no face of a child that is not there.              *)
Once ==
    /\ \A t \in Tags : db.watch[t] \in {0, 1}
    /\ db.watch[Minor] = 0 => db.face[Minor] = "none"

Decides(rows) ==
    /\ \A t \in Tags : rows.watch[t] = db.watch[t]
    /\ \A t \in FaceTags : rows.face[t] = "none" <=> db.face[t] = "none"

Looked == \A p \in Procs : pc[p] = "seeding" => Decides(seen[p])

(* An upload has begun after the deployment was up, and is not the child's. *)
Uploading == enrolling # NoEnrol => healthy /\ enrolling.tag \in Tags \ {Minor}

IInv == Formed /\ (mode # "rolling" =>
            Ordered /\ AllThere /\ Once /\ Looked /\ Uploading)

(* The invariant of a deployment in order.                                 *)
Started == Formed /\ mode # "rolling" /\ Ordered /\ AllThere /\ Once /\ Looked /\ Uploading

LEMMA Names == Minor \in Tags /\ FaceTags \subseteq Tags /\ Minor \notin FaceTags
BY StartupAssumption

LEMMA InitFormed == Init => Formed
<1> SUFFICES ASSUME Init PROVE Formed
  OBVIOUS
<1>1. CASE db = Empty
  BY <1>1 DEF Init, Empty, Formed, Columns
<1>2. ASSUME NEW r \in Earlier, NEW ks \in Leftovers, db = Seeded(r, ks) PROVE Formed
  BY <1>2 DEF Init, Seeded, Formed, Columns
<1>3. QED
  BY <1>1, <1>2 DEF Init

LEMMA InitStarted == Init => IInv
<1> SUFFICES ASSUME Init PROVE IInv
  OBVIOUS
<1>1. Once
  <2>1. CASE db = Empty
    BY <2>1, Names DEF Empty, Once
  <2>2. ASSUME NEW r \in Earlier, NEW ks \in Leftovers, db = Seeded(r, ks) PROVE Once
    BY <2>2, Names DEF Seeded, Once
  <2>3. QED
    BY <2>1, <2>2 DEF Init
<1>2. ~healthy /\ (\A p \in Procs : pc[p] = "down") /\ enrolling = NoEnrol
  BY DEF Init
<1>3. Ordered /\ AllThere /\ Looked /\ Uploading
  BY <1>2 DEF Ordered, AllThere, Filled, Up, Looked, Uploading, Procs
<1>4. QED
  BY <1>1, <1>3, InitFormed DEF IInv

(***************************************************************************)
(* Formed is kept by every step.                                           *)
(***************************************************************************)
LEMMA FormedStep == Formed /\ [Next]_vars => Formed'
<1> SUFFICES ASSUME Formed, [Next]_vars PROVE Formed'
  OBVIOUS
<1> USE DEF Formed, Columns
<1>1. ASSUME NEW p \in Procs, Migrate(p) PROVE Formed'
  BY <1>1 DEF Migrate, CreateIndex, Goes
<1>2. ASSUME NEW p \in Procs, Begin(p) PROVE Formed'
  BY <1>2 DEF Begin, Goes
<1>3. ASSUME NEW p \in Procs, SeedRead(p) PROVE Formed'
  BY <1>3 DEF SeedRead, Reads
<1>4. ASSUME NEW p \in Procs, SeedCommit(p) PROVE Formed'
  <2>1. pc' = [pc EXCEPT ![p] = pc'[p]] /\ seen' = [seen EXCEPT ![p] = Nothing]
    BY <1>4 DEF SeedCommit, Goes
  <2>2. CASE SeedClash(p)
    BY <1>4, <2>1, <2>2 DEF SeedCommit
  <2>3. CASE ~SeedClash(p)
    BY <1>4, <2>1, <2>3 DEF SeedCommit, FaceAfter
  <2>4. QED
    BY <2>2, <2>3
<1>5. ASSUME NEW p \in Procs, BootRead(p) PROVE Formed'
  BY <1>5 DEF BootRead, Reads
<1>6. ASSUME NEW p \in Procs, BootCommit(p) PROVE Formed'
  BY <1>6 DEF BootCommit, Goes
<1>7. ASSUME NEW p \in Procs, Serve(p) PROVE Formed'
  BY <1>7 DEF Serve, CreateIndex, Goes
<1>8. ASSUME NEW p \in Procs, Killed(p) PROVE Formed'
  BY <1>8 DEF Killed, Goes
<1>9. ASSUME NEW k \in Keys, Insert(k) \/ Bump(k) \/ Acknowledge(k) PROVE Formed'
  BY <1>9 DEF Insert, Bump, Acknowledge
<1>10. ASSUME NEW t \in Tags, EnrolRead(t) PROVE Formed'
  BY <1>10 DEF EnrolRead
<1>11. CASE EnrolWrite
  BY <1>11 DEF EnrolWrite
<1>12. CASE UNCHANGED vars
  BY <1>12 DEF vars
<1>13. QED
  BY <1>1, <1>2, <1>3, <1>4, <1>5, <1>6, <1>7, <1>8, <1>9, <1>10, <1>11, <1>12
     DEF Next, StartStep

(***************************************************************************)
(* What is at work while nothing is healthy is the one backend.            *)
(***************************************************************************)
LEMMA Alone ==
    ASSUME Started, OneBackend, ~healthy, NEW p \in Procs, NEW q \in Procs,
           pc[p] # "down", pc[q] # "down"
    PROVE  p = q
BY DEF Started, Ordered, OneBackend

(* While one seed is at work and another one committed, all is there.      *)
LEMMA SeedFindsAll ==
    ASSUME Started, OneBackend, NEW p \in Procs, pc[p] = "seeding", Filled
    PROVE  There
BY Alone DEF Started, AllThere

(* A step that leaves the four columns and the upload alone keeps what is  *)
(* said of them, if the process that moves does not claim a seed.          *)
LEMMA ColumnsKept ==
    ASSUME Started, mode' = mode, Formed', UNCHANGED <<healthy, enrolling>>,
           \A t \in Tags : db'.watch[t] = db.watch[t] /\ db'.face[t] = db.face[t],
           db'.blocked = db.blocked,
           \A s \in Slugs : db.roles[s] = "current" => db'.roles[s] = "current",
           NEW p \in Procs, \A q \in Procs \ {p} : pc'[q] = pc[q] /\ seen'[q] = seen[q],
           Up(p)' => Up(p), pc'[p] # "serve",
           pc'[p] = "down" \/ pc[p] # "down" \/ p \in Backends \/ healthy,
           pc'[p] = "seeding" => Decides(seen'[p])
    PROVE  Started'
<1>1. Ordered'
  BY DEF Started, Ordered, Procs
<1>2. Filled' => Filled
  BY DEF Filled, Up
<1>3. AllThere'
  BY <1>2, Names DEF Started, AllThere, There
<1>4. Once' /\ Uploading'
  BY Names DEF Started, Once, Uploading
<1>5. ASSUME NEW q \in Procs, pc'[q] = "seeding" PROVE Decides(seen[q])'
  <2>1. Decides(seen'[q])
    BY <1>5 DEF Started, Looked
  <2>2. QED
    BY <2>1, Names DEF Decides
<1>6. QED
  BY <1>1, <1>3, <1>4, <1>5 DEF Started, Looked

(* A seed that is committed leaves everything there.                       *)
LEMMA SeedFills ==
    ASSUME Started, NEW p \in Procs, SeedCommit(p), ~SeedClash(p)
    PROVE  There'
<1>1. Decides(seen[p])
  BY DEF Started, Looked, SeedCommit
<1>2. db' = [db EXCEPT !.tables = Tables, !.roles = BuiltinRoles,
              !.watch = [t \in Tags |-> IF t \in MissingTags(p) THEN db.watch[t] + 1 ELSE db.watch[t]],
              !.face = FaceAfter(p), !.blocked = TRUE]
  BY DEF SeedCommit
<1>3. /\ db'.roles = BuiltinRoles /\ db'.face = FaceAfter(p) /\ db'.blocked = TRUE
      /\ db'.watch = [t \in Tags |-> IF t \in MissingTags(p) THEN db.watch[t] + 1 ELSE db.watch[t]]
  BY <1>2 DEF Started, Formed, Columns
<1>4. \A t \in Tags : db'.watch[t] = 1
  BY <1>1, <1>3 DEF Started, Once, MissingTags, Decides
<1>5. \A t \in FaceTags : db'.face[t] # "none"
  BY <1>1, <1>3, Names DEF FaceAfter, NeedsCanned, Decides
<1>6. db'.face[Minor] = "none"
  BY <1>1, <1>3, Names DEF Started, Once, FaceAfter, NeedsCanned, MissingTags, Decides
<1>7. QED
  BY <1>3, <1>4, <1>5, <1>6 DEF There, BuiltinRoles

(* ... and takes no photo away.                                            *)
LEMMA SeedKeepsPhotos ==
    ASSUME Started, NEW p \in Procs, SeedCommit(p), NEW t \in Tags
    PROVE  PhotoStays(t)
<1>1. CASE SeedClash(p)
  BY <1>1 DEF SeedCommit, PhotoStays
<1>2. CASE ~SeedClash(p)
  <2>1. Decides(seen[p])
    BY DEF Started, Looked, SeedCommit
  <2>2. db'.face = FaceAfter(p)
    BY <1>2 DEF SeedCommit, Started, Formed, Columns
  <2>3. QED
    BY <2>1, <2>2, Names DEF FaceAfter, NeedsCanned, Decides, PhotoStays
<1>3. QED
  BY <1>1, <1>2

LEMMA SeedCommitStep ==
    ASSUME Started, OneBackend, Formed', NEW p \in Procs, SeedCommit(p)
    PROVE  Started'
<1>1. /\ pc[p] = "seeding" /\ UNCHANGED <<mode, healthy, enrolling>>
      /\ \A q \in Procs \ {p} : pc'[q] = pc[q] /\ seen'[q] = seen[q]
  BY DEF SeedCommit, Goes, Started, Formed
<1>2. CASE SeedClash(p)
  <2>1. pc'[p] = "down" /\ db' = db
    BY <1>2 DEF SeedCommit, Goes, Started, Formed
  <2>2. QED
    BY <1>1, <2>1, ColumnsKept DEF Up
<1>3. CASE ~SeedClash(p)
  <2>1. There'
    BY <1>3, SeedFills
  <2>2. pc'[p] \in {"lifespan", "collapse"}
    BY <1>3 DEF SeedCommit, Goes, Started, Formed
  <2>3. Ordered' /\ AllThere' /\ Once' /\ Uploading'
    BY <1>1, <2>1, <2>2, Names DEF Started, Ordered, AllThere, Once, There, Uploading, Procs
  <2>4. ASSUME NEW q \in Procs, pc'[q] = "seeding" PROVE Decides(seen[q])'
    <3>1. q # p /\ pc[q] = "seeding" /\ seen'[q] = seen[q]
      BY <1>1, <2>2, <2>4
    <3>2. healthy
      BY <1>1, <3>1, Alone
    <3>3. There /\ Decides(seen[q])
      BY <3>1, <3>2 DEF Started, AllThere, Filled, Looked
    <3>4. QED
      BY <2>1, <3>1, <3>3, Names DEF There, Decides
  <2>5. QED
    BY <1>1, <2>3, <2>4 DEF Started, Looked
<1>4. QED
  BY <1>2, <1>3

(* Every other step of a process leaves the columns as they are.           *)
LEMMA ProcessStep ==
    ASSUME Started, OneBackend, Formed', NEW p \in Procs, StartStep(p) \/ Killed(p)
    PROVE  Started'
<1>1. CASE Migrate(p)
  <2>1. p \in Backends /\ ~Up(p)' /\ pc'[p] \notin {"seeding", "serve"}
    BY <1>1 DEF Migrate, CreateIndex, Goes, Started, Formed, Up
  <2>2. UNCHANGED <<db, mode, healthy, enrolling>>
    BY <1>1 DEF Migrate
  <2>3. \A q \in Procs \ {p} : pc'[q] = pc[q] /\ seen'[q] = seen[q]
    BY <1>1 DEF Migrate, CreateIndex, Goes, Started, Formed
  <2>4. QED
    BY <2>1, <2>2, <2>3, ColumnsKept
<1>2. CASE Begin(p)
  <2>1. pc'[p] = "seed"
    BY <1>2 DEF Begin, Goes, Started, Formed
  <2>2. UNCHANGED <<db, mode, healthy, enrolling>> /\ (p \in Backends \/ healthy)
    BY <1>2 DEF Begin, Started, Procs
  <2>3. \A q \in Procs \ {p} : pc'[q] = pc[q] /\ seen'[q] = seen[q]
    BY <1>2 DEF Begin, Goes, Started, Formed
  <2>4. ~Up(p)' /\ pc'[p] \notin {"seeding", "serve"}
    BY <2>1 DEF Up
  <2>5. QED
    BY <2>2, <2>3, <2>4, ColumnsKept
<1>3. CASE SeedRead(p)
  <2>1. pc[p] = "seed" /\ pc'[p] = "seeding" /\ seen'[p] = [db EXCEPT !.rows = <<>>]
    BY <1>3 DEF SeedRead, Reads, Started, Formed
  <2>2. seen'[p].watch = db.watch /\ seen'[p].face = db.face
    BY <2>1 DEF Started, Formed, Columns
  <2>3. UNCHANGED <<db, mode, healthy, enrolling>>
    BY <1>3 DEF SeedRead
  <2>4. \A q \in Procs \ {p} : pc'[q] = pc[q] /\ seen'[q] = seen[q]
    BY <1>3 DEF SeedRead, Reads, Started, Formed
  <2>5. ~Up(p)' /\ Decides(seen'[p])
    BY <2>1, <2>2 DEF Up, Decides
  <2>6. QED
    BY <2>1, <2>3, <2>4, <2>5, ColumnsKept
<1>4. CASE SeedCommit(p)
  BY <1>4, SeedCommitStep
<1>5. CASE BootRead(p)
  <2>1. Up(p) /\ pc[p] # "down" /\ pc'[p] = "collapsing"
    BY <1>5 DEF BootRead, Reads, Started, Formed, Up
  <2>2. UNCHANGED <<db, mode, healthy, enrolling>>
    BY <1>5 DEF BootRead
  <2>3. \A q \in Procs \ {p} : pc'[q] = pc[q] /\ seen'[q] = seen[q]
    BY <1>5 DEF BootRead, Reads, Started, Formed
  <2>4. QED
    BY <2>1, <2>2, <2>3, ColumnsKept
<1>6. CASE BootCommit(p)
  <2>1. Up(p) /\ pc[p] # "down" /\ pc'[p] \in {"down", "index"}
    BY <1>6 DEF BootCommit, Goes, Started, Formed, Up
  <2>2. /\ db'.watch = db.watch /\ db'.face = db.face /\ db'.blocked = db.blocked
        /\ db'.roles \in {db.roles, BuiltinRoles}
    BY <1>6 DEF BootCommit, Started, Formed, Columns
  <2>3. \A s \in Slugs : db.roles[s] = "current" => db'.roles[s] = "current"
    BY <2>2 DEF BuiltinRoles
  <2>4. UNCHANGED <<mode, healthy, enrolling>>
    BY <1>6 DEF BootCommit
  <2>5. \A q \in Procs \ {p} : pc'[q] = pc[q] /\ seen'[q] = seen[q]
    BY <1>6 DEF BootCommit, Goes, Started, Formed
  <2>6. QED
    BY <2>1, <2>2, <2>3, <2>4, <2>5, ColumnsKept
<1>7. CASE Serve(p)
  <2>1. Up(p) /\ pc[p] # "down" /\ pc'[p] \in {"down", "serve"}
    BY <1>7 DEF Serve, CreateIndex, Goes, Started, Formed, Up
  <2>2. UNCHANGED <<db, mode, enrolling>> /\ (healthy => healthy')
    BY <1>7 DEF Serve
  <2>3. \A q \in Procs \ {p} : pc'[q] = pc[q] /\ seen'[q] = seen[q]
    BY <1>7 DEF Serve, CreateIndex, Goes, Started, Formed
  <2>4. There /\ There'
    BY <2>1, <2>2 DEF Started, AllThere, Filled, There
  <2>5. healthy' \/ ~(p \in Backends /\ pc'[p] = "serve")
    BY <1>7 DEF Serve
  <2>6. Ordered'
    BY <2>1, <2>2, <2>3, <2>5 DEF Started, Ordered, Procs
  <2>7. Looked'
    BY <2>1, <2>2, <2>3 DEF Started, Looked, Decides
  <2>8. QED
    BY <2>2, <2>4, <2>6, <2>7 DEF Started, AllThere, Once, Uploading
<1>8. CASE Killed(p)
  <2>1. pc[p] # "down" /\ pc'[p] = "down"
    BY <1>8 DEF Killed, Goes, Started, Formed
  <2>2. UNCHANGED <<db, mode, healthy, enrolling>>
    BY <1>8 DEF Killed
  <2>3. \A q \in Procs \ {p} : pc'[q] = pc[q] /\ seen'[q] = seen[q]
    BY <1>8 DEF Killed, Goes, Started, Formed
  <2>4. ~Up(p)'
    BY <2>1 DEF Up
  <2>5. QED
    BY <2>1, <2>2, <2>3, <2>4, ColumnsKept
<1>9. QED
  BY <1>1, <1>2, <1>3, <1>4, <1>5, <1>6, <1>7, <1>8 DEF StartStep

(* An upload begins when a backend serves, so the child's is refused.      *)
LEMMA UploadBegins ==
    ASSUME Started, Formed', NEW t \in Tags, EnrolRead(t)
    PROVE  Started'
<1>1. \E p \in Backends : pc[p] = "serve"
  BY DEF EnrolRead, Operating, Started
<1>2. There
  BY <1>1 DEF Started, AllThere, Filled, Up, Procs
<1>3. t # Minor /\ enrolling' = [tag |-> t, blocked |-> db.blocked]
  BY <1>2 DEF EnrolRead, There
<1>4. healthy /\ UNCHANGED <<db, mode, healthy, pc, seen>>
  BY <1>1 DEF EnrolRead, Started, Ordered
<1>5. QED
  BY <1>3, <1>4 DEF Started, Ordered, AllThere, Filled, Up, There, Once, Looked, Decides, Uploading

(* A deployment in order that serves an upload has been healthy.           *)
LEMMA UploadEnds ==
    ASSUME Started, Formed', EnrolWrite
    PROVE  Started' /\ \A t \in Tags : PhotoStays(t)
<1>1. /\ healthy /\ enrolling.tag \in Tags \ {Minor}
      /\ enrolling' = NoEnrol /\ UNCHANGED <<mode, healthy, pc, seen>>
  BY DEF EnrolWrite, Started, Uploading
<1>2. /\ db'.watch = db.watch /\ db'.roles = db.roles /\ db'.blocked = db.blocked
      /\ db'.face = [db.face EXCEPT ![enrolling.tag] = "photo"]
  BY <1>1 DEF EnrolWrite, Started, Formed, Columns
<1>3. There
  BY <1>1 DEF Started, AllThere, Filled
<1>4. /\ db'.face[enrolling.tag] = "photo"
      /\ \A t \in Tags \ {enrolling.tag} : db'.face[t] = db.face[t]
  BY <1>1, <1>2 DEF Started, Formed
<1>5. There'
  BY <1>1, <1>2, <1>3, <1>4, Names DEF There
<1>6. Looked'
  BY <1>1, <1>2, <1>3, <1>4, Names DEF Started, Looked, Decides, There
<1>7. Ordered' /\ AllThere' /\ Once' /\ Uploading'
  BY <1>1, <1>5, Names DEF Started, Ordered, AllThere, There, Once, Uploading
<1>8. \A t \in Tags : PhotoStays(t)
  BY <1>4 DEF PhotoStays
<1>9. QED
  BY <1>1, <1>6, <1>7, <1>8 DEF Started

(* Ingest and acknowledgement move alerts only.                            *)
LEMMA AlertsOnly ==
    ASSUME Started, Formed', NEW k \in Keys, Insert(k) \/ Bump(k) \/ Acknowledge(k)
    PROVE  Started' /\ \A t \in Tags : PhotoStays(t)
<1>1. /\ db'.watch = db.watch /\ db'.roles = db.roles /\ db'.blocked = db.blocked
      /\ db'.face = db.face
  BY DEF Insert, Bump, Acknowledge, Started, Formed, Columns
<1>2. UNCHANGED <<mode, healthy, pc, seen, enrolling>>
  BY DEF Insert, Bump, Acknowledge
<1>3. Started'
  BY <1>1, <1>2 DEF Started, Ordered, AllThere, Filled, Up, There, Once, Looked, Decides, Uploading
<1>4. QED
  BY <1>1, <1>3 DEF PhotoStays

LEMMA StartedStep == Started /\ OneBackend /\ [Next]_vars => Started'
<1> SUFFICES ASSUME Started, OneBackend, [Next]_vars PROVE Started'
  OBVIOUS
<1>1. Formed'
  BY FormedStep DEF Started
<1>2. CASE UNCHANGED vars
  BY <1>2 DEF vars, Started, Formed, Columns, Ordered, AllThere, Filled, Up, There, Once,
              Looked, Decides, Uploading
<1>3. QED
  BY <1>1, <1>2, ProcessStep, AlertsOnly, UploadBegins, UploadEnds DEF Next

LEMMA ModeStays == [Next]_vars => mode' = mode
BY DEF Next, StartStep, Migrate, Begin, SeedRead, SeedCommit, BootRead, BootCommit, Serve, Killed,
       Insert, Bump, Acknowledge, EnrolRead, EnrolWrite, vars

LEMMA Inductive == OneBackend /\ IInv /\ [Next]_vars => IInv'
BY StartedStep, FormedStep, ModeStays DEF IInv, Started

LEMMA Invariance ==
    ASSUME OneBackend
    PROVE  Spec => []IInv
<1>1. OneBackend
  OBVIOUS
<1>2. IInv /\ [Next]_vars => IInv'
  BY <1>1, Inductive
<1>3. QED
  BY <1>2, InitStarted, PTL DEF Spec

(* However often a start is killed or repeated, and however many workers   *)
(* seed beside the one backend, no target is inserted twice, and all of    *)
(* them and the built-in roles are there once it has been healthy.         *)
THEOREM TargetsOnceHolds ==
    ASSUME OneBackend
    PROVE  Spec => []TargetsOnce
<1>1. IInv => TargetsOnce
  BY DEF IInv, AllThere, Filled, There, Once, TargetsOnce, TargetsAreOnce
<1>2. QED
  BY <1>1, Invariance, PTL

(* Nobody matches the missing child by a face once a deployment in order   *)
(* has been healthy.                                                       *)
THEOREM MinorHasNoFaceHolds ==
    ASSUME OneBackend
    PROVE  Spec => []MinorHasNoFace
<1>1. IInv => MinorHasNoFace
  BY DEF IInv, AllThere, Filled, There, MinorHasNoFace, MinorIsFaceless
<1>2. QED
  BY <1>1, Invariance, PTL

(* No start replaces the face of an uploaded photo by the canned one.      *)
THEOREM PhotosKeptHolds ==
    ASSUME OneBackend
    PROVE  Spec => PhotosKept
<1>1. IInv /\ [Next]_vars => [mode # "rolling" => \A t \in Tags : PhotoStays(t)]_vars
  <2> SUFFICES ASSUME IInv, [Next]_vars, mode # "rolling", NEW t \in Tags
               PROVE  PhotoStays(t) \/ UNCHANGED vars
    OBVIOUS
  <2>1. Started /\ Formed'
    BY FormedStep DEF IInv, Started
  <2>2. CASE UNCHANGED db
    BY <2>2 DEF PhotoStays
  <2>3. ASSUME NEW p \in Procs, SeedCommit(p) PROVE PhotoStays(t)
    BY <2>1, <2>3, SeedKeepsPhotos
  <2>4. ASSUME NEW p \in Procs, BootCommit(p) PROVE PhotoStays(t)
    <3>1. db'.face = db.face
      BY <2>1, <2>4 DEF BootCommit, Started, Formed, Columns
    <3>2. QED
      BY <3>1 DEF PhotoStays
  <2>5. ASSUME NEW k \in Keys, Insert(k) \/ Bump(k) \/ Acknowledge(k) PROVE PhotoStays(t)
    BY <2>1, <2>5, AlertsOnly
  <2>6. CASE EnrolWrite
    BY <2>1, <2>6, UploadEnds
  <2>7. QED
    BY <2>2, <2>3, <2>4, <2>5, <2>6
       DEF Next, StartStep, Migrate, Begin, SeedRead, BootRead, Serve, Killed, EnrolRead, vars
<1>2. QED
  BY <1>1, Invariance, PTL DEF Spec, PhotosKept

-----------------------------------------------------------------------------
(* A set of numbers has a least one, and a set of finite sets a smallest.  *)
LEMMA Least ==
    ASSUME NEW T, T \subseteq Nat, T # {}
    PROVE  \E n \in T : \A m \in T : n <= m
<1>1. PICK n \in T : \A m \in T : ~(<<m, n>> \in OpToRel(<, Nat))
  <2>1. IsWellFoundedOn(OpToRel(<, Nat), Nat)
    BY NatLessThanWellFounded DEF OpToRel
  <2>2. QED
    BY <2>1, WFMin DEF OpToRel
<1>2. \A m \in T : ~(m < n)
  BY <1>1 DEF OpToRel
<1>3. QED
  BY <1>2

LEMMA Smallest ==
    ASSUME NEW S, IsFiniteSet(S), NEW F, F \subseteq SUBSET S, F # {}
    PROVE  \E P \in F : \A Q \in F : Q \subseteq P => Q = P
<1>1. IsWellFoundedOn(StrictSubsetOrdering(S), SUBSET S)
  BY FS_StrictSubsetOrderingWellFounded, FS_FiniteSubsetsOfFinite
<1>2. PICK P \in F : \A Q \in F : <<Q, P>> \notin StrictSubsetOrdering(S)
  BY <1>1, WFMin
<1>3. QED
  BY <1>2 DEF StrictSubsetOrdering

-----------------------------------------------------------------------------
(***************************************************************************)
(* The sum Hits, which folds over the subsets of a set of rows.            *)
(***************************************************************************)
Picked(s) == CHOOSE x \in s : TRUE

(* One call of the recursion, given what it returns for the smaller sets.  *)
Added(rows, g, s) == IF s = {} THEN 0 ELSE rows[Picked(s)].hits + g[s \ {Picked(s)}]

LEMMA HitsUnfolds ==
    ASSUME NEW rows, NEW S
    PROVE  Hits(rows, S) = (CHOOSE g : g = [s \in SUBSET S |-> Added(rows, g, s)])[S]
BY DEF Hits, MapThenSumSet, MapThenFoldSet, Added, Picked

(* The recursion has a function that satisfies it.                         *)
LEMMA HitsDefined ==
    ASSUME NEW rows, NEW S, IsFiniteSet(S)
    PROVE  \E g : g = [s \in SUBSET S |-> Added(rows, g, s)]
<1> DEFINE Upto(n) == {s \in SUBSET S : Cardinality(s) <= n}
           Works(n) == \E g : DOMAIN g = SUBSET S /\ \A s \in Upto(n) : g[s] = Added(rows, g, s)
           T == {n \in Nat : ~Works(n)}
<1>1. \A s \in SUBSET S : /\ IsFiniteSet(s) /\ Cardinality(s) \in Nat
                          /\ Cardinality(s) <= Cardinality(S)
  BY FS_Subset, FS_CardinalityType
<1>2. ASSUME NEW s \in SUBSET S, s # {}
      PROVE  Picked(s) \in s /\ Cardinality(s \ {Picked(s)}) = Cardinality(s) - 1
  BY <1>1, <1>2, FS_RemoveElement DEF Picked
<1>3. Works(0)
  <2> DEFINE g == [s \in SUBSET S |-> 0]
  <2>1. \A s \in Upto(0) : s = {}
    BY <1>1, FS_EmptySet
  <2>2. \A s \in Upto(0) : g[s] = Added(rows, g, s)
    BY <2>1 DEF Added
  <2>3. DOMAIN g = SUBSET S
    OBVIOUS
  <2> HIDE DEF g
  <2>4. QED
    BY <2>2, <2>3
<1>4. ASSUME NEW n \in Nat, Works(n) PROVE Works(n + 1)
  <2>1. PICK f : DOMAIN f = SUBSET S /\ \A s \in Upto(n) : f[s] = Added(rows, f, s)
    BY <1>4
  <2> DEFINE g == [s \in SUBSET S |-> Added(rows, f, s)]
  <2>2. \A s \in Upto(n) : g[s] = f[s]
    BY <2>1
  <2>3. ASSUME NEW s \in Upto(n + 1) PROVE g[s] = Added(rows, g, s)
    <3>1. CASE s = {}
      BY <3>1 DEF Added
    <3>2. CASE s # {}
      <4>1. s \ {Picked(s)} \in Upto(n)
        BY <1>1, <1>2, <3>2
      <4>2. QED
        BY <2>2, <3>2, <4>1 DEF Added
    <3>3. QED
      BY <3>1, <3>2
  <2>4. DOMAIN g = SUBSET S
    OBVIOUS
  <2> HIDE DEF g
  <2>5. QED
    BY <2>3, <2>4
<1>5. T = {}
  <2> SUFFICES ASSUME T # {} PROVE FALSE
    OBVIOUS
  <2>1. T \subseteq Nat
    OBVIOUS
  <2> HIDE DEF Works
  <2>2. PICK n \in T : \A m \in T : n <= m
    BY <2>1, Least
  <2>3. n # 0 /\ n \in Nat
    BY <1>3, <2>2
  <2>4. n - 1 \in Nat /\ n - 1 \notin T
    BY <2>2, <2>3
  <2>5. QED
    BY <1>4, <2>2, <2>3, <2>4
<1>6. PICK g : DOMAIN g = SUBSET S /\ \A s \in Upto(Cardinality(S)) : g[s] = Added(rows, g, s)
  BY <1>1, <1>5
<1>7. \A s \in SUBSET S : g[s] = Added(rows, g, s)
  BY <1>1, <1>6
<1> DEFINE h == [s \in SUBSET S |-> Added(rows, g, s)]
<1>8. \A s \in SUBSET S : h[s] = g[s]
  BY <1>7
<1>9. \A s \in SUBSET S : Added(rows, h, s) = Added(rows, g, s)
  BY <1>2, <1>8 DEF Added
<1>10. h = [s \in SUBSET S |-> Added(rows, h, s)]
  BY <1>9
<1> HIDE DEF h
<1>11. QED
  BY <1>10

(* It is Hits on every subset.                                             *)
LEMMA HitsFunction ==
    ASSUME NEW rows, NEW S, IsFiniteSet(S)
    PROVE  \E g : \A s \in SUBSET S : g[s] = Added(rows, g, s) /\ Hits(rows, s) = g[s]
<1> DEFINE Of(t) == CHOOSE g : g = [s \in SUBSET t |-> Added(rows, g, s)]
           g == Of(S)
<1>1. ASSUME NEW t \in SUBSET S PROVE Of(t) = [s \in SUBSET t |-> Added(rows, Of(t), s)]
  <2>1. \E f : f = [s \in SUBSET t |-> Added(rows, f, s)]
    BY HitsDefined, FS_Subset
  <2>2. QED
    BY <2>1
<1>2. \A t \in SUBSET S : Hits(rows, t) = Of(t)[t]
  BY HitsUnfolds
<1> HIDE DEF Of
<1>3. ASSUME NEW t \in SUBSET S PROVE Of(t)[t] = g[t]
  <2> DEFINE F == {s \in SUBSET t : Of(t)[s] # g[s]}
  <2>1. ASSUME F # {} PROVE FALSE
    <3>1. PICK U \in F : \A Q \in F : Q \subseteq U => Q = U
      <4>1. F \subseteq SUBSET t /\ IsFiniteSet(t)
        BY FS_Subset
      <4> HIDE DEF F
      <4>2. QED
        BY <2>1, <4>1, Smallest
    <3>2. U \subseteq t /\ U \subseteq S /\ Of(t)[U] # g[U]
      BY <3>1
    <3>3. Of(t)[U] = Added(rows, Of(t), U) /\ g[U] = Added(rows, g, U)
      BY <1>1, <3>2
    <3>4. U # {}
      BY <3>2, <3>3 DEF Added
    <3>5. Picked(U) \in U
      BY <3>4 DEF Picked
    <3>6. Of(t)[U \ {Picked(U)}] = g[U \ {Picked(U)}]
      BY <3>1, <3>2, <3>5
    <3>7. QED
      BY <3>2, <3>3, <3>4, <3>6 DEF Added
  <2>2. QED
    BY <2>1
<1>4. \A s \in SUBSET S : g[s] = Added(rows, g, s) /\ Hits(rows, s) = g[s]
  <2>1. g = [s \in SUBSET S |-> Added(rows, g, s)]
    BY <1>1
  <2> HIDE DEF g
  <2>2. QED
    BY <1>2, <1>3, <2>1
<1>5. QED
  BY <1>4

(* Rows of S that have hits.                                               *)
Counts(rows, S) == IsFiniteSet(S) /\ \A i \in S : rows[i].hits \in Nat

LEMMA HitsEmpty == ASSUME NEW rows PROVE Hits(rows, {}) = 0
<1>1. PICK g : \A s \in SUBSET {} : g[s] = Added(rows, g, s) /\ Hits(rows, s) = g[s]
  BY HitsFunction, FS_EmptySet
<1>2. QED
  BY <1>1 DEF Added

(* Any row may be the one that is counted last.                            *)
LEMMA HitsAdd ==
    ASSUME NEW rows, NEW S, Counts(rows, S)
    PROVE  /\ Hits(rows, S) \in Nat
           /\ \A x \in S : Hits(rows, S) = rows[x].hits + Hits(rows, S \ {x})
<1> DEFINE Good(s) == /\ Hits(rows, s) \in Nat
                      /\ \A x \in s : Hits(rows, s) = rows[x].hits + Hits(rows, s \ {x})
           F == {s \in SUBSET S : ~Good(s)}
<1>1. \A s \in SUBSET S : Hits(rows, s) =
            IF s = {} THEN 0 ELSE rows[Picked(s)].hits + Hits(rows, s \ {Picked(s)})
  <2>1. PICK g : \A s \in SUBSET S : g[s] = Added(rows, g, s) /\ Hits(rows, s) = g[s]
    BY HitsFunction DEF Counts
  <2>2. \A s \in SUBSET S : s \ {Picked(s)} \in SUBSET S
    OBVIOUS
  <2>3. QED
    BY <2>1, <2>2 DEF Added
<1>2. ASSUME F # {} PROVE FALSE
  <2>1. PICK U \in F : \A Q \in F : Q \subseteq U => Q = U
    <3>1. F \subseteq SUBSET S
      OBVIOUS
    <3> HIDE DEF F
    <3>2. QED
      BY <1>2, <3>1, Smallest DEF Counts
  <2>2. U \subseteq S /\ ~Good(U)
    BY <2>1
  <2>3. U # {}
    <3>1. Good({})
      BY HitsEmpty
    <3>2. QED
      BY <2>2, <3>1
  <2> DEFINE c == Picked(U)
  <2>4. c \in U
    BY <2>3 DEF Picked
  <2>5. \A x \in U : Good(U \ {x})
    BY <2>1, <2>2
  <2>6. Hits(rows, U) = rows[c].hits + Hits(rows, U \ {c})
    BY <1>1, <2>2, <2>3
  <2>7. rows[c].hits \in Nat /\ Hits(rows, U \ {c}) \in Nat
    BY <2>2, <2>4, <2>5 DEF Counts
  <2> HIDE DEF c
  <2>8. ASSUME NEW x \in U PROVE Hits(rows, U) = rows[x].hits + Hits(rows, U \ {x})
    <3>1. CASE x = c
      BY <2>6, <3>1
    <3>2. CASE x # c
      <4>1. (U \ {c}) \ {x} = (U \ {x}) \ {c} /\ x \in U \ {c} /\ c \in U \ {x}
        BY <2>4, <3>2
      <4>2. /\ Hits(rows, U \ {c}) = rows[x].hits + Hits(rows, (U \ {c}) \ {x})
            /\ Hits(rows, U \ {x}) = rows[c].hits + Hits(rows, (U \ {x}) \ {c})
        BY <2>4, <2>5, <4>1
      <4>3. rows[x].hits \in Nat /\ Hits(rows, (U \ {x}) \ {c}) \in Nat
        <5>1. Good((U \ {x}) \ {c})
          BY <2>1, <2>2
        <5>2. QED
          BY <2>2, <5>1 DEF Counts
      <4>4. Hits(rows, U \ {c}) = rows[x].hits + Hits(rows, (U \ {x}) \ {c})
        BY <4>1, <4>2
      <4>5. QED
        BY <2>6, <2>7, <4>2, <4>3, <4>4
    <3>3. QED
      BY <3>1, <3>2
  <2>9. Hits(rows, U) \in Nat
    BY <2>6, <2>7
  <2>10. QED
    BY <2>2, <2>8, <2>9
<1>3. QED
  BY <1>2

(* Only the hits of the rows of S matter.                                  *)
LEMMA HitsSame ==
    ASSUME NEW q, NEW r, NEW S, Counts(q, S), \A i \in S : q[i].hits = r[i].hits
    PROVE  Hits(q, S) = Hits(r, S)
<1> DEFINE F == {s \in SUBSET S : Hits(q, s) # Hits(r, s)}
<1>1. ASSUME F # {} PROVE FALSE
  <2>1. PICK U \in F : \A Q \in F : Q \subseteq U => Q = U
    <3>1. F \subseteq SUBSET S
      OBVIOUS
    <3> HIDE DEF F
    <3>2. QED
      BY <1>1, <3>1, Smallest DEF Counts
  <2>2. U \subseteq S /\ Hits(q, U) # Hits(r, U)
    BY <2>1
  <2>3. PICK x \in U : TRUE
    BY <2>2, HitsEmpty
  <2>4. Hits(q, U \ {x}) = Hits(r, U \ {x})
    BY <2>1, <2>2, <2>3
  <2>5. Counts(q, U) /\ Counts(r, U)
    BY <2>2, FS_Subset DEF Counts
  <2>6. q[x].hits = r[x].hits
    BY <2>2, <2>3
  <2>7. QED
    BY <2>2, <2>3, <2>4, <2>5, <2>6, HitsAdd
<1>2. QED
  BY <1>1

LEMMA HitsUnion ==
    ASSUME NEW rows, NEW A, NEW B, Counts(rows, A), Counts(rows, B), A \cap B = {}
    PROVE  Hits(rows, A \cup B) = Hits(rows, A) + Hits(rows, B)
<1> DEFINE F == {s \in SUBSET B : Hits(rows, A \cup s) # Hits(rows, A) + Hits(rows, s)}
<1>1. ASSUME F # {} PROVE FALSE
  <2>1. PICK U \in F : \A Q \in F : Q \subseteq U => Q = U
    <3>1. F \subseteq SUBSET B
      OBVIOUS
    <3> HIDE DEF F
    <3>2. QED
      BY <1>1, <3>1, Smallest DEF Counts
  <2>2. U \subseteq B /\ Hits(rows, A \cup U) # Hits(rows, A) + Hits(rows, U)
    BY <2>1
  <2>3. U # {}
    <3>1. Hits(rows, A) \in Nat /\ A \cup {} = A
      BY HitsAdd
    <3>2. QED
      BY <2>2, <3>1, HitsEmpty
  <2>4. PICK x \in U : TRUE
    BY <2>3
  <2>5. Counts(rows, U) /\ Counts(rows, A \cup U) /\ Counts(rows, U \ {x})
    BY <2>2, FS_Subset, FS_Union DEF Counts
  <2>6. (A \cup U) \ {x} = A \cup (U \ {x})
    BY <2>2, <2>4
  <2>7. Hits(rows, A \cup (U \ {x})) = Hits(rows, A) + Hits(rows, U \ {x})
    BY <2>1, <2>2, <2>4
  <2>8. /\ Hits(rows, A \cup U) = rows[x].hits + Hits(rows, A \cup (U \ {x}))
        /\ Hits(rows, U) = rows[x].hits + Hits(rows, U \ {x})
    <3>1. x \in A \cup U
      BY <2>4
    <3>2. QED
      BY <2>4, <2>5, <2>6, <3>1, HitsAdd
  <2>9. /\ Hits(rows, A) \in Nat /\ Hits(rows, U \ {x}) \in Nat /\ rows[x].hits \in Nat
    BY <2>4, <2>5, HitsAdd DEF Counts
  <2>10. QED
    BY <2>2, <2>7, <2>8, <2>9
<1>2. B \notin F
  BY <1>1
<1>3. QED
  BY <1>2

LEMMA HitsOnes ==
    ASSUME NEW rows, NEW S, IsFiniteSet(S), \A i \in S : rows[i].hits = 1
    PROVE  Hits(rows, S) = Cardinality(S)
<1> DEFINE F == {s \in SUBSET S : Hits(rows, s) # Cardinality(s)}
<1>1. ASSUME F # {} PROVE FALSE
  <2>1. PICK U \in F : \A Q \in F : Q \subseteq U => Q = U
    <3>1. F \subseteq SUBSET S
      OBVIOUS
    <3> HIDE DEF F
    <3>2. QED
      BY <1>1, <3>1, Smallest
  <2>2. U \subseteq S /\ Hits(rows, U) # Cardinality(U)
    BY <2>1
  <2>3. PICK x \in U : TRUE
    BY <2>2, HitsEmpty, FS_EmptySet
  <2>4. Hits(rows, U \ {x}) = Cardinality(U \ {x})
    BY <2>1, <2>2, <2>3
  <2>5. IsFiniteSet(U) /\ Counts(rows, U)
    BY <2>2, FS_Subset DEF Counts
  <2>6. Hits(rows, U) = 1 + Hits(rows, U \ {x})
    BY <2>2, <2>3, <2>5, HitsAdd
  <2>7. Cardinality(U \ {x}) = Cardinality(U) - 1 /\ Cardinality(U) \in Nat
    BY <2>3, <2>5, FS_RemoveElement, FS_CardinalityType
  <2>8. QED
    BY <2>2, <2>4, <2>6, <2>7
<1>2. QED
  BY <1>1

-----------------------------------------------------------------------------
(***************************************************************************)
(* HitsKept.  A collapse writes hits that it has read before.  Either what *)
(* it read had no two open rows of a key, and it writes nothing, or no     *)
(* backend has been healthy since and nobody has touched the rows          *)
(* (Reread): once one is healthy the index is there, and with it one open  *)
(* row of a key for good (Indexed).                                        *)
(***************************************************************************)
Card == [key : Keys, hits : Nat, status : Statuses]

Carded ==
    /\ DOMAIN raised = Keys
    /\ db.rows \in Seq(Card)
    /\ \A p \in Procs : pc[p] = "collapsing" => seen[p].rows \in Seq(Card)

Indexed == (healthy => index) /\ (index => OneOpen(db))

Reread ==
    \A p \in Procs : pc[p] = "collapsing" =>
        OneOpen(seen[p]) \/ (~healthy /\ seen[p].rows = db.rows)

Counting == Carded /\ Indexed /\ Reread /\ HitsAreKept

CountInv == mode # "rolling" => Counting

LEMMA RowSets ==
    ASSUME NEW d, d.rows \in Seq(Card), NEW k
    PROVE  /\ OpenRows(d, k) \subseteq Cards(d, k) /\ Cards(d, k) \subseteq DOMAIN d.rows
           /\ DOMAIN d.rows \subseteq Nat /\ IsFiniteSet(OpenRows(d, k))
           /\ Counts(d.rows, Cards(d, k))
<1>1. OpenRows(d, k) \subseteq Cards(d, k) /\ Cards(d, k) \subseteq DOMAIN d.rows
  BY DEF OpenRows, Cards
<1>2. DOMAIN d.rows = 1..Len(d.rows) /\ Len(d.rows) \in Nat
  OBVIOUS
<1>3. IsFiniteSet(DOMAIN d.rows) /\ DOMAIN d.rows \subseteq Nat
  BY <1>2, FS_Interval
<1>4. \A i \in DOMAIN d.rows : d.rows[i].hits \in Nat
  <2>1. \A i \in DOMAIN d.rows : d.rows[i] \in Card
    OBVIOUS
  <2>2. QED
    BY <2>1 DEF Card
<1>5. QED
  BY <1>1, <1>3, <1>4, FS_Subset DEF Counts

LEMMA OneOpenMeans ==
    ASSUME NEW d, d.rows \in Seq(Card)
    PROVE  OneOpen(d) <=> \A k \in Keys : \A i, j \in OpenRows(d, k) : i = j
<1>1. ASSUME NEW k
      PROVE  Cardinality(OpenRows(d, k)) <= 1 <=> \A i, j \in OpenRows(d, k) : i = j
  <2> DEFINE O == OpenRows(d, k)
  <2>1. IsFiniteSet(O) /\ Cardinality(O) \in Nat
    BY RowSets, FS_CardinalityType
  <2> HIDE DEF O
  <2>2. CASE O = {}
    <3>1. Cardinality(O) = 0
      BY <2>2, FS_EmptySet
    <3>2. QED
      BY <2>2, <3>1 DEF O
  <2>3. CASE O # {}
    <3>1. Cardinality(O) # 0
      BY <2>1, <2>3, FS_EmptySet
    <3>2. Cardinality(O) <= 1 <=> Cardinality(O) = 1
      BY <2>1, <3>1
    <3>3. Cardinality(O) = 1 <=> \E x : O = {x}
      BY <2>1, FS_Singleton
    <3>4. (\E x : O = {x}) <=> \A i, j \in O : i = j
      <4>1. PICK z \in O : TRUE
        BY <2>3
      <4>2. (\A i, j \in O : i = j) => O = {z}
        BY <4>1
      <4>3. QED
        BY <4>2
    <3>5. QED
      BY <3>2, <3>3, <3>4 DEF O
  <2>4. QED
    BY <2>2, <2>3
<1>2. QED
  BY <1>1 DEF OneOpen

(* It is about the rows alone.                                             *)
LEMMA OneOpenOfRows ==
    ASSUME NEW d, NEW e, d.rows = e.rows
    PROVE  OneOpen(d) <=> OneOpen(e)
BY DEF OneOpen, OpenRows

(***************************************************************************)
(* The collapse.                                                           *)
(***************************************************************************)
LEMMA CollapseIdle ==
    ASSUME NEW p, db.rows \in Seq(Card), seen[p].rows \in Seq(Card), OneOpen(seen[p])
    PROVE  Collapsed(p) = db.rows
<1>1. ASSUME NEW i \in DOMAIN db.rows, i \in DOMAIN seen[p].rows
      PROVE  i \notin OpenRows(seen[p], seen[p].rows[i].key)
                \/ OpenRows(seen[p], seen[p].rows[i].key) = {i}
  <2>1. seen[p].rows[i] \in Card
    BY <1>1
  <2>2. seen[p].rows[i].key \in Keys
    BY <2>1 DEF Card
  <2>3. \A j, l \in OpenRows(seen[p], seen[p].rows[i].key) : j = l
    BY <2>2, OneOpenMeans
  <2>4. QED
    BY <2>3
<1>2. Collapsed(p) = [i \in DOMAIN db.rows |-> db.rows[i]]
  BY <1>1 DEF Collapsed
<1>3. QED
  BY <1>2

(* A row that takes the hits of others, and one that gave its own away.    *)
Grown(r, n) == [r EXCEPT !.hits = n]
Closed(r) == [r EXCEPT !.status = "coalesced"]

LEMMA CollapsedRow ==
    ASSUME NEW p, seen[p].rows = db.rows, NEW k, NEW O, O = OpenRows(db, k),
           NEW i \in DOMAIN db.rows, db.rows[i].key = k
    PROVE  /\ i \notin O \/ O = {i} => Collapsed(p)[i] = db.rows[i]
           /\ Collapsed(p)[i] \in {db.rows[i], Grown(db.rows[i], Hits(db.rows, O)), Closed(db.rows[i])}
<1>1. OpenRows(seen[p], seen[p].rows[i].key) = O
  BY DEF OpenRows
<1>2. QED
  BY <1>1 DEF Collapsed, Grown, Closed

LEMMA CollapsedDouble ==
    ASSUME NEW p, seen[p].rows = db.rows, NEW k, NEW O, O = OpenRows(db, k),
           NEW i \in DOMAIN db.rows, db.rows[i].key = k,
           i \in O, NEW j \in O, j # i
    PROVE  Collapsed(p)[i] = IF i = Min(O) THEN Grown(db.rows[i], Hits(db.rows, O))
                             ELSE Closed(db.rows[i])
<1>1. OpenRows(seen[p], seen[p].rows[i].key) = O
  BY DEF OpenRows
<1>2. O # {i}
  OBVIOUS
<1>3. Collapsed(p)[i] = CASE i \notin O \/ O = {i} -> db.rows[i]
               [] i \in O /\ i = Min(O) /\ O # {i} -> Grown(db.rows[i], Hits(db.rows, O))
               [] OTHER -> Closed(db.rows[i])
  BY <1>1 DEF Collapsed, Grown, Closed
<1>4. QED
  BY <1>2, <1>3

LEMMA CollapseTyped ==
    ASSUME NEW p, db.rows \in Seq(Card), seen[p].rows = db.rows
    PROVE  Collapsed(p) \in Seq(Card)
<1>1. ASSUME NEW i \in DOMAIN db.rows PROVE Collapsed(p)[i] \in Card
  <2> DEFINE k == db.rows[i].key
             O == OpenRows(db, k)
  <2>1. db.rows[i] \in Card
    OBVIOUS
  <2>2. Hits(db.rows, O) \in Nat
    <3>1. Counts(db.rows, O)
      BY RowSets DEF Counts
    <3>2. QED
      BY <3>1, HitsAdd
  <2> HIDE DEF O
  <2>3. Collapsed(p)[i] \in {db.rows[i], Grown(db.rows[i], Hits(db.rows, O)),
                             Closed(db.rows[i])}
    <3>1. O = OpenRows(db, k)
      BY DEF O
    <3> HIDE DEF k
    <3>2. db.rows[i].key = k
      BY DEF k
    <3>3. QED
      BY <3>1, <3>2, CollapsedRow
  <2>4. QED
    BY <2>1, <2>2, <2>3 DEF Card, Statuses, Grown, Closed
<1>2. DOMAIN Collapsed(p) = DOMAIN db.rows /\ DOMAIN db.rows = 1..Len(db.rows)
  BY DEF Collapsed
<1>3. Collapsed(p) = [i \in 1..Len(db.rows) |-> Collapsed(p)[i]]
  BY <1>2 DEF Collapsed
<1>4. QED
  BY <1>1, <1>2, <1>3

(* The oldest open row takes the hits of the others, which drop out.       *)
LEMMA CollapseKeeps ==
    ASSUME NEW p, db.rows \in Seq(Card), seen[p].rows = db.rows, NEW d, d.rows = Collapsed(p),
           NEW k \in Keys
    PROVE  Hits(d.rows, Cards(d, k)) = Hits(db.rows, Cards(db, k))
<1> DEFINE O == OpenRows(db, k)
           C == Cards(db, k)
           D == Cards(d, k)
<1>1. O \subseteq C /\ C \subseteq DOMAIN db.rows /\ O \subseteq Nat /\ IsFiniteSet(O)
      /\ Counts(db.rows, C)
  BY RowSets
<1>2. DOMAIN d.rows = DOMAIN db.rows
  BY DEF Collapsed
<1>0. O = OpenRows(db, k)
  OBVIOUS
<1> HIDE DEF O
<1>3. ASSUME NEW i \in DOMAIN db.rows, db.rows[i].key # k PROVE i \notin C /\ i \notin D
  <2>1. db.rows[i] \in Card
    OBVIOUS
  <2>2. d.rows[i].key = db.rows[i].key
    <3> DEFINE l == db.rows[i].key
               R == OpenRows(db, l)
    <3>1. d.rows[i] \in {db.rows[i], Grown(db.rows[i], Hits(db.rows, R)),
                         Closed(db.rows[i])}
      <4>1. R = OpenRows(db, l) /\ db.rows[i].key = l
        OBVIOUS
      <4> HIDE DEF R, l
      <4>2. Collapsed(p)[i] \in {db.rows[i], Grown(db.rows[i], Hits(db.rows, R)), Closed(db.rows[i])}
        BY <4>1, CollapsedRow
      <4>3. QED
        BY <4>2
    <3>2. QED
      BY <2>1, <3>1 DEF Card, Grown, Closed
  <2>3. QED
    BY <1>3, <2>2 DEF Cards
<1>4. ASSUME NEW i \in DOMAIN db.rows, db.rows[i].key = k, i \notin O \/ O = {i}
      PROVE  d.rows[i] = db.rows[i]
  BY <1>0, <1>4, CollapsedRow
<1>5. CASE \A i, j \in O : i = j
  <2>1. \A i \in DOMAIN db.rows : db.rows[i].key = k => d.rows[i] = db.rows[i]
    BY <1>4, <1>5
  <2>2. C = D /\ \A i \in C : db.rows[i].hits = d.rows[i].hits
    BY <1>2, <1>3, <2>1 DEF Cards
  <2>3. QED
    BY <1>1, <2>2, HitsSame
<1>6. CASE ~ \A i, j \in O : i = j
  <2> DEFINE m == Min(O)
  <2>1. m \in O
    <3>1. \E n \in O : \A j \in O : n <= j
      BY <1>1, <1>6, Least
    <3>2. QED
      BY <3>1 DEF Min
  <2>2. ASSUME NEW i \in O
        PROVE  d.rows[i] = IF i = Min(O) THEN Grown(db.rows[i], Hits(db.rows, O))
                           ELSE Closed(db.rows[i])
    <3>1. PICK j \in O : j # i
      BY <1>6
    <3>2. i \in DOMAIN db.rows /\ db.rows[i].key = k
      BY <1>0, <1>1 DEF OpenRows
    <3>3. Collapsed(p)[i] = IF i = Min(O) THEN Grown(db.rows[i], Hits(db.rows, O))
                            ELSE Closed(db.rows[i])
      BY <1>0, <3>1, <3>2, CollapsedDouble
    <3>4. QED
      BY <3>3
  <2>3. d.rows[m] = Grown(db.rows[m], Hits(db.rows, O))
    BY <2>1, <2>2
  <2>4. \A i \in O \ {m} : d.rows[i] = Closed(db.rows[i])
    BY <2>2
  <2> HIDE DEF m
  <2>5. \A i \in O : db.rows[i] \in Card /\ db.rows[i].status = "new" /\ db.rows[i].key = k
    BY <1>0, <1>1 DEF OpenRows
  <2>6. D = (C \ O) \cup {m}
    <3>1. ASSUME NEW i \in DOMAIN db.rows PROVE i \in D <=> i \in (C \ O) \cup {m}
      <4>1. CASE i = m
        BY <1>2, <2>1, <2>3, <2>5, <4>1 DEF Cards, Card, Grown
      <4>2. CASE i \in O \ {m}
        BY <2>4, <2>5, <4>2 DEF Cards, Card, Closed
      <4>3. CASE i \notin O
        BY <1>2, <1>3, <1>4, <2>1, <4>3 DEF Cards
      <4>4. QED
        BY <4>1, <4>2, <4>3
    <3>2. D \subseteq DOMAIN db.rows /\ (C \ O) \cup {m} \subseteq DOMAIN db.rows
      BY <1>1, <1>2, <2>1 DEF Cards
    <3>3. QED
      BY <3>1, <3>2
  <2>7. Counts(db.rows, O) /\ Counts(db.rows, C \ O)
    BY <1>1, FS_Subset DEF Counts
  <2>8. \A i \in C \ O : d.rows[i] = db.rows[i]
    BY <1>1, <1>4 DEF Cards
  <2>9. d.rows[m].hits = Hits(db.rows, O) /\ Hits(db.rows, O) \in Nat
    <3>1. Hits(db.rows, O) \in Nat
      BY <2>7, HitsAdd
    <3>2. QED
      BY <2>1, <2>3, <2>5, <3>1 DEF Card, Grown
  <2>10. Counts(d.rows, D)
    <3>1. IsFiniteSet((C \ O) \cup {m})
      BY <2>7, FS_AddElement DEF Counts
    <3>2. QED
      BY <2>6, <2>7, <2>8, <2>9, <3>1 DEF Counts
  <2>11. Hits(d.rows, D) = Hits(db.rows, O) + Hits(d.rows, C \ O)
    <3>1. m \in D /\ D \ {m} = C \ O
      BY <2>1, <2>6
    <3>2. QED
      BY <2>9, <2>10, <3>1, HitsAdd
  <2>12. Hits(d.rows, C \ O) = Hits(db.rows, C \ O)
    BY <2>7, <2>8, HitsSame
  <2>13. Hits(db.rows, C) = Hits(db.rows, C \ O) + Hits(db.rows, O)
    <3>1. C = (C \ O) \cup O /\ (C \ O) \cap O = {}
      BY <1>1
    <3>2. QED
      BY <2>7, <3>1, HitsUnion
  <2>14. Hits(db.rows, C \ O) \in Nat
    BY <2>7, HitsAdd
  <2>15. QED
    BY <2>9, <2>11, <2>12, <2>13, <2>14
<1>7. QED
  BY <1>5, <1>6

(***************************************************************************)
(* The steps.                                                              *)
(***************************************************************************)
LEMMA InitCounting == Init => Counting
<1> SUFFICES ASSUME Init PROVE Counting
  OBVIOUS
<1>1. /\ db.rows \in Seq(Card)
      /\ \A i \in DOMAIN db.rows : db.rows[i].hits = 1 /\ db.rows[i].status = "new"
  <2>1. CASE db = Empty
    BY <2>1 DEF Empty
  <2>2. ASSUME NEW r \in Earlier, NEW ks \in Leftovers, db = Seeded(r, ks)
        PROVE  /\ db.rows \in Seq(Card)
               /\ \A i \in DOMAIN db.rows : db.rows[i].hits = 1 /\ db.rows[i].status = "new"
    <3>1. ks \in Seq(Keys)
      BY StartupAssumption
    <3>2. db.rows = [i \in 1..Len(ks) |-> FirstRow(ks[i])] /\ Len(ks) \in Nat
      BY <2>2, <3>1 DEF Seeded
    <3>3. \A i \in 1..Len(ks) : FirstRow(ks[i]) \in Card
      BY <3>1 DEF FirstRow, Card, Statuses
    <3>4. db.rows \in Seq(Card)
      BY <3>2, <3>3
    <3>5. QED
      BY <3>2, <3>4 DEF FirstRow
  <2>3. QED
    BY <2>1, <2>2 DEF Init
<1>2. ASSUME NEW k \in Keys PROVE raised[k] = Hits(db.rows, Cards(db, k))
  <2>1. Cards(db, k) = OpenRows(db, k) /\ IsFiniteSet(OpenRows(db, k))
    <3>1. Cards(db, k) = OpenRows(db, k)
      BY <1>1 DEF Cards, OpenRows
    <3>2. QED
      BY <1>1, <3>1, RowSets
  <2>2. \A i \in OpenRows(db, k) : db.rows[i].hits = 1
    BY <1>1 DEF OpenRows
  <2>3. QED
    BY <2>1, <2>2, HitsOnes DEF Init
<1>3. ~healthy /\ ~index /\ (\A p \in Procs : pc[p] = "down") /\ DOMAIN raised = Keys
  BY DEF Init
<1>4. QED
  BY <1>1, <1>2, <1>3 DEF Counting, Carded, Indexed, Reread, HitsAreKept, Procs

(* A step that leaves rows and history alone.                              *)
LEMMA RowsStay ==
    ASSUME Counting, db'.rows = db.rows, raised' = raised,
           healthy => healthy', healthy' => index', index' => index \/ OneOpen(db),
           \A q \in Procs : pc'[q] = "collapsing" =>
                (pc[q] = "collapsing" /\ seen'[q] = seen[q]) \/ seen'[q].rows = db.rows
    PROVE  Counting'
<1>1. Carded'
  BY DEF Counting, Carded
<1>2. index' => OneOpen(db)
  BY DEF Counting, Indexed
<1>3. OneOpen(db') <=> OneOpen(db)
  BY OneOpenOfRows
<1>4. Indexed'
  BY <1>2, <1>3 DEF Indexed
<1>5. ASSUME NEW q \in Procs, pc'[q] = "collapsing"
      PROVE  OneOpen(seen'[q]) \/ (~healthy' /\ seen'[q].rows = db'.rows)
  <2>1. CASE seen'[q].rows = db.rows
    BY <1>2, <2>1, OneOpenOfRows
  <2>2. CASE seen'[q].rows # db.rows
    BY <1>5, <2>2 DEF Counting, Reread
  <2>3. QED
    BY <2>1, <2>2
<1>6. Reread'
  BY <1>5 DEF Reread
<1>7. \A k \in Keys : Cards(db', k) = Cards(db, k)
  BY DEF Cards
<1>8. HitsAreKept'
  BY <1>7 DEF Counting, HitsAreKept
<1>9. QED
  BY <1>1, <1>4, <1>6, <1>8 DEF Counting

LEMMA BootCounts ==
    ASSUME OneBackend, Started, Started', Counting, NEW p \in Procs, BootCommit(p)
    PROVE  Counting'
<1>1. /\ pc[p] = "collapsing" /\ pc'[p] \in {"down", "index"}
      /\ \A q \in Procs \ {p} : pc'[q] = pc[q] /\ seen'[q] = seen[q]
      /\ UNCHANGED <<index, healthy, raised>>
  BY DEF BootCommit, Goes, Started, Formed
<1>2. db.rows \in Seq(Card) /\ seen[p].rows \in Seq(Card)
  BY <1>1 DEF Counting, Carded
<1>3. CASE db'.rows = db.rows
  BY <1>1, <1>3, RowsStay DEF Counting, Indexed
<1>4. CASE db'.rows # db.rows
  <2>1. db'.rows = Collapsed(p)
    BY <1>4 DEF BootCommit, Started, Formed, Columns
  <2>2. ~OneOpen(seen[p])
    BY <1>2, <1>4, <2>1, CollapseIdle
  <2>3. ~healthy /\ seen[p].rows = db.rows
    BY <1>1, <2>2 DEF Counting, Reread
  <2>4. ~index
    BY <2>2, <2>3, OneOpenOfRows DEF Counting, Indexed
  <2>5. \A q \in Procs \ {p} : pc'[q] # "collapsing"
    BY <1>1, <2>3, Alone
  <2>6. db'.rows \in Seq(Card)
    BY <1>2, <2>1, <2>3, CollapseTyped
  <2>7. \A k \in Keys : Hits(db'.rows, Cards(db', k)) = Hits(db.rows, Cards(db, k))
    BY <1>2, <2>1, <2>3, CollapseKeeps
  <2>8. Carded' /\ Indexed' /\ Reread'
    BY <1>1, <2>3, <2>4, <2>5, <2>6 DEF Counting, Carded, Indexed, Reread
  <2>9. HitsAreKept'
    BY <1>1, <2>7 DEF Counting, HitsAreKept
  <2>10. QED
    BY <2>8, <2>9 DEF Counting
<1>5. QED
  BY <1>3, <1>4

(* What is served meanwhile is served by a deployment that is healthy.     *)
LEMMA ServedHealthy ==
    ASSUME Started, Counting, Ingesting \/ Operating
    PROVE  healthy /\ index /\ OneOpen(db)
BY DEF Started, Ordered, Counting, Indexed, Ingesting, Operating, Procs

(* ... so that the only condition left is that rows stay single.           *)
LEMMA ServedKeeps ==
    ASSUME Started, Counting, Ingesting \/ Operating, UNCHANGED <<index, healthy, pc, seen>>,
           DOMAIN raised' = Keys, db'.rows \in Seq(Card), OneOpen(db'), HitsAreKept'
    PROVE  Counting'
<1>1. healthy /\ index /\ OneOpen(db)
  BY ServedHealthy
<1>2. QED
  BY <1>1 DEF Counting, Carded, Indexed, Reread

LEMMA InsertCounts ==
    ASSUME Started, Counting, NEW k \in Keys, Insert(k)
    PROVE  Counting'
<1> DEFINE n == Len(db.rows)
<1>1. healthy /\ index /\ OneOpen(db) /\ OpenRows(db, k) = {}
  BY ServedHealthy DEF Insert
<1>2. db.rows \in Seq(Card) /\ n \in Nat /\ DOMAIN db.rows = 1..n
  BY DEF Counting, Carded
<1>3. db'.rows = Append(db.rows, FirstRow(k)) /\ FirstRow(k) \in Card
  BY DEF Insert, Started, Formed, Columns, FirstRow, Card, Statuses
<1>4. /\ db'.rows \in Seq(Card) /\ DOMAIN db'.rows = 1..(n + 1)
      /\ \A i \in 1..n : db'.rows[i] = db.rows[i]
      /\ db'.rows[n + 1] = FirstRow(k)
  BY <1>2, <1>3
<1> HIDE DEF n
<1>5. /\ \A l \in Keys \ {k} : OpenRows(db', l) = OpenRows(db, l) /\ Cards(db', l) = Cards(db, l)
      /\ OpenRows(db', k) = OpenRows(db, k) \cup {n + 1} /\ Cards(db', k) = Cards(db, k) \cup {n + 1}
      /\ \A l \in Keys : n + 1 \notin Cards(db, l) /\ Cards(db, l) \subseteq 1..n
  BY <1>2, <1>4 DEF OpenRows, Cards, FirstRow
<1>6. OneOpen(db')
  BY <1>1, <1>2, <1>4, <1>5, OneOpenMeans
<1>7. ASSUME NEW l \in Keys PROVE Hits(db'.rows, Cards(db, l)) = raised[l]
  <2>1. Counts(db.rows, Cards(db, l)) /\ \A i \in Cards(db, l) : db'.rows[i].hits = db.rows[i].hits
    BY <1>2, <1>4, <1>5, RowSets
  <2>2. QED
    BY <2>1, HitsSame DEF Counting, HitsAreKept
<1>8. Hits(db'.rows, Cards(db', k)) = raised[k] + 1
  <2>1. Counts(db'.rows, Cards(db', k))
    BY <1>4, RowSets
  <2>2. n + 1 \in Cards(db', k) /\ Cards(db', k) \ {n + 1} = Cards(db, k)
    BY <1>5
  <2>3. db'.rows[n + 1].hits = 1
    BY <1>4 DEF FirstRow
  <2>4. Hits(db'.rows, Cards(db, k)) \in Nat
    <3>1. Counts(db'.rows, Cards(db, k))
      BY <2>1, <2>2, FS_Subset DEF Counts
    <3>2. QED
      BY <3>1, HitsAdd
  <2>5. Hits(db'.rows, Cards(db', k)) = 1 + Hits(db'.rows, Cards(db, k))
    BY <2>1, <2>2, <2>3, HitsAdd
  <2>6. QED
    BY <1>7, <2>4, <2>5
<1>9. raised' = [raised EXCEPT ![k] = @ + 1] /\ DOMAIN raised = Keys
  BY DEF Insert, Counting, Carded
<1>10. HitsAreKept'
  BY <1>5, <1>7, <1>8, <1>9 DEF HitsAreKept
<1>11. DOMAIN raised' = Keys
  BY <1>9
<1>12. QED
  BY <1>4, <1>6, <1>10, <1>11, ServedKeeps DEF Insert

LEMMA BumpCounts ==
    ASSUME Started, Counting, NEW k \in Keys, Bump(k)
    PROVE  Counting'
<1>1. PICK i \in OpenRows(db, k) : db' = [db EXCEPT !.rows[i].hits = @ + 1]
  BY DEF Bump
<1>2. db.rows \in Seq(Card) /\ OneOpen(db)
  BY ServedHealthy DEF Bump, Counting, Carded
<1>3. i \in DOMAIN db.rows /\ db.rows[i] \in Card /\ i \in Cards(db, k)
  BY <1>2, RowSets DEF OpenRows, Cards
<1> DEFINE v == [db.rows[i] EXCEPT !.hits = db.rows[i].hits + 1]
<1>4. db'.rows = [db.rows EXCEPT ![i] = v]
  <2>1. db' = [db EXCEPT !.rows = [db.rows EXCEPT ![i] = v]]
    BY <1>1
  <2>2. QED
    BY <2>1 DEF Started, Formed, Columns
<1>5. /\ v \in Card /\ v.hits = db.rows[i].hits + 1
      /\ v.key = db.rows[i].key /\ v.status = db.rows[i].status
  BY <1>3 DEF Card
<1> HIDE DEF v
<1>6. db'.rows \in Seq(Card) /\ DOMAIN db'.rows = DOMAIN db.rows
  BY <1>2, <1>3, <1>4, <1>5
<1>7. /\ \A j \in DOMAIN db.rows \ {i} : db'.rows[j] = db.rows[j]
      /\ db'.rows[i].hits = db.rows[i].hits + 1
      /\ db'.rows[i].key = db.rows[i].key /\ db'.rows[i].status = db.rows[i].status
  BY <1>2, <1>3, <1>4, <1>5
<1>8. \A l \in Keys : OpenRows(db', l) = OpenRows(db, l) /\ Cards(db', l) = Cards(db, l)
  BY <1>6, <1>7 DEF OpenRows, Cards
<1>9. OneOpen(db')
  BY <1>2, <1>8 DEF OneOpen
<1>10. ASSUME NEW l \in Keys \ {k} PROVE Hits(db'.rows, Cards(db, l)) = raised[l]
  <2>1. i \notin Cards(db, l)
    BY <1>3 DEF Cards
  <2>2. Counts(db.rows, Cards(db, l)) /\ \A j \in Cards(db, l) : db'.rows[j].hits = db.rows[j].hits
    BY <1>2, <1>7, <2>1, RowSets
  <2>3. QED
    BY <2>2, HitsSame DEF Counting, HitsAreKept
<1>11. Hits(db'.rows, Cards(db, k)) = raised[k] + 1
  <2> DEFINE C == Cards(db, k)
  <2>1. Counts(db.rows, C) /\ Counts(db'.rows, C)
    BY <1>2, <1>6, <1>8, RowSets
  <2>2. Counts(db.rows, C \ {i}) /\ C \subseteq DOMAIN db.rows
    BY <1>2, <2>1, RowSets, FS_Subset DEF Counts
  <2>3. Hits(db'.rows, C \ {i}) = Hits(db.rows, C \ {i}) /\ Hits(db.rows, C \ {i}) \in Nat
    BY <1>7, <2>2, HitsSame, HitsAdd
  <2>4. /\ Hits(db'.rows, C) = db'.rows[i].hits + Hits(db'.rows, C \ {i})
        /\ Hits(db.rows, C) = db.rows[i].hits + Hits(db.rows, C \ {i})
    BY <1>3, <2>1, HitsAdd
  <2>5. db.rows[i].hits \in Nat /\ db'.rows[i].hits = db.rows[i].hits + 1
    BY <1>3, <1>7 DEF Card
  <2>6. raised[k] = Hits(db.rows, C)
    BY DEF Counting, HitsAreKept
  <2> HIDE DEF C
  <2>7. QED
    BY <2>3, <2>4, <2>5, <2>6 DEF C
<1>12. raised' = [raised EXCEPT ![k] = @ + 1] /\ DOMAIN raised = Keys
  BY DEF Bump, Counting, Carded
<1>13. HitsAreKept'
  BY <1>8, <1>10, <1>11, <1>12 DEF HitsAreKept
<1>14. DOMAIN raised' = Keys
  BY <1>12
<1>15. QED
  BY <1>6, <1>9, <1>13, <1>14, ServedKeeps DEF Bump

LEMMA AcknowledgeCounts ==
    ASSUME Started, Counting, NEW k \in Keys, Acknowledge(k)
    PROVE  Counting'
<1>1. PICK i \in OpenRows(db, k) : db' = [db EXCEPT !.rows[i].status = "acknowledged"]
  BY DEF Acknowledge
<1>2. db.rows \in Seq(Card) /\ OneOpen(db)
  BY ServedHealthy DEF Acknowledge, Counting, Carded
<1>3. i \in DOMAIN db.rows /\ db.rows[i] \in Card /\ db.rows[i].status = "new"
  BY <1>2 DEF OpenRows
<1>4. db'.rows = [db.rows EXCEPT ![i] = [@ EXCEPT !.status = "acknowledged"]]
  BY <1>1 DEF Started, Formed, Columns
<1>5. [db.rows[i] EXCEPT !.status = "acknowledged"] \in Card
  BY <1>3 DEF Card, Statuses
<1>6. db'.rows \in Seq(Card) /\ DOMAIN db'.rows = DOMAIN db.rows
  BY <1>2, <1>3, <1>4, <1>5
<1>7. /\ \A j \in DOMAIN db.rows \ {i} : db'.rows[j] = db.rows[j]
      /\ db'.rows[i].hits = db.rows[i].hits
      /\ db'.rows[i].key = db.rows[i].key /\ db'.rows[i].status = "acknowledged"
  BY <1>3, <1>4 DEF Card
<1>8. \A l \in Keys : OpenRows(db', l) \subseteq OpenRows(db, l) /\ Cards(db', l) = Cards(db, l)
  BY <1>3, <1>6, <1>7 DEF OpenRows, Cards
<1>9. OneOpen(db')
  BY <1>2, <1>6, <1>8, OneOpenMeans
<1>10. ASSUME NEW l \in Keys PROVE Hits(db'.rows, Cards(db, l)) = raised[l]
  <2>1. Counts(db.rows, Cards(db, l)) /\ \A j \in Cards(db, l) : db'.rows[j].hits = db.rows[j].hits
    BY <1>2, <1>7, RowSets
  <2>2. QED
    BY <2>1, HitsSame DEF Counting, HitsAreKept
<1>11. HitsAreKept'
  BY <1>8, <1>10 DEF Acknowledge, HitsAreKept
<1>12. DOMAIN raised' = Keys
  BY DEF Acknowledge, Counting, Carded
<1>13. QED
  BY <1>6, <1>9, <1>11, <1>12, ServedKeeps DEF Acknowledge

LEMMA CountingStep ==
    ASSUME OneBackend, Started, Started', Counting, [Next]_vars
    PROVE  Counting'
<1>1. ASSUME NEW p \in Procs, Migrate(p) \/ Serve(p) PROVE Counting'
  <2>1. /\ db' = db /\ raised' = raised /\ (healthy => healthy')
        /\ index => index'
        /\ index' => index \/ OneOpen(db)
    <3>1. CASE Migrate(p)
      BY <3>1 DEF Migrate, CreateIndex
    <3>2. CASE Serve(p)
      BY <3>2 DEF Serve, CreateIndex
    <3>3. QED
      BY <1>1, <3>1, <3>2
  <2>2. pc'[p] \in {"seed", "serve", "down"} /\ (pc'[p] = "serve" => index')
    BY <1>1 DEF Migrate, Serve, CreateIndex, Goes, Started, Formed
  <2>3. \A q \in Procs \ {p} : pc'[q] = pc[q] /\ seen'[q] = seen[q]
    BY <1>1 DEF Migrate, Serve, CreateIndex, Goes, Started, Formed
  <2>4. healthy' => index'
    <3>1. CASE healthy
      BY <2>1, <3>1 DEF Counting, Indexed
    <3>2. CASE ~healthy
      BY <1>1, <2>2, <3>2 DEF Migrate, Serve
    <3>3. QED
      BY <3>1, <3>2
  <2>5. QED
    BY <2>1, <2>2, <2>3, <2>4, RowsStay
<1>2. ASSUME NEW p \in Procs, Begin(p) \/ SeedRead(p) \/ SeedCommit(p) \/ Killed(p)
      PROVE  Counting'
  <2>1. db'.rows = db.rows /\ UNCHANGED <<raised, index, healthy>>
    BY <1>2 DEF Begin, SeedRead, SeedCommit, Killed, Started, Formed, Columns
  <2>2. pc'[p] # "collapsing"
    BY <1>2 DEF Begin, SeedRead, SeedCommit, Killed, Goes, Reads, Started, Formed
  <2>3. \A q \in Procs \ {p} : pc'[q] = pc[q] /\ seen'[q] = seen[q]
    BY <1>2 DEF Begin, SeedRead, SeedCommit, Killed, Goes, Reads, Started, Formed
  <2>4. QED
    BY <2>1, <2>2, <2>3, RowsStay DEF Counting, Indexed
<1>3. ASSUME NEW p \in Procs, BootRead(p) PROVE Counting'
  <2>1. db' = db /\ UNCHANGED <<raised, index, healthy>>
    BY <1>3 DEF BootRead
  <2>2. seen'[p].rows = db.rows
    BY <1>3 DEF BootRead, Reads, Started, Formed, Nothing
  <2>3. \A q \in Procs \ {p} : pc'[q] = pc[q] /\ seen'[q] = seen[q]
    BY <1>3 DEF BootRead, Reads, Started, Formed
  <2>4. QED
    BY <2>1, <2>2, <2>3, RowsStay DEF Counting, Indexed
<1>4. ASSUME NEW p \in Procs, BootCommit(p) PROVE Counting'
  BY <1>4, BootCounts
<1>5. ASSUME NEW k \in Keys, Insert(k) \/ Bump(k) \/ Acknowledge(k) PROVE Counting'
  BY <1>5, InsertCounts, BumpCounts, AcknowledgeCounts
<1>6. CASE (\E t \in Tags : EnrolRead(t)) \/ EnrolWrite \/ UNCHANGED vars
  <2>1. db'.rows = db.rows /\ UNCHANGED <<raised, index, healthy, pc, seen>>
    BY <1>6 DEF EnrolRead, EnrolWrite, vars, Started, Formed, Columns
  <2>2. QED
    BY <2>1, RowsStay DEF Counting, Indexed
<1>7. QED
  BY <1>1, <1>2, <1>3, <1>4, <1>5, <1>6 DEF Next, StartStep

(* However often a start is killed between what it reads and what it       *)
(* commits, the cards of a key count every time it was raised.             *)
THEOREM HitsKeptHolds ==
    ASSUME OneBackend
    PROVE  Spec => []HitsKept
<1>1. OneBackend
  OBVIOUS
<1>2. Init => CountInv
  BY InitCounting DEF CountInv
<1>3. IInv /\ IInv' /\ CountInv /\ [Next]_vars => CountInv'
  <2> SUFFICES ASSUME IInv, IInv', CountInv, [Next]_vars, mode' # "rolling" PROVE Counting'
    BY DEF CountInv
  <2>1. mode # "rolling"
    BY ModeStays
  <2>2. Started /\ Started' /\ Counting
    BY <2>1 DEF IInv, Started, CountInv
  <2>3. QED
    BY <1>1, <2>2, CountingStep
<1>4. CountInv => HitsKept
  BY DEF CountInv, Counting, HitsKept
<1>5. QED
  BY <1>2, <1>3, <1>4, Invariance, PTL DEF Spec
=============================================================================
