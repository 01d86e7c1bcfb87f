------------------------------- MODULE Startup -------------------------------
(***************************************************************************)
(* How the processes of a non-production deployment start.  A backend runs *)
(* the migration, the seed and the lifespan of the application; a worker   *)
(* the seed, the collapse and the index.  Each of the three works on what  *)
(* one SELECT showed and writes it back in a later commit, while the other *)
(* process starts and, in a rolling update, the older release still serves *)
(* without the unique index on the open alerts.                            *)
(***************************************************************************)
EXTENDS Integers, Sequences, FiniteSets, Functions, FiniteSetsExt

CONSTANTS
    Backends, Workers,
    Keys,           \* pairs of a watchlist entry and a camera
    Slugs,          \* the built-in roles
    Tables,         \* departments, cameras and users: rows with a unique column
    Tags,           \* the entries of the seed's watchlist
    FaceTags,       \* those the seed gives a mock embedding
    Minor,          \* the entry of the missing child
    Leftovers,      \* the sequences of keys of the open alerts at the start
    Earlier,        \* earlier releases: the roles they made, the tags they lacked
    Modes,          \* how the deployment is brought up
    MaxRows, MaxHits, MaxKills      \* bounds of the instance

ASSUME StartupAssumption ==
    /\ FaceTags \subseteq Tags \ {Minor}
    /\ Minor \in Tags
    /\ Leftovers \subseteq Seq(Keys) /\ Earlier \subseteq [roles : {"absent", "old"}, gap : SUBSET Tags]
    /\ Modes \subseteq {"compose", "local", "rolling"}
    /\ {MaxRows, MaxHits, MaxKills} \subseteq Nat

VARIABLES
    db,         \* the committed rows
    index,      \* whether uq_alerts_open_watchlist_camera exists
    mode,       \* compose and local start in order; in a rolling update an
                \* older release serves meanwhile
    healthy,    \* a backend of this release has passed its health check once
    pc, seen,   \* of each process: its next step, and the rows it has read
    enrolling,  \* the photo upload under way: its tag and the entry it read
    raised,     \* how often each key was raised (history)
    kills       \* processes killed so far

vars == <<db, index, mode, healthy, pc, seen, enrolling, raised, kills>>

Procs == Backends \union Workers
Statuses == {"new", "acknowledged", "coalesced"}
NoEnrol == [tag |-> "none", blocked |-> FALSE]

OpenRows(d, k) == {i \in DOMAIN d.rows : d.rows[i].key = k /\ d.rows[i].status = "new"}
OneOpen(d) == \A k \in Keys : Cardinality(OpenRows(d, k)) <= 1

Nothing == [tables |-> {}, roles |-> <<>>, watch |-> <<>>, face |-> <<>>,
            blocked |-> FALSE, rows |-> <<>>]

FirstRow(k) == [key |-> k, hits |-> 1, status |-> "new"]

(* The hits of the rows in S.                                              *)
Hits(rows, S) == MapThenSumSet(LAMBDA i : rows[i].hits, S)

(* An empty database, or the one an earlier release left, with open alerts *)
(* from before the index.                                                  *)
Seeded(r, ks) ==
    [tables |-> Tables, roles |-> [s \in Slugs |-> r.roles],
     watch |-> [t \in Tags |-> IF t \in r.gap THEN 0 ELSE 1],
     face |-> [t \in Tags |-> IF t = Minor /\ t \notin r.gap THEN "canned" ELSE "none"],
     blocked |-> FALSE, rows |-> [i \in DOMAIN ks |-> FirstRow(ks[i])]]

Empty == [tables |-> {}, roles |-> [s \in Slugs |-> "absent"],
          watch |-> [t \in Tags |-> 0], face |-> [t \in Tags |-> "none"],
          blocked |-> FALSE, rows |-> <<>>]

Init ==
    /\ db \in {Empty} \union {Seeded(r, ks) : r \in Earlier, ks \in Leftovers}
    /\ raised = [k \in Keys |-> Cardinality(OpenRows(db, k))]
    /\ mode \in Modes /\ (mode = "rolling" => db.tables = Tables)
    /\ index = FALSE /\ healthy = FALSE
    /\ pc = [p \in Procs |-> "down"] /\ seen = [p \in Procs |-> Nothing]
    /\ enrolling = NoEnrol /\ kills = 0

Reads(p, rows, next) ==
    /\ seen' = [seen EXCEPT ![p] = rows]
    /\ pc' = [pc EXCEPT ![p] = next]

(* What was read is forgotten with the transaction.                        *)
Goes(p, next) ==
    /\ pc' = [pc EXCEPT ![p] = next]
    /\ seen' = [seen EXCEPT ![p] = Nothing]

(* CREATE UNIQUE INDEX IF NOT EXISTS fails over two open rows of a key, and *)
(* the process with it.                                                    *)
CreateIndex(p, next) ==
    LET made == index \/ OneOpen(db) IN
    /\ index' = made
    /\ Goes(p, IF made THEN next ELSE "down")

(* A container that failed is restarted, its worker only after a healthy   *)
(* backend when the deployment comes up in order.  A backend's container   *)
(* first upgrades the schema; a local one starts with the seed.  Locally   *)
(* the order and the restarts are the operator's (docs/deployment.md).     *)
Migrate(p) ==
    /\ p \in Backends /\ pc[p] = "down" /\ mode # "local"
    /\ CreateIndex(p, "seed")
    /\ UNCHANGED <<db, mode, healthy, enrolling, raised, kills>>

Begin(p) ==
    /\ pc[p] = "down"
    /\ IF p \in Workers THEN mode = "rolling" \/ healthy ELSE mode = "local"
    /\ Goes(p, "seed")
    /\ UNCHANGED <<db, index, mode, healthy, enrolling, raised, kills>>

SeedRead(p) ==
    /\ pc[p] = "seed"
    /\ Reads(p, [db EXCEPT !.rows = <<>>], "seeding")
    /\ UNCHANGED <<db, index, mode, healthy, enrolling, raised, kills>>

(* Another process has inserted a row this one read as absent: the unique  *)
(* column refuses the second.                                              *)
RoleClash(p) == \E s \in Slugs : seen[p].roles[s] = "absent" /\ db.roles[s] # "absent"
SeedClash(p) == RoleClash(p) \/ (db.tables \ seen[p].tables) # {}

BuiltinRoles == [s \in Slugs |-> "current"]

(* Mutant of MissingTags: only the first tag of the table is looked at.    *)
MissingIfAny(p) == IF \E t \in Tags : seen[p].watch[t] = 0 THEN Tags ELSE {}

(* Nothing of the watchlist is unique, so what was read decides.           *)
MissingTags(p) == {t \in Tags : seen[p].watch[t] = 0}

(* Mutant of NeedsCanned: also a face that was enrolled is replaced.       *)
CannedAlways(p) == FaceTags

NeedsCanned(p) == {t \in FaceTags : seen[p].face[t] = "none"}

(* Mutant of FaceAfter: the record of the child is left as it is.          *)
FaceOfMinorKept(p) ==
    [t \in Tags |-> IF t \in NeedsCanned(p) THEN "canned" ELSE db.face[t]]

FaceAfter(p) ==
    [t \in Tags |-> CASE t \in NeedsCanned(p) -> "canned"
                      [] t = Minor /\ t \notin MissingTags(p) -> "none"
                      [] OTHER -> db.face[t]]

SeedCommit(p) ==
    /\ pc[p] = "seeding"
    /\ IF SeedClash(p)
       THEN Goes(p, "down") /\ UNCHANGED db
       ELSE /\ Goes(p, IF p \in Backends THEN "lifespan" ELSE "collapse")
            /\ db' = [db EXCEPT
                        !.tables = Tables,
                        !.roles = BuiltinRoles,
                        !.watch = [t \in Tags |-> IF t \in MissingTags(p) THEN @[t] + 1 ELSE @[t]],
                        !.face = FaceAfter(p),
                        !.blocked = TRUE]
    /\ UNCHANGED <<index, mode, healthy, enrolling, raised, kills>>

(* ensure_builtin_roles and collapse_duplicate_open_alerts in one          *)
(* transaction of the lifespan; the worker only collapses.                 *)
BootRead(p) ==
    /\ pc[p] \in {"lifespan", "collapse"}
    /\ Reads(p, [Nothing EXCEPT !.roles = db.roles, !.rows = db.rows], "collapsing")
    /\ UNCHANGED <<db, index, mode, healthy, enrolling, raised, kills>>

(* Mutant of Collapsed: the duplicates are closed and their hits dropped.  *)
CollapsedOnly(p) ==
    [i \in DOMAIN db.rows |->
        IF \E j \in DOMAIN seen[p].rows : j < i /\ i \in DOMAIN seen[p].rows
              /\ {i, j} \subseteq OpenRows(seen[p], seen[p].rows[i].key)
        THEN [db.rows[i] EXCEPT !.status = "coalesced"] ELSE db.rows[i]]

(* The rows as they were read: the oldest open row of a key takes the hits *)
(* of the others, which are closed.  Only the columns of rows that have a  *)
(* duplicate are written, whatever they hold by now.                       *)
Collapsed(p) ==
    [i \in DOMAIN db.rows |->
        IF i \notin DOMAIN seen[p].rows THEN db.rows[i]
        ELSE LET same == OpenRows(seen[p], seen[p].rows[i].key) IN
             CASE i \notin same \/ same = {i} -> db.rows[i]
               [] i \in same /\ i = Min(same) /\ same # {i} ->
                    [db.rows[i] EXCEPT !.hits = Hits(seen[p].rows, same)]
               [] OTHER -> [db.rows[i] EXCEPT !.status = "coalesced"]]

(* Mutant of BootCommit: the transaction ends without its commit.          *)
BootForgotten(p) ==
    /\ pc[p] = "collapsing"
    /\ Goes(p, "index")
    /\ UNCHANGED <<db, index, mode, healthy, enrolling, raised, kills>>

BootCommit(p) ==
    /\ pc[p] = "collapsing"
    /\ IF p \in Backends /\ RoleClash(p)
       THEN Goes(p, "down") /\ UNCHANGED db
       ELSE /\ Goes(p, "index")
            /\ db' = [db EXCEPT !.rows = Collapsed(p),
                                !.roles = IF p \in Backends THEN BuiltinRoles ELSE @]
    /\ UNCHANGED <<index, mode, healthy, enrolling, raised, kills>>

Serve(p) ==
    /\ pc[p] = "index"
    /\ CreateIndex(p, "serve")
    /\ healthy' = (healthy \/ (p \in Backends /\ pc'[p] = "serve"))
    /\ UNCHANGED <<db, mode, enrolling, raised, kills>>

(* A process is killed, or health_loop, which catches nothing, ends the    *)
(* gather of the worker.                                                   *)
Killed(p) ==
    /\ pc[p] # "down" /\ kills < MaxKills
    /\ kills' = kills + 1
    /\ Goes(p, "down")
    /\ UNCHANGED <<db, index, mode, healthy, enrolling, raised>>

-----------------------------------------------------------------------------
(* What is served meanwhile, by this release or, in a rolling update, by   *)
(* the one before it, which has no index to fall back on.                  *)
Ingesting == mode = "rolling" \/ \E p \in Procs : pc[p] = "serve"
Operating == mode = "rolling" \/ \E p \in Backends : pc[p] = "serve"

Insert(k) ==
    /\ Ingesting /\ Len(db.rows) < MaxRows
    /\ ~index \/ OpenRows(db, k) = {}
    /\ db' = [db EXCEPT !.rows = Append(@, FirstRow(k))]
    /\ raised' = [raised EXCEPT ![k] = @ + 1]
    /\ UNCHANGED <<index, mode, healthy, pc, seen, enrolling, kills>>

Bump(k) ==
    /\ Ingesting /\ raised[k] < MaxHits
    /\ \E i \in OpenRows(db, k) : db' = [db EXCEPT !.rows[i].hits = @ + 1]
    /\ raised' = [raised EXCEPT ![k] = @ + 1]
    /\ UNCHANGED <<index, mode, healthy, pc, seen, enrolling, kills>>

Acknowledge(k) ==
    /\ Operating
    /\ \E i \in OpenRows(db, k) : db' = [db EXCEPT !.rows[i].status = "acknowledged"]
    /\ UNCHANGED <<index, mode, healthy, pc, seen, enrolling, raised, kills>>

(* enroll_face reads the entry, embeds the still and writes the face with  *)
(* the extra column it had read.                                           *)
EnrolRead(t) ==
    /\ Operating /\ enrolling = NoEnrol
    /\ db.watch[t] > 0 /\ ~(t = Minor /\ db.blocked)
    /\ enrolling' = [tag |-> t, blocked |-> db.blocked]
    /\ UNCHANGED <<db, index, mode, healthy, pc, seen, raised, kills>>

EnrolWrite ==
    /\ enrolling # NoEnrol
    /\ db' = [db EXCEPT !.face[enrolling.tag] = "photo",
                        !.blocked = IF enrolling.tag = Minor THEN enrolling.blocked ELSE @]
    /\ enrolling' = NoEnrol
    /\ UNCHANGED <<index, mode, healthy, pc, seen, raised, kills>>

StartStep(p) ==
    \/ Migrate(p) \/ Begin(p) \/ SeedRead(p) \/ SeedCommit(p)
    \/ BootRead(p) \/ BootCommit(p) \/ Serve(p)

Next ==
    \/ \E p \in Procs : StartStep(p) \/ Killed(p)
    \/ \E k \in Keys : Insert(k) \/ Bump(k) \/ Acknowledge(k)
    \/ \E t \in Tags : EnrolRead(t)
    \/ EnrolWrite

(* The container runtime restarts what has failed.                         *)
Spec == Init /\ [][Next]_vars /\ \A p \in Procs : WF_vars(StartStep(p))

-----------------------------------------------------------------------------
TypeOK ==
    /\ DOMAIN db = {"tables", "roles", "watch", "face", "blocked", "rows"}
    /\ db.rows \in Seq([key : Keys, hits : Nat, status : Statuses])
    /\ pc \in [Procs -> {"down", "seed", "seeding", "lifespan", "collapse",
                          "collapsing", "index", "serve"}]
    /\ index \in BOOLEAN /\ healthy \in BOOLEAN /\ kills \in 0..MaxKills

(* However often a start is killed between its read, its commit and its    *)
(* index, the cards of a key count every time it was raised: a start that  *)
(* is repeated adds nothing twice, and one that fails has lost nothing.    *)
Cards(d, k) == {i \in DOMAIN d.rows : d.rows[i].key = k /\ d.rows[i].status # "coalesced"}
HitsAreKept == \A k \in Keys : raised[k] = Hits(db.rows, Cards(db, k))
HitsKept == mode # "rolling" => HitsAreKept

(* A deployment that is brought up in order has one entry per target, and  *)
(* the built-in roles of this release, whatever an earlier one had seeded  *)
(* and whatever was killed.                                                *)
TargetsAreOnce ==
    /\ \A t \in Tags : db.watch[t] <= 1
    /\ healthy => /\ \A t \in Tags : db.watch[t] = 1
                  /\ \A s \in Slugs : db.roles[s] = "current"
TargetsOnce == mode # "rolling" => TargetsAreOnce

(* Once it has been up, no face of the child is matched: the seed clears   *)
(* the one an earlier release gave, and enrol_face refuses another.        *)
MinorIsFaceless == healthy => db.face[Minor] = "none"
MinorHasNoFace == mode # "rolling" => MinorIsFaceless

(* A start never replaces the face of a photo by the mock of the seed.     *)
PhotoStays(t) == t # Minor /\ db.face[t] = "photo" => db'.face[t] = "photo"
PhotosStay == [][\A t \in Tags : PhotoStays(t)]_vars
PhotosKept == [][mode # "rolling" => \A t \in Tags : PhotoStays(t)]_vars

(* Every process that is down comes up again, although two of them insert  *)
(* the same rows, an older release adds open alerts before the index can   *)
(* be made, and each may be killed.  Not in a container deployment whose   *)
(* alerts are doubled: see AlwaysStarts.                                   *)
AlwaysStarts == \A p \in Procs : pc[p] = "down" ~> pc[p] = "serve"
Starts == (mode # "compose" \/ OneOpen(db)) => AlwaysStarts

(* "Merge leftover open rows (pre-unique-index) into one card": the rows   *)
(* of before the index are merged in the end.                              *)
LeftoversMerged == <>[]OneOpen(db)
=============================================================================
