-------------------------- MODULE RoleAdminProofs --------------------------
(***************************************************************************)
(* Theorems about RoleAdmin, for any number of requests, replicas, users   *)
(* and roles: type correctness; that no role an administrator makes up     *)
(* lets anybody else administer; and that an account stays as it was       *)
(* switched until it is switched again (DeactivationKept).                 *)
(***************************************************************************)
EXTENDS RoleAdmin, TLAPS

\* The variables of one request, each of its type after a step.
RequestsTyped ==
  /\ pc \in [Request -> Stage]
  /\ at \in [Request -> Replica \cup {None}]
  /\ by \in [Request -> Role \cup {None}]
  /\ job \in [Request -> Job \cup {None}]
  /\ row \in [Request -> Account \cup Custom \cup {None}]
  /\ seen \in [Request -> [Slug -> Custom \cup {None}] \cup {None}]
  /\ write \in [Request -> Update \cup {None}]

TablesTyped ==
  /\ users \in [User -> Account \cup {None}]
  /\ roles \in [Slug -> Custom \cup {None}]
  /\ cache \in [Replica -> [Slug -> Custom \cup {None}]]

LEMMA TypeSplit == TypeOK <=> TablesTyped /\ RequestsTyped
  BY DEF TypeOK, TablesTyped, RequestsTyped

LEMMA TypeSplitNext == TypeOK' <=> TablesTyped' /\ RequestsTyped'
  BY DEF TypeOK, TablesTyped, RequestsTyped

\* An assign_user request that has the account: loaded, or as the actor.
Loaded(q) ==
  /\ pc[q] \in {"enter", "load", "assert", "demote", "autoflush", "deactivate",
                "send", "commit"}
  /\ job[q].op = "assign_user"
  /\ pc[q] \in {"enter", "load"} => row[q] # None

\* What an open request has: a replica, a payload, and once it has loaded an
\* account that account, which is never removed.
ShapeOf(q) ==
  /\ pc[q] # "idle" => at[q] \in Replica /\ job[q] \in Job
  /\ pc[q] \in {"demote", "autoflush", "deactivate"} => job[q].op = "assign_user"
  /\ pc[q] \in {"count", "reload", "unique"} => job[q].op # "assign_user"
  /\ seen[q] # None => pc[q] \in {"enter", "assert", "leave"}
  /\ Loaded(q) => row[q] \in Account /\ users[job[q].user] \in Account \ {None}

Shape == \A q \in Request : ShapeOf(q)

\* register_custom_roles never lets a privileged capability into a cache.
Clean ==
  \A p \in Replica, s \in Slug :
    cache[p][s] # None => cache[p][s].caps \cap SuperOnly = {}

IInv == TypeOK /\ Shape /\ Clean /\ OnlySuperAdminsAct

\* A request that is over leaves its variables empty.
LEMMA EndType ==
  ASSUME RequestsTyped, NEW q \in Request, End(q) PROVE RequestsTyped'
  <1>1. "idle" \in Stage
    BY DEF Stage
  <1> QED
    BY <1>1, SMT DEF RequestsTyped, End

\* A request that goes on keeps its payload.
LEMMA GoToType ==
  ASSUME RequestsTyped, NEW q \in Request, NEW stage \in Stage, GoTo(q, stage)
  PROVE  /\ pc' \in [Request -> Stage]
         /\ at' \in [Request -> Replica \cup {None}]
         /\ by' \in [Request -> Role \cup {None}]
         /\ job' \in [Request -> Job \cup {None}]
  BY DEF RequestsTyped, GoTo

LEMMA GuardedType ==
  ASSUME TypeOK, NEW q \in Request, NEW refused, NEW stage \in Stage,
         Guarded(q, refused, stage)
  PROVE  TypeOK'
  <1>1. TablesTyped /\ RequestsTyped
    BY TypeSplit
  <1>2. TablesTyped'
    BY <1>1 DEF TablesTyped, Guarded, tables
  <1>3. CASE refused
    BY <1>1, <1>2, <1>3, EndType, TypeSplitNext DEF Guarded
  <1>4. CASE ~refused
    <2>1. GoTo(q, stage) /\ UNCHANGED <<row, seen, write>>
      BY <1>4 DEF Guarded
    <2>2. RequestsTyped'
      BY <1>1, <2>1, GoToType DEF RequestsTyped
    <2> QED
      BY <1>2, <2>2, TypeSplitNext
  <1> QED
    BY <1>3, <1>4

LEMMA InitType == ASSUME Init PROVE TypeOK
  BY RoleAssumption DEF Init, TypeOK, Stage

LEMMA AdmitType ==
  ASSUME TypeOK, NEW q \in Request, Admit(q) PROVE TypeOK'
  <1>1. PICK p \in Replica, a \in User, j \in Payload :
          /\ users[a] # None
          /\ pc' = [pc EXCEPT ![q] = Entry(j)]
          /\ at' = [at EXCEPT ![q] = p]
          /\ by' = [by EXCEPT ![q] = users[a].role]
          /\ job' = [job EXCEPT ![q] = j]
          /\ row' = [row EXCEPT ![q] =
                IF j.op = "assign_user" /\ j.user = a THEN users[a] ELSE None]
    BY DEF Admit
  <1>2. UNCHANGED <<users, roles, cache, seen, write>>
    BY DEF Admit, tables
  <1>3. users[a] \in Account /\ users[a].role \in Role
    BY <1>1 DEF TypeOK, Account
  <1>4. j \in Job
    BY RoleAssumption
  <1>5. Entry(j) \in Stage
    BY DEF Entry, Stage
  <1> QED
    BY <1>1, <1>2, <1>3, <1>4, <1>5 DEF TypeOK

LEMMA RegisterType ==
  ASSUME TypeOK, NEW q \in Request, Register(q) PROVE TypeOK'
  <1>1. TablesTyped /\ RequestsTyped
    BY TypeSplit
  <1>2. seen[q] \in [Slug -> Custom \cup {None}]
    BY DEF TypeOK, Register
  <1>3. Registered(seen[q]) \in [Slug -> Custom \cup {None}]
    BY <1>2 DEF Registered, Custom, Sanitize
  <1>4. TablesTyped'
    BY <1>1, <1>3 DEF Register, TablesTyped, tables
  <1>5. Refreshed(q) \in Stage
    BY DEF Refreshed, Stage
  <1>6. RequestsTyped'
    <2>1. CASE Refreshed(q) = "idle"
      BY <1>1, <2>1, EndType DEF Register
    <2>2. CASE Refreshed(q) # "idle"
      <3>1. /\ GoTo(q, Refreshed(q))
            /\ seen' = [seen EXCEPT ![q] = None]
            /\ UNCHANGED <<row, write>>
        BY <2>2 DEF Register
      <3> QED
        BY <1>1, <1>5, <3>1, GoToType DEF RequestsTyped
    <2> QED
      BY <2>1, <2>2
  <1> QED
    BY <1>4, <1>6, TypeSplitNext

-----------------------------------------------------------------------------
\* The steps that write a table or a pending row.

LEMMA SendRoleType ==
  ASSUME TypeOK, Shape, NEW q \in Request, SendRole(q) PROVE TypeOK'
  <1>1. /\ pc[q] = "send" /\ job[q].op \in RoleOps
        /\ job[q] \in Job
    BY DEF SendRole, Shape, ShapeOf
  <1>2. job[q].slug \in Slug /\ job[q].caps \in SUBSET Capability
    BY <1>1 DEF Job, RoleOps
  <1>3. [caps |-> Sanitize(job[q].caps)] \in Custom
    BY <1>2 DEF Custom, Sanitize
  <1>4. TablesTyped /\ RequestsTyped
    BY TypeSplit
  <1>5. TablesTyped'
    BY <1>4 DEF TablesTyped, SendRole, tables
  <1>6. CASE End(q)
    BY <1>4, <1>5, <1>6, EndType, TypeSplitNext
  <1>7. CASE ~End(q)
    <2>1. PICK w \in Update \cup {None} :
            /\ GoTo(q, "commit")
            /\ write' = [write EXCEPT ![q] = w]
            /\ UNCHANGED <<row, seen>>
      <3>1. \A to \in Custom \cup {None} :
              [key |-> job[q].slug, to |-> to] \in Update
        BY <1>2 DEF Update
      <3> QED
        BY <1>3, <1>7, <3>1, Zenon DEF SendRole
    <2>2. "commit" \in Stage
      BY DEF Stage
    <2>3. RequestsTyped'
      BY <1>4, <2>1, <2>2, GoToType DEF RequestsTyped
    <2> QED
      BY <1>5, <2>3, TypeSplitNext
  <1> QED
    BY <1>6, <1>7

LEMMA CommitRoleType ==
  ASSUME TypeOK, NEW q \in Request, CommitRole(q) PROVE TypeOK'
  <1>1. TablesTyped /\ RequestsTyped
    BY TypeSplit
  <1>2. roles' \in [Slug -> Custom \cup {None}]
    <2>1. CASE write[q] = None
      BY <2>1 DEF CommitRole, TypeOK
    <2>2. CASE write[q] # None
      <3>1. roles' = [roles EXCEPT ![write[q].key] = write[q].to]
        BY <2>2 DEF CommitRole
      <3>2. write[q] \in Update
        BY <2>2 DEF TypeOK
      <3>3. write[q].key \in Slug => write[q].to \in Custom \cup {None}
        BY <3>2, RoleAssumption DEF Update
      <3> QED
        BY <3>1, <3>3 DEF TypeOK
    <2> QED
      BY <2>1, <2>2
  <1>3. TablesTyped'
    BY <1>1, <1>2 DEF TablesTyped, CommitRole
  <1>4. GoTo(q, IF job[q].op = "create_role" THEN "reload" ELSE "leave")
    BY DEF CommitRole
  <1>5. (IF job[q].op = "create_role" THEN "reload" ELSE "leave") \in Stage
    BY DEF Stage
  <1>6. RequestsTyped'
    BY <1>1, <1>4, <1>5, GoToType DEF RequestsTyped, CommitRole
  <1> QED
    BY <1>3, <1>6, TypeSplitNext

LEMMA ViewType ==
  ASSUME TypeOK, NEW q \in Request
  PROVE  /\ View(q) \in [User -> Account \cup {None}]
         /\ \A u \in User : users[u] # None => View(q)[u] \in Account
  <1>1. CASE write[q] # None /\ write[q].key \in User
    <2>1. write[q].to \in Account
      BY <1>1, RoleAssumption DEF TypeOK, Update
    <2>2. View(q) = [users EXCEPT ![write[q].key] = write[q].to]
      BY <1>1 DEF View
    <2> QED
      BY <2>1, <2>2 DEF TypeOK
  <1>2. CASE ~(write[q] # None /\ write[q].key \in User)
    <2>1. View(q) = users
      BY <1>2 DEF View
    <2> QED
      BY <2>1 DEF TypeOK
  <1> QED
    BY <1>1, <1>2

LEMMA SendInsertType ==
  ASSUME TypeOK, Shape, NEW q \in Request, SendInsert(q) PROVE TypeOK'
  <1>1. /\ pc[q] = "send" /\ job[q].op \in {"create_user", "create_account"}
        /\ job[q] \in Job
    BY DEF SendInsert, Shape, ShapeOf
  <1>2. job[q].user \in User /\ job[q].role \in Role
    BY <1>1 DEF Job, RoleOps
  <1>3. TablesTyped /\ RequestsTyped
    BY TypeSplit
  <1>4. TablesTyped'
    BY <1>3 DEF TablesTyped, SendInsert, tables
  <1>5. CASE users[job[q].user] # None
    BY <1>3, <1>4, <1>5, EndType, TypeSplitNext DEF SendInsert
  <1>6. CASE users[job[q].user] = None
    <2> DEFINE w == [key |-> job[q].user,
                     to |-> [role |-> job[q].role, active |-> TRUE]]
    <2>1. /\ GoTo(q, "commit")
          /\ write' = [write EXCEPT ![q] = w]
          /\ UNCHANGED <<row, seen>>
      BY <1>6 DEF SendInsert
    <2>2. w \in Update
      BY <1>2 DEF Update, Account
    <2>3. "commit" \in Stage
      BY DEF Stage
    <2>4. RequestsTyped'
      BY <1>3, <2>1, <2>2, <2>3, GoToType DEF RequestsTyped
    <2> QED
      BY <1>4, <2>4, TypeSplitNext
  <1> QED
    BY <1>5, <1>6

LEMMA ChangedType ==
  ASSUME TypeOK, Shape, NEW q \in Request, Loaded(q),
         NEW active \in BOOLEAN \cup {None}
  PROVE  Changed(q, active) \in Account /\ job[q].user \in User
  <1>1. /\ row[q] \in Account /\ users[job[q].user] \in Account \ {None}
        /\ job[q] \in Job
    BY DEF Shape, ShapeOf, Loaded
  <1>2. /\ job[q].user \in User
        /\ job[q].role \in Role \cup {None}
    BY <1>1 DEF Loaded, Job, RoleOps
  <1>3. NewRole(q) \in Role
    BY <1>1, <1>2 DEF NewRole, Account
  <1>4. users[job[q].user] # None
    BY <1>1
  <1>5. View(q)[job[q].user] \in Account
    BY <1>2, <1>4, ViewType
  <1> QED
    BY <1>2, <1>3, <1>5 DEF Changed, Account

LEMMA SendUpdateType ==
  ASSUME TypeOK, Shape, NEW q \in Request, Loaded(q),
         NEW active \in BOOLEAN \cup {None}, NEW stage \in Stage,
         SendUpdate(q, active, stage)
  PROVE  TypeOK'
  <1>1. TablesTyped /\ RequestsTyped
    BY TypeSplit
  <1>2. TablesTyped'
    BY <1>1 DEF TablesTyped, SendUpdate, tables
  <1>3. [key |-> job[q].user, to |-> Changed(q, active)] \in Update
    BY ChangedType DEF Update
  <1>4. write' \in [Request -> Update \cup {None}]
    <2>1. \/ write' = write
          \/ write' = [write EXCEPT ![q] =
                 [key |-> job[q].user, to |-> Changed(q, active)]]
      BY Zenon DEF SendUpdate
    <2> QED
      BY <1>1, <1>3, <2>1 DEF RequestsTyped
  <1>5. GoTo(q, stage) /\ UNCHANGED <<row, seen>>
    BY DEF SendUpdate
  <1>6. RequestsTyped'
    BY <1>1, <1>4, <1>5, GoToType DEF RequestsTyped
  <1> QED
    BY <1>2, <1>6, TypeSplitNext

LEMMA CommitUserType ==
  ASSUME TypeOK, NEW q \in Request, CommitUser(q) PROVE TypeOK'
  <1>1. TablesTyped /\ RequestsTyped
    BY TypeSplit
  <1>2. users' \in [User -> Account \cup {None}]
    BY ViewType DEF CommitUser
  <1>3. TablesTyped'
    BY <1>1, <1>2 DEF TablesTyped, CommitUser
  <1>4. RequestsTyped'
    BY <1>1, EndType DEF CommitUser
  <1> QED
    BY <1>3, <1>4, TypeSplitNext

-----------------------------------------------------------------------------
\* The steps that only load.

LEMMA FetchRolesType ==
  ASSUME TypeOK, NEW q \in Request, FetchRoles(q) PROVE TypeOK'
  BY DEF TypeOK, FetchRoles, tables

LEMMA LoadRoleType ==
  ASSUME TypeOK, Shape, NEW q \in Request, LoadRole(q) PROVE TypeOK'
  <1>1. /\ pc[q] = "load" /\ job[q].op \in RoleOps
        /\ job[q] \in Job
    BY DEF LoadRole, Shape, ShapeOf
  <1>2. job[q].slug \in Slug
    BY <1>1 DEF Job, RoleOps
  <1>3. TablesTyped /\ RequestsTyped
    BY TypeSplit
  <1>4. TablesTyped'
    BY <1>3 DEF TablesTyped, LoadRole, tables
  <1>5. CASE End(q)
    BY <1>3, <1>4, <1>5, EndType, TypeSplitNext
  <1>6. CASE ~End(q)
    <2>1. /\ GoTo(q, IF job[q].op = "delete_role" THEN "count" ELSE "send")
          /\ row' = [row EXCEPT ![q] = roles[job[q].slug]]
          /\ UNCHANGED <<seen, write>>
      BY <1>6, Zenon DEF LoadRole
    <2>2. (IF job[q].op = "delete_role" THEN "count" ELSE "send") \in Stage
      BY DEF Stage
    <2>3. roles[job[q].slug] \in Account \cup Custom \cup {None}
      BY <1>2 DEF TypeOK
    <2>4. RequestsTyped'
      BY <1>3, <2>1, <2>2, <2>3, GoToType DEF RequestsTyped
    <2> QED
      BY <1>4, <2>4, TypeSplitNext
  <1> QED
    BY <1>5, <1>6

\* What LoadUser does when it finds the account.
LEMMA LoadUserFound ==
  ASSUME TypeOK, Shape, NEW q \in Request, LoadUser(q), ~End(q)
  PROVE  \E loaded \in Account :
           /\ row' = [row EXCEPT ![q] = loaded]
           /\ users[job[q].user] \in Account \ {None}
           /\ \E stage \in {"assert", "autoflush", "send"} : GoTo(q, stage)
           /\ UNCHANGED <<users, roles, cache, seen, write>>
  <1>1. /\ pc[q] = "load" /\ job[q].op = "assign_user"
        /\ job[q] \in Job
    BY DEF LoadUser, Shape, ShapeOf
  <1>2. job[q].user \in User
    BY <1>1 DEF Job, RoleOps
  <1> DEFINE loaded == IF row[q] # None THEN row[q] ELSE users[job[q].user]
  <1>3. loaded # None
    BY DEF LoadUser
  <1>4. loaded \in Account /\ users[job[q].user] \in Account \ {None}
    <2>1. CASE row[q] # None
      BY <1>1, <2>1 DEF Shape, ShapeOf, Loaded
    <2>2. CASE row[q] = None
      BY <1>2, <1>3, <2>2 DEF TypeOK
    <2> QED
      BY <2>1, <2>2
  <1>5. /\ row' = [row EXCEPT ![q] = loaded]
        /\ GoTo(q, IF job[q].role # None THEN "assert"
                   ELSE RoleChosen(job[q], loaded.role))
        /\ UNCHANGED <<users, roles, cache, seen, write>>
    BY DEF LoadUser, tables
  <1>6. (IF job[q].role # None THEN "assert" ELSE RoleChosen(job[q], loaded.role))
           \in {"assert", "autoflush", "send"}
    BY DEF RoleChosen
  <1> QED
    BY <1>4, <1>5, <1>6

LEMMA LoadUserType ==
  ASSUME TypeOK, Shape, NEW q \in Request, LoadUser(q) PROVE TypeOK'
  <1>1. TablesTyped /\ RequestsTyped
    BY TypeSplit
  <1>2. TablesTyped'
    BY <1>1 DEF TablesTyped, LoadUser, tables
  <1>3. CASE End(q)
    BY <1>1, <1>2, <1>3, EndType, TypeSplitNext
  <1>4. CASE ~End(q)
    <2>1. PICK loaded \in Account,
               stage \in {"assert", "autoflush", "send"} :
            /\ row' = [row EXCEPT ![q] = loaded]
            /\ GoTo(q, stage)
            /\ UNCHANGED <<seen, write>>
      BY <1>4, LoadUserFound
    <2>2. stage \in Stage
      BY DEF Stage
    <2>3. RequestsTyped'
      BY <1>1, <2>1, <2>2, GoToType DEF RequestsTyped
    <2> QED
      BY <1>2, <2>3, TypeSplitNext
  <1> QED
    BY <1>3, <1>4

LEMMA RestartType ==
  ASSUME TypeOK, NEW p \in Replica, Restart(p) PROVE TypeOK'
  <1>1. Registered(roles) \in [Slug -> Custom \cup {None}]
    BY DEF Registered, Custom, Sanitize, TypeOK
  <1>2. "idle" \in Stage
    BY DEF Stage
  <1>3. users' \in [User -> Account \cup {None}]
        /\ roles' \in [Slug -> Custom \cup {None}]
    BY DEF Restart, TypeOK, tables
  <1>4. cache' \in [Replica -> [Slug -> Custom \cup {None}]]
    BY <1>1 DEF Restart, TypeOK
  <1>5. pc' \in [Request -> Stage] /\ at' \in [Request -> Replica \cup {None}]
        /\ by' \in [Request -> Role \cup {None}]
    BY <1>2 DEF Restart, TypeOK
  <1>6. job' \in [Request -> Job \cup {None}]
        /\ row' \in [Request -> Account \cup Custom \cup {None}]
    BY DEF Restart, TypeOK
  <1>7. seen' \in [Request -> [Slug -> Custom \cup {None}] \cup {None}]
        /\ write' \in [Request -> Update \cup {None}]
    BY DEF Restart, TypeOK
  <1> QED
    BY <1>3, <1>4, <1>5, <1>6, <1>7 DEF TypeOK
-----------------------------------------------------------------------------
\* The other requests keep what they have.

OthersKept(q) ==
  \A p \in Request \ {q} :
    /\ pc'[p] = pc[p] /\ at'[p] = at[p] /\ job'[p] = job[p]
    /\ row'[p] = row[p] /\ seen'[p] = seen[p]

AccountsKept ==
  \A u \in User : users[u] \in Account \ {None} => users'[u] \in Account \ {None}

LEMMA ShapeFrame ==
  ASSUME TypeOK, Shape, NEW q \in Request, OthersKept(q), AccountsKept, ShapeOf(q)'
  PROVE  Shape'
  <1> SUFFICES ASSUME NEW p \in Request \ {q} PROVE ShapeOf(p)'
    BY DEF Shape
  <1>1. /\ pc'[p] = pc[p] /\ at'[p] = at[p]
        /\ job'[p] = job[p] /\ row'[p] = row[p] /\ seen'[p] = seen[p]
    BY DEF OthersKept
  <1>2. ShapeOf(p)
    BY DEF Shape
  <1>3. Loaded(p)' <=> Loaded(p)
    BY <1>1 DEF Loaded
  <1>4. ASSUME Loaded(p) PROVE users'[job[p].user] \in Account \ {None}
    <2>1. job[p].op = "assign_user" /\ job[p] \in Job
      BY <1>2, <1>4 DEF Loaded, ShapeOf
    <2>2. job[p].user \in User
      BY <2>1 DEF Job, RoleOps
    <2> QED
      BY <1>2, <1>4, <2>2 DEF AccountsKept, ShapeOf
  <1> QED
    BY <1>1, <1>2, <1>3, <1>4 DEF ShapeOf

LEMMA EndKeeps ==
  ASSUME TypeOK, NEW q \in Request, End(q) PROVE OthersKept(q) /\ ShapeOf(q)'
  <1>1. pc'[q] = "idle"
    BY DEF End, TypeOK
  <1> QED
    BY <1>1 DEF End, TypeOK, OthersKept, ShapeOf, Loaded

\* Between two refreshes a request holds no fetched rows.
LEMMA NothingSeen ==
  ASSUME TypeOK, Shape, NEW q \in Request, pc[q] \notin {"enter", "assert", "leave"},
         seen' = seen
  PROVE  seen' = [seen EXCEPT ![q] = None]
  <1>1. seen[q] = None
    BY DEF Shape, ShapeOf
  <1> QED
    BY <1>1 DEF TypeOK

LEMMA TablesKept == ASSUME UNCHANGED users PROVE AccountsKept
  BY DEF AccountsKept

\* A request that ends keeps the shape.
LEMMA EndShape ==
  ASSUME TypeOK, Shape, NEW q \in Request, End(q), AccountsKept PROVE Shape'
  BY EndKeeps, ShapeFrame

\* A request that goes on to a stage that asks nothing new of it.
LEMMA GoToShape ==
  ASSUME TypeOK, Shape, NEW q \in Request, NEW stage \in Stage,
         GoTo(q, stage), row' = row, AccountsKept, pc[q] # "idle",
         seen' = [seen EXCEPT ![q] = None],
         stage \in {"demote", "autoflush", "deactivate"} => job[q].op = "assign_user",
         stage \in {"count", "reload", "unique"} => job[q].op # "assign_user",
         ( /\ job[q].op = "assign_user"
           /\ stage \in {"enter", "load", "assert", "demote", "autoflush",
                         "deactivate", "send", "commit"}
           /\ stage \in {"enter", "load"} => row[q] # None ) => Loaded(q)
  PROVE  Shape'
  <1>1. OthersKept(q)
    BY DEF GoTo, TypeOK, OthersKept
  <1>2. /\ pc'[q] = stage /\ at'[q] = at[q] /\ job'[q] = job[q]
        /\ row'[q] = row[q] /\ seen'[q] = None
    BY DEF GoTo, TypeOK
  <1>3. ShapeOf(q)
    BY DEF Shape
  <1>4. Loaded(q)' => Loaded(q)
    BY <1>2 DEF Loaded
  <1>5. ASSUME Loaded(q) PROVE users'[job[q].user] \in Account \ {None}
    <2>1. job[q].op = "assign_user" /\ job[q] \in Job
      BY <1>3, <1>5 DEF Loaded, ShapeOf
    <2>2. job[q].user \in User
      BY <2>1 DEF Job, RoleOps
    <2> QED
      BY <1>3, <1>5, <2>2 DEF AccountsKept, ShapeOf
  <1>6. ShapeOf(q)'
    BY <1>2, <1>3, <1>4, <1>5 DEF ShapeOf
  <1> QED
    BY <1>1, <1>6, ShapeFrame
LEMMA GuardedShape ==
  ASSUME TypeOK, Shape, NEW q \in Request, NEW refused, NEW stage \in Stage,
         Guarded(q, refused, stage), pc[q] \notin {"idle", "enter", "assert", "leave"},
         stage \in {"demote", "autoflush", "deactivate", "send", "leave"},
         stage \in {"demote", "autoflush", "deactivate"} => job[q].op = "assign_user",
         job[q].op = "assign_user" => Loaded(q)
  PROVE  Shape'
  <1>1. AccountsKept
    BY TablesKept DEF Guarded, tables
  <1>2. CASE refused
    BY <1>1, <1>2, EndShape DEF Guarded
  <1>3. CASE ~refused
    <2>1. GoTo(q, stage) /\ row' = row
      BY <1>3 DEF Guarded
    <2>2. seen' = [seen EXCEPT ![q] = None]
      BY <1>3, NothingSeen DEF Guarded
    <2> QED
      BY <1>1, <2>1, <2>2, GoToShape
  <1> QED
    BY <1>2, <1>3

LEMMA InitShape == ASSUME Init PROVE Shape
  BY DEF Init, Shape, ShapeOf, Loaded

LEMMA AdmitShape ==
  ASSUME TypeOK, Shape, NEW q \in Request, Admit(q) PROVE Shape'
  <1>1. PICK p \in Replica, a \in User, j \in Payload :
          /\ users[a] # None
          /\ pc' = [pc EXCEPT ![q] = Entry(j)]
          /\ at' = [at EXCEPT ![q] = p]
          /\ job' = [job EXCEPT ![q] = j]
          /\ row' = [row EXCEPT ![q] =
                IF j.op = "assign_user" /\ j.user = a THEN users[a] ELSE None]
    BY DEF Admit
  <1>2. AccountsKept
    BY TablesKept DEF Admit, tables
  <1>3. OthersKept(q)
    BY <1>1 DEF OthersKept, TypeOK, Admit
  <1>4. /\ pc'[q] = Entry(j) /\ at'[q] = p /\ job'[q] = j
        /\ row'[q] = IF j.op = "assign_user" /\ j.user = a THEN users[a] ELSE None
    BY <1>1 DEF TypeOK
  <1>5. j \in Job /\ users[a] \in Account \ {None}
    BY <1>1, RoleAssumption DEF TypeOK
  <1>6. users' = users
    BY DEF Admit, tables
  <1>7. /\ Entry(j) \notin {"demote", "autoflush", "deactivate", "count",
                             "reload", "unique"}
        /\ j.op = "assign_user" => Entry(j) = "enter"
    BY DEF Entry
  <1>8. Loaded(q)' => j.op = "assign_user" /\ row'[q] = users[a] /\ j.user = a
    BY <1>4, <1>7 DEF Loaded
  <1>9. seen'[q] = None
    BY DEF Admit, Shape, ShapeOf
  <1>10. ShapeOf(q)'
    BY <1>4, <1>5, <1>6, <1>7, <1>8, <1>9 DEF ShapeOf
  <1> QED
    BY <1>2, <1>3, <1>10, ShapeFrame

LEMMA RegisterShape ==
  ASSUME TypeOK, Shape, NEW q \in Request, Register(q) PROVE Shape'
  <1>0. pc[q] \in {"enter", "assert", "leave"}
    BY DEF Register, Shape, ShapeOf
  <1>1. AccountsKept
    BY TablesKept DEF Register, tables
  <1>2. CASE Refreshed(q) = "idle"
    BY <1>1, <1>2, EndShape DEF Register
  <1>3. CASE Refreshed(q) # "idle"
    <2>1. /\ GoTo(q, Refreshed(q)) /\ row' = row
          /\ seen' = [seen EXCEPT ![q] = None]
      BY <1>3 DEF Register
    <2>2. /\ Refreshed(q) \in Stage
          /\ Refreshed(q) \in {"load", "demote", "unique", "send"}
          /\ Refreshed(q) = "demote" => job[q].op = "assign_user"
          /\ Refreshed(q) = "unique" => job[q].op = "create_user"
          /\ Refreshed(q) = "load" => pc[q] = "enter"
          /\ Refreshed(q) # "load" => pc[q] = "assert"
      BY <1>0, <1>3 DEF Refreshed, Stage
    <2>3. ( /\ job[q].op = "assign_user"
            /\ Refreshed(q) \in {"load"} => row[q] # None ) => Loaded(q)
      BY <2>2 DEF Loaded
    <2> QED
      BY <1>0, <1>1, <2>1, <2>2, <2>3, GoToShape
  <1> QED
    BY <1>2, <1>3
LEMMA FetchRolesShape ==
  ASSUME TypeOK, Shape, NEW q \in Request, FetchRoles(q) PROVE Shape'
  <1>1. OthersKept(q) /\ AccountsKept
    BY DEF FetchRoles, OthersKept, AccountsKept, TypeOK, tables
  <1>2. ShapeOf(q)
    BY DEF Shape
  <1>3. ShapeOf(q)'
    BY <1>2 DEF FetchRoles, tables, ShapeOf, Loaded
  <1> QED
    BY <1>1, <1>3, ShapeFrame

LEMMA LoadRoleShape ==
  ASSUME TypeOK, Shape, NEW q \in Request, LoadRole(q) PROVE Shape'
  <1>1. AccountsKept
    BY TablesKept DEF LoadRole, tables
  <1>2. CASE End(q)
    BY <1>1, <1>2, EndShape
  <1>3. CASE ~End(q)
    <2>1. /\ GoTo(q, IF job[q].op = "delete_role" THEN "count" ELSE "send")
          /\ row' = [row EXCEPT ![q] = roles[job[q].slug]]
          /\ UNCHANGED seen
      BY <1>3, Zenon DEF LoadRole
    <2>2. OthersKept(q)
      BY <2>1 DEF GoTo, OthersKept, TypeOK
    <2>3. /\ pc[q] = "load" /\ job[q].op \in RoleOps /\ job'[q] = job[q]
          /\ at'[q] = at[q] /\ seen'[q] = seen[q] /\ pc'[q] \in {"count", "send"}
      BY <2>1 DEF LoadRole, GoTo, TypeOK
    <2>4. ShapeOf(q)
      BY DEF Shape
    <2>5. ~Loaded(q)'
      BY <2>3 DEF Loaded, RoleOps
    <2>6. ShapeOf(q)'
      BY <2>3, <2>4, <2>5 DEF ShapeOf, RoleOps
    <2> QED
      BY <1>1, <2>2, <2>6, ShapeFrame
  <1> QED
    BY <1>2, <1>3

LEMMA LoadUserShape ==
  ASSUME TypeOK, Shape, NEW q \in Request, LoadUser(q) PROVE Shape'
  <1>1. AccountsKept
    BY TablesKept DEF LoadUser, tables
  <1>2. CASE End(q)
    BY <1>1, <1>2, EndShape
  <1>3. CASE ~End(q)
    <2>1. PICK loaded \in Account, stage \in {"assert", "autoflush", "send"} :
            /\ row' = [row EXCEPT ![q] = loaded]
            /\ users[job[q].user] \in Account \ {None}
            /\ GoTo(q, stage)
            /\ UNCHANGED <<users, seen>>
      BY <1>3, LoadUserFound
    <2>2. OthersKept(q)
      BY <2>1 DEF GoTo, OthersKept, TypeOK
    <2>3. /\ pc[q] = "load" /\ job[q].op = "assign_user" /\ job'[q] = job[q]
          /\ at'[q] = at[q] /\ seen'[q] = seen[q] /\ pc'[q] = stage
          /\ row'[q] = loaded
      BY <2>1 DEF LoadUser, GoTo, TypeOK
    <2>4. ShapeOf(q)
      BY DEF Shape
    <2>5. ShapeOf(q)'
      BY <2>1, <2>3, <2>4 DEF ShapeOf
    <2> QED
      BY <1>1, <2>2, <2>5, ShapeFrame
  <1> QED
    BY <1>2, <1>3

LEMMA SendRoleShape ==
  ASSUME TypeOK, Shape, NEW q \in Request, SendRole(q) PROVE Shape'
  <1>1. AccountsKept
    BY TablesKept DEF SendRole, tables
  <1>2. CASE End(q)
    BY <1>1, <1>2, EndShape
  <1>3. CASE ~End(q)
    <2>1. GoTo(q, "commit") /\ UNCHANGED <<row, seen>>
      BY <1>3, Zenon DEF SendRole
    <2>2. pc[q] = "send" /\ job[q].op # "assign_user"
      BY DEF SendRole, RoleOps
    <2>3. seen' = [seen EXCEPT ![q] = None]
      BY <2>1, <2>2, NothingSeen
    <2>4. "commit" \in Stage
      BY DEF Stage
    <2> QED
      BY <1>1, <2>1, <2>2, <2>3, <2>4, GoToShape
  <1> QED
    BY <1>2, <1>3

LEMMA SendInsertShape ==
  ASSUME TypeOK, Shape, NEW q \in Request, SendInsert(q) PROVE Shape'
  <1>1. AccountsKept
    BY TablesKept DEF SendInsert, tables
  <1>2. CASE End(q)
    BY <1>1, <1>2, EndShape
  <1>3. CASE ~End(q)
    <2>1. GoTo(q, "commit") /\ UNCHANGED <<row, seen>>
      BY <1>3, Zenon DEF SendInsert
    <2>2. pc[q] = "send" /\ job[q].op # "assign_user"
      BY DEF SendInsert
    <2>3. seen' = [seen EXCEPT ![q] = None]
      BY <2>1, <2>2, NothingSeen
    <2>4. "commit" \in Stage
      BY DEF Stage
    <2> QED
      BY <1>1, <2>1, <2>2, <2>3, <2>4, GoToShape
  <1> QED
    BY <1>2, <1>3

LEMMA SendUpdateShape ==
  ASSUME TypeOK, Shape, NEW q \in Request, Loaded(q), NEW active,
         NEW stage \in {"deactivate", "commit"}, SendUpdate(q, active, stage),
         pc[q] \in {"autoflush", "send"}
  PROVE  Shape'
  <1>1. AccountsKept
    BY TablesKept DEF SendUpdate, tables
  <1>2. GoTo(q, stage) /\ UNCHANGED <<row, seen>>
    BY DEF SendUpdate
  <1>3. seen' = [seen EXCEPT ![q] = None]
    BY <1>2, NothingSeen
  <1>4. stage \in Stage /\ job[q].op = "assign_user"
    BY DEF Stage, Loaded
  <1> QED
    BY <1>1, <1>2, <1>3, <1>4, GoToShape

LEMMA CommitRoleShape ==
  ASSUME TypeOK, Shape, NEW q \in Request, CommitRole(q) PROVE Shape'
  <1>1. AccountsKept
    BY TablesKept DEF CommitRole
  <1>2. PICK stage \in {"reload", "leave"} :
          GoTo(q, stage) /\ UNCHANGED <<row, seen>>
    BY DEF CommitRole
  <1>3. pc[q] = "commit" /\ job[q].op # "assign_user"
    BY DEF CommitRole, RoleOps
  <1>4. seen' = [seen EXCEPT ![q] = None]
    BY <1>2, <1>3, NothingSeen
  <1>5. stage \in Stage
    BY DEF Stage
  <1> QED
    BY <1>1, <1>2, <1>3, <1>4, <1>5, GoToShape

LEMMA CommitUserShape ==
  ASSUME TypeOK, Shape, NEW q \in Request, CommitUser(q) PROVE Shape'
  <1>1. ASSUME NEW u \in User, users[u] \in Account \ {None}
        PROVE  View(q)[u] \in Account \ {None}
    <2>1. CASE write[q] # None /\ write[q].key = u
      <3>1. write[q].to \in Account /\ write[q].to # None
        BY <2>1, RoleAssumption DEF TypeOK, Update
      <3> QED
        BY <2>1, <3>1 DEF View, TypeOK
    <2>2. CASE ~(write[q] # None /\ write[q].key = u)
      BY <1>1, <2>2 DEF View, TypeOK
    <2> QED
      BY <2>1, <2>2
  <1>2. AccountsKept
    BY <1>1 DEF CommitUser, AccountsKept
  <1> QED
    BY <1>2, EndShape DEF CommitUser
LEMMA RestartShape ==
  ASSUME TypeOK, Shape, NEW p \in Replica, Restart(p) PROVE Shape'
  <1> SUFFICES ASSUME NEW q \in Request PROVE ShapeOf(q)'
    BY DEF Shape
  <1>1. users' = users
    BY DEF Restart, tables
  <1>2. CASE at[q] = p
    <2>1. pc'[q] = "idle" /\ seen'[q] = None
      BY <1>2 DEF Restart
    <2> QED
      BY <2>1 DEF ShapeOf, Loaded
  <1>3. CASE at[q] # p
    <2>1. /\ pc'[q] = pc[q] /\ at'[q] = at[q] /\ job'[q] = job[q]
          /\ row'[q] = row[q] /\ seen'[q] = seen[q]
      BY <1>3 DEF Restart
    <2>2. ShapeOf(q)
      BY DEF Shape
    <2> QED
      BY <1>1, <2>1, <2>2 DEF ShapeOf, Loaded
  <1> QED
    BY <1>2, <1>3

\* A step of an open request keeps types and shape.
LEMMA AdvanceShape ==
  ASSUME TypeOK, Shape, NEW q \in Request, Advance(q) PROVE TypeOK' /\ Shape'
  <1>1. CASE FetchRoles(q)
    BY <1>1, FetchRolesType, FetchRolesShape
  <1>2. CASE Register(q)
    BY <1>2, RegisterType, RegisterShape
  <1>3. CASE LoadRole(q)
    BY <1>3, LoadRoleType, LoadRoleShape
  <1>4. CASE CountAssigned(q)
    <2> DEFINE refused == \E u \in User : users[u] # None /\ users[u].role = job[q].slug
    <2>1. pc[q] = "count" /\ Guarded(q, refused, "send")
      BY <1>4 DEF CountAssigned
    <2>2. "send" \in Stage
      BY DEF Stage
    <2> HIDE DEF refused
    <2>3. TypeOK'
      BY <2>1, <2>2, GuardedType
    <2>4. job[q].op # "assign_user"
      BY <2>1 DEF Shape, ShapeOf
    <2>5. Shape'
      BY <2>1, <2>2, <2>4, GuardedShape
    <2> QED
      BY <2>3, <2>5
  <1>5. CASE SendRole(q)
    BY <1>5, SendRoleType, SendRoleShape
  <1>6. CASE CommitRole(q)
    BY <1>6, CommitRoleType, CommitRoleShape
  <1>7. CASE Reload(q)
    <2> DEFINE refused == roles[job[q].slug] = None
    <2>1. pc[q] = "reload" /\ Guarded(q, refused, "leave")
      BY <1>7 DEF Reload
    <2>2. "leave" \in Stage
      BY DEF Stage
    <2> HIDE DEF refused
    <2>3. TypeOK'
      BY <2>1, <2>2, GuardedType
    <2>4. job[q].op # "assign_user"
      BY <2>1 DEF Shape, ShapeOf
    <2>5. Shape'
      BY <2>1, <2>2, <2>4, GuardedShape
    <2> QED
      BY <2>3, <2>5
  <1>8. CASE CheckUnique(q)
    <2> DEFINE refused == users[job[q].user] # None
    <2>1. pc[q] = "unique" /\ Guarded(q, refused, "send")
      BY <1>8 DEF CheckUnique
    <2>2. "send" \in Stage
      BY DEF Stage
    <2> HIDE DEF refused
    <2>3. TypeOK'
      BY <2>1, <2>2, GuardedType
    <2>4. job[q].op # "assign_user"
      BY <2>1 DEF Shape, ShapeOf
    <2>5. Shape'
      BY <2>1, <2>2, <2>4, GuardedShape
    <2> QED
      BY <2>3, <2>5
  <1>9. CASE SendInsert(q)
    BY <1>9, SendInsertType, SendInsertShape
  <1>10. CASE LoadUser(q)
    BY <1>10, LoadUserType, LoadUserShape
  <1>11. CASE CheckDemote(q)
    <2> DEFINE refused == /\ row[q].role = SuperAdmin
                          /\ job[q].role # SuperAdmin
                          /\ LastOne(q)
               stage == RoleChosen(job[q], job[q].role)
    <2>1. pc[q] = "demote" /\ Guarded(q, refused, stage)
      BY <1>11 DEF CheckDemote
    <2>2. stage \in Stage /\ stage \in {"autoflush", "send"}
      BY DEF Stage, RoleChosen
    <2>3. Loaded(q)
      BY <2>1 DEF Loaded, Shape, ShapeOf
    <2> HIDE DEF refused, stage
    <2>4. TypeOK'
      BY <2>1, <2>2, GuardedType
    <2>5. job[q].op = "assign_user"
      BY <2>3 DEF Loaded
    <2>6. Shape'
      BY <2>1, <2>2, <2>3, <2>5, GuardedShape
    <2> QED
      BY <2>4, <2>6
  <1>12. CASE Autoflush(q)
    <2>1. pc[q] = "autoflush" /\ SendUpdate(q, None, "deactivate")
      BY <1>12 DEF Autoflush
    <2>2. Loaded(q) /\ "deactivate" \in Stage
      BY <2>1 DEF Loaded, Shape, ShapeOf, Stage
    <2> QED
      BY <2>1, <2>2, SendUpdateType, SendUpdateShape
  <1>13. CASE CheckDeactivate(q)
    <2> DEFINE refused == LastOne(q)
    <2>1. pc[q] = "deactivate" /\ Guarded(q, refused, "send")
      BY <1>13 DEF CheckDeactivate
    <2>2. Loaded(q) /\ "send" \in Stage
      BY <2>1 DEF Loaded, Shape, ShapeOf, Stage
    <2> HIDE DEF refused
    <2>3. TypeOK'
      BY <2>1, <2>2, GuardedType
    <2>4. Shape'
      BY <2>1, <2>2, GuardedShape
    <2> QED
      BY <2>3, <2>4
  <1>14. CASE SendAssign(q)
    <2>1. /\ pc[q] = "send" /\ job[q].op = "assign_user"
          /\ SendUpdate(q, job[q].active, "commit")
      BY <1>14 DEF SendAssign
    <2>2. Loaded(q) /\ "commit" \in Stage
      BY <2>1 DEF Loaded, Stage
    <2>3. job[q] \in Job
      BY <2>1 DEF Shape, ShapeOf
    <2>4. job[q].active \in BOOLEAN \cup {None}
      BY <2>1, <2>3 DEF Job, RoleOps
    <2> QED
      BY <2>1, <2>2, <2>4, SendUpdateType, SendUpdateShape
  <1>15. CASE CommitUser(q)
    BY <1>15, CommitUserType, CommitUserShape
  <1> QED
    BY <1>1, <1>2, <1>3, <1>4, <1>5, <1>6, <1>7, <1>8, <1>9, <1>10, <1>11, <1>12,
       <1>13, <1>14, <1>15 DEF Advance
-----------------------------------------------------------------------------
\* No capability gained.

LEMMA RegisteredClean ==
  ASSUME NEW rows, NEW s \in Slug, Registered(rows)[s] # None
  PROVE  Registered(rows)[s].caps \cap SuperOnly = {}
  BY DEF Registered, Sanitize

LEMMA CacheClean ==
  ASSUME TypeOK, Clean, NEW p \in Replica, NEW rows,
         cache' = [cache EXCEPT ![p] = Registered(rows)]
  PROVE  Clean'
  <1> SUFFICES ASSUME NEW o \in Replica, NEW s \in Slug, cache'[o][s] # None
               PROVE  cache'[o][s].caps \cap SuperOnly = {}
    BY DEF Clean
  <1>1. CASE o = p
    <2>1. cache'[o] = Registered(rows)
      BY <1>1 DEF TypeOK
    <2> QED
      BY <2>1, RegisteredClean
  <1>2. CASE o # p
    <2>1. cache'[o] = cache[o]
      BY <1>2 DEF TypeOK
    <2> QED
      BY <2>1 DEF Clean
  <1> QED
    BY <1>1, <1>2

\* Whoever passes require_capability is a super administrator.
LEMMA OnlySuperPasses ==
  ASSUME TypeOK, Clean, NEW p \in Replica, NEW role \in Role, NEW j,
         Required(j) \in CapabilitiesFor(p, role)
  PROVE  role = SuperAdmin
  <1>1. Required(j) \in SuperOnly
    BY RoleAssumption DEF Required
  <1>2. CASE role \in Staff
    BY <1>1, <1>2, RoleAssumption DEF CapabilitiesFor
  <1>3. CASE role \in Slug
    <2>1. role # SuperAdmin /\ role \notin Staff
      BY <1>3, RoleAssumption DEF Builtin
    <2>2. CASE cache[p][role] = None
      BY <2>1, <2>2 DEF CapabilitiesFor
    <2>3. CASE cache[p][role] # None
      <3>1. Required(j) \in cache[p][role].caps
        BY <2>1, <2>3 DEF CapabilitiesFor
      <3> QED
        BY <1>1, <1>3, <2>3, <3>1 DEF Clean
    <2> QED
      BY <2>2, <2>3
  <1> QED
    BY <1>2, <1>3 DEF Role, Builtin

\* Steps that leave the caches alone keep them clean, and no step but Admit
\* gives a request an actor.
LEMMA ActorsKept ==
  ASSUME TypeOK, OnlySuperAdminsAct, NEW q \in Request,
         \/ by' = by
         \/ by' = [by EXCEPT ![q] = None]
  PROVE  OnlySuperAdminsAct'
  BY DEF TypeOK, OnlySuperAdminsAct

LEMMA AdvanceFrame ==
  ASSUME NEW q \in Request, Advance(q)
  PROVE  /\ by' = by \/ by' = [by EXCEPT ![q] = None]
         /\ cache' = cache \/ Register(q)
  <1>1. CASE FetchRoles(q)
    BY <1>1 DEF FetchRoles
  <1>2. CASE Register(q)
    BY <1>2 DEF Register, End, GoTo
  <1>3. CASE LoadRole(q)
    BY <1>3 DEF LoadRole, End, GoTo
  <1>4. CASE CountAssigned(q)
    BY <1>4 DEF CountAssigned, Guarded, End, GoTo
  <1>5. CASE SendRole(q)
    BY <1>5, Zenon DEF SendRole, End, GoTo
  <1>6. CASE CommitRole(q)
    BY <1>6 DEF CommitRole, GoTo
  <1>7. CASE Reload(q)
    BY <1>7 DEF Reload, Guarded, End, GoTo
  <1>8. CASE CheckUnique(q)
    BY <1>8 DEF CheckUnique, Guarded, End, GoTo
  <1>9. CASE SendInsert(q)
    BY <1>9 DEF SendInsert, End, GoTo
  <1>10. CASE LoadUser(q)
    BY <1>10 DEF LoadUser, End, GoTo
  <1>11. CASE CheckDemote(q)
    BY <1>11 DEF CheckDemote, Guarded, End, GoTo
  <1>12. CASE Autoflush(q)
    BY <1>12 DEF Autoflush, SendUpdate, GoTo
  <1>13. CASE CheckDeactivate(q)
    BY <1>13 DEF CheckDeactivate, Guarded, End, GoTo
  <1>14. CASE SendAssign(q)
    BY <1>14 DEF SendAssign, SendUpdate, GoTo
  <1>15. CASE CommitUser(q)
    BY <1>15 DEF CommitUser, End
  <1> QED
    BY <1>1, <1>2, <1>3, <1>4, <1>5, <1>6, <1>7, <1>8, <1>9, <1>10, <1>11, <1>12,
       <1>13, <1>14, <1>15 DEF Advance

LEMMA AdvanceClean ==
  ASSUME IInv, NEW q \in Request, Advance(q) PROVE Clean' /\ OnlySuperAdminsAct'
  <1>1. OnlySuperAdminsAct'
    BY AdvanceFrame, ActorsKept DEF IInv
  <1>2. CASE cache' = cache
    BY <1>1, <1>2 DEF IInv, Clean
  <1>3. CASE Register(q)
    <2>1. at[q] \in Replica
      BY <1>3 DEF IInv, Shape, ShapeOf, Register
    <2> QED
      BY <1>1, <1>3, <2>1, CacheClean DEF IInv, Register
  <1> QED
    BY <1>2, <1>3, AdvanceFrame

LEMMA AdmitClean ==
  ASSUME IInv, NEW q \in Request, Admit(q) PROVE Clean' /\ OnlySuperAdminsAct'
  <1>1. PICK p \in Replica, a \in User, j \in Payload :
          /\ users[a] # None
          /\ Required(j) \in CapabilitiesFor(p, users[a].role)
          /\ by' = [by EXCEPT ![q] = users[a].role]
    BY DEF Admit
  <1>2. users[a].role \in Role
    BY <1>1 DEF IInv, TypeOK, Account
  <1>3. users[a].role = SuperAdmin
    BY <1>1, <1>2, OnlySuperPasses DEF IInv
  <1>4. OnlySuperAdminsAct'
    BY <1>1, <1>3 DEF IInv, TypeOK, OnlySuperAdminsAct
  <1>5. cache' = cache
    BY DEF Admit
  <1> QED
    BY <1>4, <1>5 DEF IInv, Clean

LEMMA IInvInit == Init => IInv
  <1> SUFFICES ASSUME Init PROVE IInv
    OBVIOUS
  <1>1. Clean /\ OnlySuperAdminsAct
    BY DEF Init, Clean, OnlySuperAdminsAct
  <1> QED
    BY <1>1, InitType, InitShape DEF IInv

LEMMA IInvStep == IInv /\ [Next]_vars => IInv'
  <1> SUFFICES ASSUME IInv, [Next]_vars PROVE IInv'
    OBVIOUS
  <1>1. ASSUME NEW q \in Request, Admit(q) PROVE IInv'
    BY <1>1, AdmitType, AdmitShape, AdmitClean DEF IInv
  <1>2. ASSUME NEW q \in Request, Advance(q) PROVE IInv'
    BY <1>2, AdvanceShape, AdvanceClean DEF IInv
  <1>3. ASSUME NEW q \in Request, Fail(q) PROVE IInv'
    <2>1. End(q) /\ UNCHANGED <<users, roles, cache>>
      BY <1>3 DEF Fail, tables
    <2>2. TypeOK'
      BY <2>1, EndType, TypeSplit, TypeSplitNext DEF IInv, TablesTyped
    <2>3. Shape'
      BY <2>1, EndShape, TablesKept DEF IInv
    <2>4. OnlySuperAdminsAct'
      BY <2>1, ActorsKept DEF IInv, End
    <2>5. Clean'
      BY <2>1 DEF IInv, Clean
    <2> QED
      BY <2>2, <2>3, <2>4, <2>5 DEF IInv
  <1>4. ASSUME NEW p \in Replica, Restart(p) PROVE IInv'
    <2>1. TypeOK' /\ Shape'
      BY <1>4, RestartType, RestartShape DEF IInv
    <2>2. Clean'
      BY <1>4, CacheClean DEF IInv, Restart
    <2>3. OnlySuperAdminsAct'
      BY <1>4 DEF IInv, OnlySuperAdminsAct, Restart
    <2> QED
      BY <2>1, <2>2, <2>3 DEF IInv
  <1>5. CASE UNCHANGED vars
    <2>1. TypeOK'
      BY <1>5 DEF IInv, TypeOK, vars
    <2>2. Shape'
      BY <1>5 DEF IInv, Shape, ShapeOf, Loaded, vars
    <2>3. Clean' /\ OnlySuperAdminsAct'
      BY <1>5 DEF IInv, Clean, OnlySuperAdminsAct, vars
    <2> QED
      BY <2>1, <2>2, <2>3 DEF IInv
  <1> QED
    BY <1>1, <1>2, <1>3, <1>4, <1>5 DEF Next

LEMMA Invariance == Spec => []IInv
  BY IInvInit, IInvStep, PTL DEF Spec

\* Every table, cache and request keeps its type, whatever the payloads and
\* however many requests and replicas there are.
THEOREM TypeCorrect == Spec => []TypeOK
  <1>1. IInv => TypeOK
    BY DEF IInv
  <1> QED
    BY <1>1, Invariance, PTL

\* No sequence of role edits, assignments, stale caches, failures and restarts
\* lets anybody but a super administrator through require_capability
\* (core/policy.py:91-140).
THEOREM OnlySuperAdminsActHolds == Spec => []OnlySuperAdminsAct
  <1>1. IInv => OnlySuperAdminsAct
    BY DEF IInv
  <1> QED
    BY <1>1, Invariance, PTL

-----------------------------------------------------------------------------
\* What a request has written and not committed: the row is its own until it
\* ends, and is_active in it is what the table holds or what it was asked for.

PendingOf(q) ==
  write[q] # None /\ write[q].key \in User =>
    /\ pc[q] \in {"deactivate", "send", "commit"} /\ job[q].op \in UserOps
    /\ job[q].user = write[q].key
    /\ IF job[q].op = "assign_user"
         THEN \/ write[q].to.active = users[write[q].key].active
              \/ pc[q] = "commit" /\ write[q].to.active = job[q].active
         ELSE pc[q] = "commit" /\ users[write[q].key] = None

OneWriter ==
  \A p, q \in Request :
    write[p] # None /\ write[q] # None /\ write[p].key = write[q].key => p = q

Pending == OneWriter /\ \A q \in Request : PendingOf(q)

\* One request moves and no account is committed.
LEMMA PendingFrame ==
  ASSUME Pending, NEW q \in Request, users' = users,
         \A p \in Request \ {q} :
           pc'[p] = pc[p] /\ job'[p] = job[p] /\ write'[p] = write[p],
         PendingOf(q)',
         write'[q] # None => RowFree(q, write'[q].key)
  PROVE  Pending'
  <1>1. ASSUME NEW p \in Request \ {q} PROVE PendingOf(p)'
    <2>1. PendingOf(p)
      BY DEF Pending
    <2>2. pc'[p] = pc[p] /\ job'[p] = job[p] /\ write'[p] = write[p]
      OBVIOUS
    <2> QED
      BY <2>1, <2>2 DEF PendingOf
  <1>2. OneWriter'
    BY DEF Pending, OneWriter, RowFree
  <1> QED
    BY <1>1, <1>2 DEF Pending

LEMMA PendingEnd ==
  ASSUME TypeOK, Pending, NEW q \in Request, End(q), users' = users
  PROVE  Pending'
  <1>1. /\ write'[q] = None
        /\ \A p \in Request \ {q} :
             pc'[p] = pc[p] /\ job'[p] = job[p] /\ write'[p] = write[p]
    BY DEF End, TypeOK
  <1>2. PendingOf(q)'
    BY <1>1 DEF PendingOf
  <1> QED
    BY <1>1, <1>2, PendingFrame

\* Nobody else writes the row a request has written.
LEMMA OwnRow ==
  ASSUME Pending, NEW q \in Request, write[q] # None
  PROVE  RowFree(q, write[q].key)
  BY DEF Pending, OneWriter, RowFree

LEMMA PendingGoTo ==
  ASSUME TypeOK, Pending, NEW q \in Request, NEW stage, GoTo(q, stage),
         users' = users, write' = write,
         \/ pc[q] \notin {"deactivate", "send", "commit"}
         \/ pc[q] = "deactivate" /\ stage = "send"
  PROVE  Pending'
  <1>1. /\ pc'[q] = stage
        /\ \A p \in Request \ {q} : pc'[p] = pc[p]
        /\ job' = job
    BY DEF GoTo, TypeOK
  <1>2. PendingOf(q)
    BY DEF Pending
  <1>3. PendingOf(q)'
    BY <1>1, <1>2 DEF PendingOf
  <1> QED
    BY <1>1, <1>3, OwnRow, PendingFrame

LEMMA PendingGuarded ==
  ASSUME TypeOK, Pending, NEW q \in Request, NEW refused, NEW stage,
         Guarded(q, refused, stage),
         \/ pc[q] \notin {"deactivate", "send", "commit"}
         \/ pc[q] = "deactivate" /\ stage = "send"
  PROVE  Pending'
  <1>1. users' = users
    BY DEF Guarded, tables
  <1>2. CASE refused
    BY <1>1, <1>2, PendingEnd DEF Guarded
  <1>3. CASE ~refused
    BY <1>1, <1>3, PendingGoTo DEF Guarded
  <1> QED
    BY <1>2, <1>3

LEMMA SendRolePending ==
  ASSUME TypeOK, Shape, Pending, NEW q \in Request, SendRole(q) PROVE Pending'
  <1>1. users' = users
    BY DEF SendRole, tables
  <1>2. job[q].slug \in Slug
    BY DEF SendRole, Shape, ShapeOf, Job, RoleOps
  <1>3. CASE End(q)
    BY <1>1, <1>3, PendingEnd
  <1>4. CASE ~End(q)
    <2>1. PICK w : /\ GoTo(q, "commit")
                   /\ write' = [write EXCEPT ![q] = w]
                   /\ w # None => w.key = job[q].slug /\ RowFree(q, job[q].slug)
      <3>1. \A to : [key |-> job[q].slug, to |-> to].key = job[q].slug
        OBVIOUS
      <3> QED
        BY <1>4, <3>1, Zenon DEF SendRole
    <2>2. /\ write'[q] = w
          /\ \A p \in Request \ {q} :
               pc'[p] = pc[p] /\ job'[p] = job[p] /\ write'[p] = write[p]
      BY <2>1 DEF GoTo, TypeOK
    <2>3. PendingOf(q)'
      BY <1>2, <2>1, <2>2, RoleAssumption DEF PendingOf
    <2> QED
      BY <1>1, <2>1, <2>2, <2>3, PendingFrame
  <1> QED
    BY <1>3, <1>4

LEMMA SendInsertPending ==
  ASSUME TypeOK, Shape, Pending, NEW q \in Request, SendInsert(q) PROVE Pending'
  <1>1. users' = users
    BY DEF SendInsert, tables
  <1>2. CASE users[job[q].user] # None
    BY <1>1, <1>2, PendingEnd DEF SendInsert
  <1>3. CASE users[job[q].user] = None
    <2> DEFINE w == [key |-> job[q].user,
                     to |-> [role |-> job[q].role, active |-> TRUE]]
    <2>1. /\ GoTo(q, "commit") /\ write' = [write EXCEPT ![q] = w]
          /\ RowFree(q, job[q].user)
      BY <1>3 DEF SendInsert
    <2>2. /\ write'[q] = w /\ w.key = job[q].user
          /\ pc'[q] = "commit" /\ job' = job
          /\ \A p \in Request \ {q} :
               pc'[p] = pc[p] /\ job'[p] = job[p] /\ write'[p] = write[p]
      BY <2>1 DEF GoTo, TypeOK
    <2>3. job[q].op \in {"create_user", "create_account"}
      BY DEF SendInsert
    <2> HIDE DEF w
    <2>4. PendingOf(q)'
      BY <1>1, <1>3, <2>2, <2>3 DEF PendingOf, UserOps
    <2> QED
      BY <1>1, <2>1, <2>2, <2>4, PendingFrame
  <1> QED
    BY <1>2, <1>3

\* The UPDATE writes the is_active the table holds, or the one asked for.
LEMMA ChangedActive ==
  ASSUME TypeOK, Shape, Pending, NEW q \in Request, Loaded(q),
         pc[q] \in {"autoflush", "send"}, NEW active
  PROVE  \/ Changed(q, active).active = users[job[q].user].active
         \/ active # None /\ Changed(q, active).active = active
  <1>1. PendingOf(q) /\ job[q].op = "assign_user"
    BY DEF Pending, Loaded
  <1>2. job[q] \in Job
    BY DEF Shape, ShapeOf, Loaded
  <1>3. job[q].user \in User
    BY <1>1, <1>2 DEF Job, RoleOps
  <1>4. View(q)[job[q].user].active = users[job[q].user].active
    <2>1. CASE write[q] # None /\ write[q].key \in User
      <3>1. write[q].key = job[q].user /\ write[q].to.active = users[job[q].user].active
        BY <1>1, <2>1 DEF PendingOf
      <3> QED
        BY <1>3, <2>1, <3>1 DEF View, TypeOK
    <2>2. CASE ~(write[q] # None /\ write[q].key \in User)
      BY <2>2 DEF View
    <2> QED
      BY <2>1, <2>2
  <1> QED
    BY <1>4 DEF Changed

LEMMA SendUpdatePending ==
  ASSUME TypeOK, Shape, Pending, NEW q \in Request, Loaded(q), NEW active, NEW stage,
         SendUpdate(q, active, stage),
         \/ pc[q] = "autoflush" /\ stage = "deactivate" /\ active = None
         \/ pc[q] = "send" /\ stage = "commit" /\ active = job[q].active
  PROVE  Pending'
  <1> DEFINE w == [key |-> job[q].user, to |-> Changed(q, active)]
  <1>1. users' = users /\ GoTo(q, stage)
    BY DEF SendUpdate, tables
  <1>2. /\ pc'[q] = stage /\ job' = job
        /\ \A p \in Request \ {q} : pc'[p] = pc[p] /\ job'[p] = job[p]
    BY <1>1 DEF GoTo, TypeOK
  <1>3. PendingOf(q) /\ job[q].op = "assign_user"
    BY DEF Pending, Loaded
  <1>4. CASE write' = write
    <2>1. PendingOf(q)'
      BY <1>1, <1>2, <1>3, <1>4 DEF PendingOf
    <2> QED
      BY <1>1, <1>2, <1>4, <2>1, OwnRow, PendingFrame
  <1>5. CASE RowFree(q, job[q].user) /\ write' = [write EXCEPT ![q] = w]
    <2>1. /\ write'[q] = w /\ w.key = job[q].user /\ w.to = Changed(q, active)
          /\ \A p \in Request \ {q} : write'[p] = write[p]
      BY <1>5 DEF TypeOK
    <2>2. \/ w.to.active = users[job[q].user].active
          \/ active # None /\ w.to.active = active
      BY <2>1, ChangedActive
    <2> HIDE DEF w
    <2>3. PendingOf(q)'
      BY <1>1, <1>2, <1>3, <2>1, <2>2 DEF PendingOf, UserOps
    <2> QED
      BY <1>1, <1>2, <1>5, <2>1, <2>3, PendingFrame
  <1> QED
    BY <1>4, <1>5, Zenon DEF SendUpdate

LEMMA CommitUserPending ==
  ASSUME TypeOK, Pending, NEW q \in Request, CommitUser(q) PROVE Pending'
  <1>1. /\ users' = View(q) /\ write'[q] = None
        /\ \A p \in Request \ {q} :
             pc'[p] = pc[p] /\ job'[p] = job[p] /\ write'[p] = write[p]
    BY DEF CommitUser, End, TypeOK
  <1>2. ASSUME NEW p \in Request \ {q}, write[p] # None, write[p].key \in User
        PROVE  users'[write[p].key] = users[write[p].key]
    <2>1. write[q] # None => write[q].key # write[p].key
      BY <1>2 DEF Pending, OneWriter
    <2> QED
      BY <1>1, <1>2, <2>1 DEF View, TypeOK
  <1>3. ASSUME NEW p \in Request PROVE PendingOf(p)'
    <2>1. CASE p = q
      BY <1>1, <2>1 DEF PendingOf
    <2>2. CASE p # q
      <3>1. /\ PendingOf(p)
            /\ pc'[p] = pc[p] /\ job'[p] = job[p] /\ write'[p] = write[p]
        BY <1>1, <2>2 DEF Pending
      <3> QED
        BY <1>2, <2>2, <3>1 DEF PendingOf
    <2> QED
      BY <2>1, <2>2
  <1>4. OneWriter'
    BY <1>1 DEF Pending, OneWriter
  <1> QED
    BY <1>3, <1>4 DEF Pending

LEMMA AdvancePending ==
  ASSUME TypeOK, Shape, Pending, NEW q \in Request, Advance(q) PROVE Pending'
  <1>1. CASE FetchRoles(q)
    BY <1>1 DEF FetchRoles, tables, Pending, PendingOf, OneWriter
  <1>2. CASE Register(q)
    <2>1. pc[q] \in {"enter", "assert", "leave"} /\ users' = users
      BY <1>2 DEF Register, Shape, ShapeOf, tables
    <2> QED
      BY <1>2, <2>1, PendingEnd, PendingGoTo DEF Register
  <1>3. CASE LoadRole(q)
    <2>1. pc[q] = "load" /\ users' = users
      BY <1>3 DEF LoadRole, tables
    <2>2. End(q) \/ \E stage \in Stage : GoTo(q, stage) /\ write' = write
      BY <1>3, Zenon DEF LoadRole, Stage
    <2> QED
      BY <2>1, <2>2, PendingEnd, PendingGoTo
  <1>4. CASE CountAssigned(q)
    BY <1>4, PendingGuarded DEF CountAssigned
  <1>5. CASE SendRole(q)
    BY <1>5, SendRolePending
  <1>6. CASE CommitRole(q)
    <2>1. /\ users' = users /\ write'[q] = None
          /\ \A p \in Request \ {q} :
               pc'[p] = pc[p] /\ job'[p] = job[p] /\ write'[p] = write[p]
      BY <1>6 DEF CommitRole, GoTo, TypeOK
    <2>2. PendingOf(q)'
      BY <2>1 DEF PendingOf
    <2> QED
      BY <2>1, <2>2, PendingFrame
  <1>7. CASE Reload(q)
    BY <1>7, PendingGuarded DEF Reload
  <1>8. CASE CheckUnique(q)
    BY <1>8, PendingGuarded DEF CheckUnique
  <1>9. CASE SendInsert(q)
    BY <1>9, SendInsertPending
  <1>10. CASE LoadUser(q)
    <2>1. pc[q] = "load" /\ users' = users
      BY <1>10 DEF LoadUser, tables
    <2>2. ~End(q) => write' = write /\ \E stage : GoTo(q, stage)
      BY <1>10, LoadUserFound
    <2> QED
      BY <2>1, <2>2, PendingEnd, PendingGoTo
  <1>11. CASE CheckDemote(q)
    BY <1>11, PendingGuarded DEF CheckDemote
  <1>12. CASE Autoflush(q)
    <2>1. pc[q] = "autoflush" /\ SendUpdate(q, None, "deactivate")
      BY <1>12 DEF Autoflush
    <2>2. Loaded(q)
      BY <2>1 DEF Loaded, Shape, ShapeOf
    <2> QED
      BY <2>1, <2>2, SendUpdatePending
  <1>13. CASE CheckDeactivate(q)
    BY <1>13, PendingGuarded DEF CheckDeactivate
  <1>14. CASE SendAssign(q)
    <2>1. Loaded(q)
      BY <1>14 DEF SendAssign, Loaded
    <2> QED
      BY <1>14, <2>1, SendUpdatePending DEF SendAssign
  <1>15. CASE CommitUser(q)
    BY <1>15, CommitUserPending
  <1> QED
    BY <1>1, <1>2, <1>3, <1>4, <1>5, <1>6, <1>7, <1>8, <1>9, <1>10, <1>11, <1>12,
       <1>13, <1>14, <1>15 DEF Advance

LEMMA PendingStep == IInv /\ Pending /\ [Next]_vars => Pending'
  <1> SUFFICES ASSUME TypeOK, Shape, Pending, [Next]_vars PROVE Pending'
    BY DEF IInv
  <1>1. ASSUME NEW q \in Request, Admit(q) PROVE Pending'
    <2>1. /\ users' = users /\ write' = write /\ pc[q] = "idle"
          /\ \A p \in Request \ {q} : pc'[p] = pc[p] /\ job'[p] = job[p]
      BY <1>1 DEF Admit, tables, TypeOK
    <2>2. PendingOf(q)'
      BY <2>1 DEF Pending, PendingOf
    <2> QED
      BY <2>1, <2>2, OwnRow, PendingFrame
  <1>2. ASSUME NEW q \in Request, Advance(q) PROVE Pending'
    BY <1>2, AdvancePending
  <1>3. ASSUME NEW q \in Request, Fail(q) PROVE Pending'
    BY <1>3, PendingEnd DEF Fail, tables
  <1>4. ASSUME NEW p \in Replica, Restart(p) PROVE Pending'
    <2>1. /\ users' = users
          /\ \A q \in Request :
               IF at[q] = p THEN write'[q] = None
               ELSE pc'[q] = pc[q] /\ job'[q] = job[q] /\ write'[q] = write[q]
      BY <1>4 DEF Restart, tables
    <2>2. ASSUME NEW q \in Request PROVE PendingOf(q)'
      <3>1. PendingOf(q)
        BY DEF Pending
      <3> QED
        BY <2>1, <3>1 DEF PendingOf
    <2>3. OneWriter'
      BY <2>1 DEF Pending, OneWriter
    <2> QED
      BY <2>2, <2>3 DEF Pending
  <1>5. CASE UNCHANGED vars
    BY <1>5 DEF vars, Pending, PendingOf, OneWriter
  <1> QED
    BY <1>1, <1>2, <1>3, <1>4, <1>5 DEF Next

\* Only the commit of an account changes the table of accounts.
LEMMA OnlyCommitsWrite ==
  ASSUME [Next]_vars, users' # users
  PROVE  \E q \in Request : CommitUser(q)
  <1>1. ASSUME NEW q \in Request, Advance(q), ~CommitUser(q) PROVE users' = users
    BY <1>1 DEF Advance, FetchRoles, Register, LoadRole, CountAssigned, SendRole,
       CommitRole, Reload, CheckUnique, SendInsert, LoadUser, CheckDemote, Autoflush,
       CheckDeactivate, SendAssign, SendUpdate, Guarded, tables
  <1> QED
    BY <1>1 DEF Next, Admit, Fail, Restart, vars, tables

\* assign_user (api/admin.py:399-441) writes is_active only when it was asked
\* to: no role change, however it overlaps with a deactivation, undoes it, for
\* any number of accounts, requests and replicas.
THEOREM DeactivationKeptHolds == Spec => DeactivationKept
  <1> DEFINE Kept == \A u \in User :
       users[u] # None /\ users'[u] # users[u] /\ users'[u].active # users[u].active
         => \E q \in Request : /\ pc[q] = "commit" /\ job[q].op = "assign_user"
                               /\ job[q].user = u
                               /\ job[q].active = users'[u].active
  <1>1. Init => Pending
    BY DEF Init, Pending, PendingOf, OneWriter
  <1>2. IInv /\ Pending /\ [Next]_vars => [Kept]_vars
    <2> SUFFICES ASSUME TypeOK, Pending, [Next]_vars, NEW u \in User,
                        users[u] # None, users'[u] # users[u],
                        users'[u].active # users[u].active
                 PROVE  \E q \in Request : /\ pc[q] = "commit" /\ job[q].op = "assign_user"
                                           /\ job[q].user = u
                                           /\ job[q].active = users'[u].active
      BY DEF IInv
    <2>1. PICK q \in Request : CommitUser(q)
      BY OnlyCommitsWrite
    <2>2. users' = View(q) /\ pc[q] = "commit"
      BY <2>1 DEF CommitUser
    <2>3. write[q] # None /\ write[q].key = u /\ users'[u] = write[q].to
      BY <2>2 DEF View, TypeOK
    <2>4. PendingOf(q)
      BY DEF Pending
    <2>5. job[q].op = "assign_user" /\ job[q].user = u /\ job[q].active = users'[u].active
      BY <2>3, <2>4 DEF PendingOf
    <2> QED
      BY <2>2, <2>5
  <1>3. IInv /\ Pending /\ [Next]_vars => Pending'
    BY PendingStep
  <1> QED
    BY <1>1, <1>2, <1>3, Invariance, PTL DEF Spec, DeactivationKept
=============================================================================
