----------------------------- MODULE RoleAdmin -----------------------------
(***************************************************************************)
(* The super administrator's endpoints (api/admin.py, create_user of       *)
(* api/auth.py): requests of several replicas on the tables users and      *)
(* roles, and the copy of the custom roles every replica keeps in memory   *)
(* (core/policy.py).  A step ends at an await: one database statement and  *)
(* the code up to the next.  Transactions are READ COMMITTED; a statement  *)
(* that writes a row waits while another open transaction has written it.  *)
(*                                                                         *)
(* An account is its role and is_active, a custom role its capabilities.   *)
(* Names, departments, e-mail addresses and the built-in rows of roles,    *)
(* which no request changes, are left out; so are requests that are        *)
(* refused by the payload alone.                                           *)
(***************************************************************************)
EXTENDS Integers, FiniteSets

CONSTANTS
  Replica,        \* backend processes
  Request,        \* requests that may be open at once
  User,           \* accounts, existing or yet to be created
  Slug,           \* ids of custom roles
  Staff,          \* the built-in roles below super administrator
  Capability,     \* what a role may allow
  SuperOnly,      \* capabilities no custom role may have
  Payload,        \* the requests made, see Job
  Accounts,       \* the accounts at the start
  DatabaseFails,  \* may a request fail half-way, or a replica restart?
  None

SuperAdmin == "system_admin"
ManageRoles == "manage_roles"
CreateUser == "create_user"
Builtin == Staff \cup {SuperAdmin}
Role == Builtin \cup Slug

\* A row of users and a row of roles.
Account == [role : Role, active : BOOLEAN]
Custom == [caps : SUBSET Capability]

UserOps == {"create_user", "create_account", "assign_user"}
RoleOps == {"create_role", "update_role", "delete_role"}

\* A request: "list" stands for the reads that refresh the cache.  Fields an
\* operation does not take, and optional ones left out, are None.
Job == [op : {"list"}]
       \cup [op : RoleOps, slug : Slug, caps : SUBSET Capability]
       \cup [op : {"create_user", "create_account"}, user : User, role : Role]
       \cup [op : {"assign_user"}, user : User, role : Role \cup {None},
             active : BOOLEAN \cup {None}]

ASSUME RoleAssumption ==
  /\ SuperOnly \subseteq Capability /\ {ManageRoles, CreateUser} \subseteq SuperOnly
  /\ None \notin User \cup Role \cup Account
  /\ Slug \cap Builtin = {} /\ SuperAdmin \notin Staff /\ User \cap Slug = {}
  /\ Payload \subseteq Job
  /\ Accounts \in [User -> Account \cup {None}]
  /\ DatabaseFails \in BOOLEAN

VARIABLES
  users,   \* committed accounts
  roles,   \* committed custom roles
  cache,   \* per replica: _custom_caps
  pc,      \* per request: the statement it sends next
  at,      \* per request: the replica that serves it
  by,      \* per request: the actor's role when it was let in
  job,     \* per request: its payload
  row,     \* per request: the row it loaded
  seen,    \* per request: the rows refresh_role_cache fetched
  write    \* per request: the row it has written and not committed

vars == <<users, roles, cache, pc, at, by, job, row, seen, write>>
tables == <<users, roles>>

Stage == {"idle", "enter", "load", "assert", "unique", "demote", "autoflush",
          "deactivate", "count", "send", "commit", "reload", "leave"}

Update == [key : User, to : Account] \cup [key : Slug, to : Custom \cup {None}]

TypeOK ==
  /\ users \in [User -> Account \cup {None}]
  /\ roles \in [Slug -> Custom \cup {None}]
  /\ cache \in [Replica -> [Slug -> Custom \cup {None}]]
  /\ pc \in [Request -> Stage]
  /\ at \in [Request -> Replica \cup {None}]
  /\ by \in [Request -> Role \cup {None}]
  /\ job \in [Request -> Job \cup {None}]
  /\ row \in [Request -> Account \cup Custom \cup {None}]
  /\ seen \in [Request -> [Slug -> Custom \cup {None}] \cup {None}]
  /\ write \in [Request -> Update \cup {None}]

-----------------------------------------------------------------------------
(* Policy                                                                  *)

\* Mutant of Sanitize: sanitize_caps lets privileged capabilities through.
SanitizeNothing(caps) == caps

\* sanitize_caps with allow_privileged left at its default.
Sanitize(caps) == caps \ SuperOnly

\* register_custom_roles: the cache made of the fetched rows.
Registered(rows) ==
  [s \in Slug |-> IF rows[s] = None THEN None
                   ELSE [caps |-> Sanitize(rows[s].caps)]]

\* capabilities_for; the built-in tables grant no SuperOnly capability.
CapabilitiesFor(p, role) ==
  IF role = SuperAdmin THEN Capability
  ELSE IF role \in Staff THEN Capability \ SuperOnly
  ELSE IF cache[p][role] = None THEN {} ELSE cache[p][role].caps

Known(rows) == Builtin \cup {s \in Slug : rows[s] # None}

\* What a transaction reads: committed rows, under its own write.
View(q) ==
  IF write[q] # None /\ write[q].key \in User
    THEN [users EXCEPT ![write[q].key] = write[q].to] ELSE users

ActiveSuperAdmins(table) ==
  {u \in User : table[u] # None /\ table[u].role = SuperAdmin /\ table[u].active}

\* _active_super_admins(db) <= 1
LastOne(q) == Cardinality(ActiveSuperAdmins(View(q))) <= 1

RowFree(q, key) ==
  \A p \in Request \ {q} : write[p] # None => write[p].key # key

-----------------------------------------------------------------------------
(* Requests                                                                *)

\* Mutant of End: An error leaves the session, and with it the transaction, open.
EndOpen(q) ==
  /\ pc' = [pc EXCEPT ![q] = "idle"]
  /\ at' = [at EXCEPT ![q] = None]
  /\ by' = [by EXCEPT ![q] = None]
  /\ job' = [job EXCEPT ![q] = None]
  /\ row' = [row EXCEPT ![q] = None]
  /\ seen' = [seen EXCEPT ![q] = None]
  /\ UNCHANGED write

\* The request is over; its transaction, if still open, is rolled back.
End(q) ==
  /\ pc' = [pc EXCEPT ![q] = "idle"]
  /\ at' = [at EXCEPT ![q] = None]
  /\ by' = [by EXCEPT ![q] = None]
  /\ job' = [job EXCEPT ![q] = None]
  /\ row' = [row EXCEPT ![q] = None]
  /\ seen' = [seen EXCEPT ![q] = None]
  /\ write' = [write EXCEPT ![q] = None]

GoTo(q, stage) ==
  /\ pc' = [pc EXCEPT ![q] = stage]
  /\ UNCHANGED <<at, by, job>>

\* The stage a request starts at.
Entry(j) ==
  CASE j.op = "list" -> "leave"
    [] j.op = "assign_user" -> "enter"
    [] j.op \in {"create_user", "create_account"} -> "assert"
    [] OTHER -> "load"

\* The capability a route asks for.
Required(j) == IF j.op = "create_account" THEN CreateUser ELSE ManageRoles

\* get_current_user and require_capability.  The session keeps the actor's
\* row: an administrator who edits the own account gets that copy back.
Admit(q) ==
  /\ pc[q] = "idle"
  /\ \E p \in Replica, a \in User, j \in Payload :
       /\ users[a] # None /\ users[a].active
       /\ Required(j) \in CapabilitiesFor(p, users[a].role)
       /\ pc' = [pc EXCEPT ![q] = Entry(j)]
       /\ at' = [at EXCEPT ![q] = p]
       /\ by' = [by EXCEPT ![q] = users[a].role]
       /\ job' = [job EXCEPT ![q] = j]
       /\ row' = [row EXCEPT ![q] =
                    IF j.op = "assign_user" /\ j.user = a THEN users[a] ELSE None]
  /\ UNCHANGED <<tables, cache, seen, write>>

\* refresh_role_cache, the SELECT.
FetchRoles(q) ==
  /\ pc[q] \in {"enter", "assert", "leave"} /\ seen[q] = None
  /\ seen' = [seen EXCEPT ![q] = roles]
  /\ UNCHANGED <<tables, cache, pc, at, by, job, row, write>>

\* What follows a refresh: the handler's next statement, its answer, or the
\* refusal of an unknown role (_assert_role_exists).
Refreshed(q) ==
  LET AfterAssert ==
        CASE job[q].op = "assign_user" -> "demote"
          [] job[q].op = "create_user" -> "unique"
          [] OTHER -> "send"
  IN CASE pc[q] = "enter" -> "load"
       [] pc[q] = "assert" /\ job[q].role \in Known(seen[q]) -> AfterAssert
       [] OTHER -> "idle"

\* refresh_role_cache, from the answer to the next await.
Register(q) ==
  /\ seen[q] # None
  /\ cache' = [cache EXCEPT ![at[q]] = Registered(seen[q])]
  /\ IF Refreshed(q) = "idle"
       THEN End(q)
       ELSE /\ GoTo(q, Refreshed(q))
            /\ seen' = [seen EXCEPT ![q] = None]
            /\ UNCHANGED <<row, write>>
  /\ UNCHANGED tables

\* A step that answers with an error if refused and else goes on to stage.
Guarded(q, refused, stage) ==
  /\ IF refused THEN End(q)
     ELSE GoTo(q, stage) /\ UNCHANGED <<row, seen, write>>
  /\ UNCHANGED <<tables, cache>>

-----------------------------------------------------------------------------
(* Roles                                                                   *)

LoadRole(q) ==
  /\ pc[q] = "load" /\ job[q].op \in RoleOps
  /\ LET found == roles[job[q].slug] # None
     IN IF found = (job[q].op = "create_role")
          THEN End(q)
          ELSE /\ GoTo(q, IF job[q].op = "delete_role" THEN "count" ELSE "send")
               /\ row' = [row EXCEPT ![q] = roles[job[q].slug]]
               /\ UNCHANGED <<seen, write>>
  /\ UNCHANGED <<tables, cache>>

\* "n user(s) still assigned"
CountAssigned(q) ==
  /\ pc[q] = "count"
  /\ Guarded(q, \E u \in User : users[u] # None /\ users[u].role = job[q].slug,
             "send")

\* The flush of write_audit.  An INSERT of a taken slug and an UPDATE of a
\* row that is gone raise; a DELETE of one does not.  An UPDATE that changes
\* no capability is not sent.
SendRole(q) ==
  LET s == job[q].slug
      new == [caps |-> Sanitize(job[q].caps)]
      idle == CASE job[q].op = "create_role" -> FALSE
                [] job[q].op = "update_role" -> new = row[q]
                [] OTHER -> roles[s] = None
      raises == CASE job[q].op = "create_role" -> roles[s] # None
                  [] job[q].op = "update_role" -> roles[s] = None /\ ~idle
                  [] OTHER -> FALSE
  IN /\ pc[q] = "send" /\ job[q].op \in RoleOps
     /\ ~idle => RowFree(q, s)
     /\ IF raises THEN End(q)
        ELSE /\ GoTo(q, "commit")
             /\ write' = [write EXCEPT ![q] =
                  IF idle THEN None
                  ELSE [key |-> s,
                        to |-> IF job[q].op = "delete_role" THEN None ELSE new]]
             /\ UNCHANGED <<row, seen>>
     /\ UNCHANGED <<tables, cache>>

CommitRole(q) ==
  /\ pc[q] = "commit" /\ job[q].op \in RoleOps
  /\ roles' = IF write[q] = None THEN roles
              ELSE [roles EXCEPT ![write[q].key] = write[q].to]
  /\ write' = [write EXCEPT ![q] = None]
  /\ GoTo(q, IF job[q].op = "create_role" THEN "reload" ELSE "leave")
  /\ UNCHANGED <<users, cache, row, seen>>

\* db.refresh of the new role, which raises if it is gone again.
Reload(q) ==
  /\ pc[q] = "reload"
  /\ Guarded(q, roles[job[q].slug] = None, "leave")

-----------------------------------------------------------------------------
(* Accounts                                                                *)

\* create_user_admin asks for the user name first; create_user does not.
CheckUnique(q) ==
  /\ pc[q] = "unique"
  /\ Guarded(q, users[job[q].user] # None, "send")

SendInsert(q) ==
  /\ pc[q] = "send" /\ job[q].op \in {"create_user", "create_account"}
  /\ RowFree(q, job[q].user)
  /\ IF users[job[q].user] # None THEN End(q)
     ELSE /\ GoTo(q, "commit")
          /\ write' = [write EXCEPT ![q] =
               [key |-> job[q].user, to |-> [role |-> job[q].role, active |-> TRUE]]]
          /\ UNCHANGED <<row, seen>>
  /\ UNCHANGED <<tables, cache>>

\* The role the account has once payload.role is applied.
NewRole(q) == IF job[q].role = None THEN row[q].role ELSE job[q].role

\* The deactivation of a super administrator counts the others first.
RoleChosen(j, role) ==
  IF j.active = FALSE /\ role = SuperAdmin THEN "autoflush" ELSE "send"

LoadUser(q) ==
  /\ pc[q] = "load" /\ job[q].op = "assign_user"
  /\ LET loaded == IF row[q] # None THEN row[q] ELSE users[job[q].user]
     IN IF loaded = None THEN End(q)
        ELSE /\ row' = [row EXCEPT ![q] = loaded]
             /\ GoTo(q, IF job[q].role # None THEN "assert"
                        ELSE RoleChosen(job[q], loaded.role))
             /\ UNCHANGED <<seen, write>>
  /\ UNCHANGED <<tables, cache>>

\* "Cannot demote the last super administrator"
CheckDemote(q) ==
  /\ pc[q] = "demote"
  /\ Guarded(q, /\ row[q].role = SuperAdmin
                /\ job[q].role # SuperAdmin
                /\ LastOne(q),
             RoleChosen(job[q], job[q].role))

\* Mutant of Changed: The whole loaded account is written back.
ChangedWhole(q, active) ==
  [role |-> NewRole(q), active |-> IF active # None THEN active ELSE row[q].active]

\* The account with the columns the request changed, as the UPDATE writes it:
\* columns it left alone keep what the table holds now.
Changed(q, active) ==
  LET now == View(q)[job[q].user]
      role == NewRole(q)
  IN [role |-> IF role # row[q].role THEN role ELSE now.role,
      active |-> IF active # None /\ active # row[q].active
                   THEN active ELSE now.active]

\* An UPDATE of the account, sent only if a column changed.
SendUpdate(q, active, stage) ==
  LET dirty == \/ NewRole(q) # row[q].role
               \/ active # None /\ active # row[q].active
  IN /\ dirty => RowFree(q, job[q].user)
     /\ GoTo(q, stage)
     /\ write' = IF ~dirty THEN write
                 ELSE [write EXCEPT ![q] =
                         [key |-> job[q].user, to |-> Changed(q, active)]]
     /\ UNCHANGED <<tables, cache, row, seen>>

\* The count below flushes the pending role first.
Autoflush(q) ==
  /\ pc[q] = "autoflush"
  /\ SendUpdate(q, None, "deactivate")

\* "Cannot deactivate the last super administrator"
CheckDeactivate(q) ==
  /\ pc[q] = "deactivate"
  /\ Guarded(q, LastOne(q), "send")

SendAssign(q) ==
  /\ pc[q] = "send" /\ job[q].op = "assign_user"
  /\ SendUpdate(q, job[q].active, "commit")

CommitUser(q) ==
  /\ pc[q] = "commit" /\ job[q].op \in UserOps
  /\ users' = View(q)
  /\ End(q)
  /\ UNCHANGED <<roles, cache>>

-----------------------------------------------------------------------------
(* Failures                                                                *)

\* A statement fails, or the client goes: the handler is left at an await.
Fail(q) ==
  /\ DatabaseFails /\ pc[q] # "idle"
  /\ End(q)
  /\ UNCHANGED <<tables, cache>>

\* A replica restarts: open requests are gone, and start-up fills the cache
\* (ensure_builtin_roles) before the first request is served.
Restart(p) ==
  LET here == {q \in Request : at[q] = p}
      Clear(f, v) == [q \in Request |-> IF q \in here THEN v ELSE f[q]]
  IN /\ DatabaseFails
     /\ cache' = [cache EXCEPT ![p] = Registered(roles)]
     /\ pc' = Clear(pc, "idle") /\ at' = Clear(at, None) /\ by' = Clear(by, None)
     /\ job' = Clear(job, None) /\ row' = Clear(row, None)
     /\ seen' = Clear(seen, None) /\ write' = Clear(write, None)
     /\ UNCHANGED tables

-----------------------------------------------------------------------------
Init ==
  /\ users = Accounts
  /\ roles = [s \in Slug |-> None]
  /\ cache = [p \in Replica |-> [s \in Slug |-> None]]
  /\ pc = [q \in Request |-> "idle"]
  /\ at = [q \in Request |-> None]
  /\ by = [q \in Request |-> None]
  /\ job = [q \in Request |-> None]
  /\ row = [q \in Request |-> None]
  /\ seen = [q \in Request |-> None]
  /\ write = [q \in Request |-> None]

\* The steps of a request that was let in, failures aside.
Advance(q) ==
  \/ FetchRoles(q) \/ Register(q)
  \/ LoadRole(q) \/ CountAssigned(q) \/ SendRole(q) \/ CommitRole(q) \/ Reload(q)
  \/ CheckUnique(q) \/ SendInsert(q) \/ LoadUser(q) \/ CheckDemote(q)
  \/ Autoflush(q) \/ CheckDeactivate(q) \/ SendAssign(q) \/ CommitUser(q)

Next ==
  \/ \E q \in Request : Admit(q) \/ Advance(q) \/ Fail(q)
  \/ \E p \in Replica : Restart(p)

Spec == Init /\ [][Next]_vars

\* The event loop and the database answer: a request that can go on does.
\* A waiter may lose the row to a newer request each time it is free, so its
\* statement needs strong fairness (PostgreSQL queues waiters in order).
FairSpec == Spec /\ \A q \in Request : SF_vars(Advance(q))

-----------------------------------------------------------------------------
(* Properties                                                              *)

\* Somebody can still administer: assign_user refuses to demote or deactivate
\* the last active super administrator (api/admin.py:417-428).
LastSuperAdminStays == ActiveSuperAdmins(users) # {}

\* No account has a role that is gone: delete_role refuses while users are
\* assigned, and a role is looked up before it is given (api/admin.py:195-199,
\* 312-314).
AssignedRoleExists ==
  \A u \in User : users[u] # None => users[u].role \in Known(roles)

\* Whatever roles are created, edited, cached, stale or gone, and however the
\* requests interleave, only super administrators are let in
\* (core/policy.py:91-93, api/admin.py:235).
OnlySuperAdminsAct == \A q \in Request : by[q] \in {SuperAdmin, None}

\* An account's is_active changes only by a request that asks for that value:
\* a request that moves the role meanwhile does not undo a deactivation it
\* never saw (api/admin.py:426-429, the columns SQLAlchemy writes).
DeactivationKept ==
  [][\A u \in User :
       users[u] # None /\ users'[u] # users[u] /\ users'[u].active # users[u].active
         => \E q \in Request : /\ pc[q] = "commit" /\ job[q].op = "assign_user"
                               /\ job[q].user = u
                               /\ job[q].active = users'[u].active]_vars

\* A request that was let in is answered: waiting for a row another request
\* has written ends (api/admin.py: one row is written per request).
RequestEnds == \A q \in Request : pc[q] # "idle" ~> pc[q] = "idle"

\* The capabilities a replica checks are in the end those of the table
\* (docs/security.md:37: /me returns the capabilities the API enforces).
CachesSettle ==
  (\E q \in Request : []<>(pc[q] # "idle")) \/ <>[](\A p \in Replica : cache[p] = roles)
=============================================================================
