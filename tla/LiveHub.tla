------------------------------ MODULE LiveHub ------------------------------
(***************************************************************************)
(* Live alerts of one backend process: the sockets of /ws/alerts, the hub  *)
(* that filters by department (api/ws.py), the relay from Redis, and the   *)
(* break-glass grants that widen a scope (core/break_glass.py,             *)
(* api/auth.py).  A step ends at an await.                                 *)
(*                                                                         *)
(* signedIn stands for all that _principal_from_ws asks of the user: the   *)
(* account is active and the session token has not expired.  The detection *)
(* hub is the same code on another channel.                                *)
(***************************************************************************)
EXTENDS Naturals, Sequences, FiniteSets

CONSTANTS
  User,
  Department,
  Home,           \* the department that is_home_scoped confines a user to
  Client,         \* sockets
  Owner,          \* the user of a socket
  Pinging,        \* sockets whose page pings every 15 s, as ControlRoom does
  Alert,          \* alerts published, each once
  DeptOf,         \* the department of an alert's camera
  Grant,          \* break-glass grants, each given once
  RedisFails, DatabaseFails,
  None

Statewide == "statewide"
Absent == "absent"
Scope == Department \cup {Statewide}

ASSUME HubAssumption ==
  /\ None \notin Department \cup Grant \cup Alert
  /\ Home \in [User -> Department \cup {None}]
  /\ Owner \in [Client -> User] /\ Pinging \subseteq Client
  /\ DeptOf \in [Alert -> Department]
  /\ {Statewide, Absent} \cap Department = {}
  /\ RedisFails \in BOOLEAN /\ DatabaseFails \in BOOLEAN

VARIABLES
  signedIn,   \* per user: active, with a valid token
  grant,      \* per user: breakglass:{user_id} in Redis
  break,      \* per user: the break-glass request under way
  audited,    \* grants whose audit row is committed
  pc,         \* per socket: where _serve is
  peer,       \* per socket: is the browser still there?
  principal,  \* per socket: the scope that _principal_from_ws found
  clients,    \* Hub.clients
  queue,      \* messages the subscription has not delivered
  relay,      \* the broadcast under way, Idle, or Dead
  inbox,      \* per socket: alerts sent to it
  ever        \* users that have held a grant

sockets == <<pc, peer, principal>>
access == <<signedIn, grant, break, audited, ever>>
messages == <<queue, relay, inbox>>
vars == <<access, sockets, clients, messages>>

Idle == [alert |-> None, todo |-> {}, dead |-> {}]
Dead == None

TypeOK ==
  /\ signedIn \in [User -> BOOLEAN]
  /\ grant \in [User -> Grant \cup {None}]
  /\ break \in [User -> {"none", "granting", "revoking"}]
  /\ audited \subseteq Grant /\ ever \subseteq User
  /\ pc \in [Client -> {"none", "user", "grant", "accept", "open",
                        "reuser", "regrant"}]
  /\ peer \in [Client -> BOOLEAN]
  /\ principal \in [Client -> Scope \cup {None}]
  /\ clients \in [Client -> Scope \cup {Absent}]
  /\ queue \in Seq(Alert)
  /\ relay = Dead \/ relay \in [alert : Alert \cup {None}, todo : SUBSET Client,
                                dead : SUBSET Client]
  /\ inbox \in [Client -> SUBSET Alert]

-----------------------------------------------------------------------------
(* Sockets                                                                 *)

\* department_scope, with the grant read from Redis.
DepartmentScope(u) == IF grant[u] # None THEN Statewide ELSE Home[u]

\* _serve is over: "finally: hub.disconnect(ws)".
Ended(c) ==
  /\ pc' = [pc EXCEPT ![c] = "none"]
  /\ principal' = [principal EXCEPT ![c] = None]
  /\ clients' = [clients EXCEPT ![c] = Absent]

\* A socket is a new object each time: c is used again once the broadcast
\* that may still hold the old one is over.
Connect(c) ==
  /\ pc[c] = "none" /\ (relay # Dead => c \notin relay.todo \cup relay.dead)
  /\ pc' = [pc EXCEPT ![c] = "user"]
  /\ peer' = [peer EXCEPT ![c] = TRUE]
  /\ inbox' = [inbox EXCEPT ![c] = {}]
  /\ UNCHANGED <<access, principal, clients, queue, relay>>

\* Mutant of Scoped: the recheck keeps the scope the socket was accepted with.
ScopedOnce(c, scope) ==
  IF pc[c] \in {"user", "grant"}
    THEN /\ pc' = [pc EXCEPT ![c] = "accept"]
         /\ principal' = [principal EXCEPT ![c] = scope]
         /\ UNCHANGED clients
    ELSE /\ pc' = [pc EXCEPT ![c] = "open"]
         /\ UNCHANGED <<principal, clients>>

\* The scope is known: a new socket is accepted next, a served one has its
\* entry in the hub replaced (even one a broadcast has just removed).
Scoped(c, scope) ==
  IF pc[c] \in {"user", "grant"}
    THEN /\ pc' = [pc EXCEPT ![c] = "accept"]
         /\ principal' = [principal EXCEPT ![c] = scope]
         /\ UNCHANGED clients
    ELSE /\ pc' = [pc EXCEPT ![c] = "open"]
         /\ clients' = [clients EXCEPT ![c] = scope]
         /\ UNCHANGED principal

\* _principal_from_ws: the account, and for a home-scoped user on to Redis.
ReadUser(c) ==
  LET u == Owner[c]
  IN /\ pc[c] \in {"user", "reuser"}
     /\ IF ~signedIn[u] THEN Ended(c)
        ELSE IF Home[u] = None THEN Scoped(c, Statewide)
        ELSE /\ pc' = [pc EXCEPT ![c] = IF @ = "user" THEN "grant" ELSE "regrant"]
             /\ UNCHANGED <<principal, clients>>
     /\ UNCHANGED <<access, peer, messages>>

ReadGrant(c) ==
  /\ pc[c] \in {"grant", "regrant"}
  /\ Scoped(c, DepartmentScope(Owner[c]))
  /\ UNCHANGED <<access, peer, messages>>

\* The GET raises, and with it _serve.
ReadGrantFails(c) ==
  /\ RedisFails /\ pc[c] \in {"grant", "regrant"}
  /\ Ended(c)
  /\ UNCHANGED <<access, peer, messages>>

\* Hub.connect.
Accept(c) ==
  /\ pc[c] = "accept"
  /\ IF peer[c]
       THEN /\ pc' = [pc EXCEPT ![c] = "open"]
            /\ clients' = [clients EXCEPT ![c] = principal[c]]
            /\ principal' = [principal EXCEPT ![c] = None]
       ELSE Ended(c)
  /\ UNCHANGED <<access, peer, messages>>

\* 60 s without a word: the user is looked up again.  A ping only starts the
\* wait anew.
Silence(c) ==
  /\ pc[c] = "open" /\ peer[c] /\ c \notin Pinging
  /\ pc' = [pc EXCEPT ![c] = "reuser"]
  /\ UNCHANGED <<access, peer, principal, clients, messages>>

\* The browser goes; _serve learns of it in receive_text.
Drop(c) ==
  /\ pc[c] # "none" /\ peer[c]
  /\ peer' = [peer EXCEPT ![c] = FALSE]
  /\ UNCHANGED <<access, pc, principal, clients, messages>>

Disconnect(c) ==
  /\ pc[c] = "open" /\ ~peer[c]
  /\ Ended(c)
  /\ UNCHANGED <<access, peer, messages>>

-----------------------------------------------------------------------------
(* Messages                                                                *)

\* What on_alert hands to broadcast: the payload, department and all, is the
\* value of "data".
Envelope(a) == [type |-> "alert", data |-> [id |-> a, department_id |-> DeptOf[a]]]

\* message.get("department_id")
MessageDepartment(message) ==
  IF "department_id" \in DOMAIN message THEN message["department_id"] ELSE None

\* Mutant of Passes: a message without a department is for everybody.
PassesAll(scope, dept) == scope # Absent /\ (scope = Statewide \/ dept \in {None, scope})

Passes(scope, dept) == scope # Absent /\ (scope = Statewide \/ dept = scope)

\* Any process publishes; without a subscription the message is lost.
Publish(a) ==
  /\ \A i \in DOMAIN queue : queue[i] # a
  /\ relay # Dead /\ relay.alert # a /\ a \notin UNION {inbox[c] : c \in Client}
  /\ queue' = Append(queue, a)
  /\ UNCHANGED <<access, sockets, clients, relay, inbox>>

\* The relay takes a message; broadcast reads the whole of clients, scopes
\* included, before its first await.
Take ==
  /\ relay = Idle /\ queue # <<>>
  /\ LET dept == MessageDepartment(Envelope(Head(queue)))
     IN relay' = [alert |-> Head(queue), dead |-> {},
                  todo |-> {c \in Client : Passes(clients[c], dept)}]
  /\ queue' = Tail(queue)
  /\ UNCHANGED <<access, sockets, clients, inbox>>

\* Mutant of Send: one dead socket ends the broadcast.
SendOrStop(c) ==
  /\ relay # Dead /\ c \in relay.todo
  /\ IF peer[c] /\ pc[c] # "none"
       THEN /\ inbox' = [inbox EXCEPT ![c] = @ \cup {relay.alert}]
            /\ relay' = [relay EXCEPT !.todo = @ \ {c}]
       ELSE /\ relay' = [relay EXCEPT !.todo = {}, !.dead = @ \cup {c}]
            /\ UNCHANGED inbox
  /\ UNCHANGED <<access, sockets, clients, queue>>

Send(c) ==
  /\ relay # Dead /\ c \in relay.todo
  /\ IF peer[c] /\ pc[c] # "none"
       THEN /\ inbox' = [inbox EXCEPT ![c] = @ \cup {relay.alert}]
            /\ relay' = [relay EXCEPT !.todo = @ \ {c}]
       ELSE /\ relay' = [relay EXCEPT !.todo = @ \ {c}, !.dead = @ \cup {c}]
            /\ UNCHANGED inbox
  /\ UNCHANGED <<access, sockets, clients, queue>>

\* The end of broadcast: sockets that failed leave the hub.
Sent ==
  /\ relay # Dead /\ relay # Idle /\ relay.todo = {}
  /\ clients' = [c \in Client |-> IF c \in relay.dead THEN Absent ELSE clients[c]]
  /\ relay' = Idle
  /\ UNCHANGED <<access, sockets, queue, inbox>>

\* The subscription raises: relay_redis ends, and nothing starts it again.
RelayDies ==
  /\ RedisFails /\ relay # Dead
  /\ relay' = Dead /\ queue' = <<>>
  /\ UNCHANGED <<access, sockets, clients, inbox>>

-----------------------------------------------------------------------------
(* Access                                                                  *)

\* An administrator deactivates the user, or the token expires.
SignOut(u) ==
  /\ signedIn[u]
  /\ signedIn' = [signedIn EXCEPT ![u] = FALSE]
  /\ UNCHANGED <<grant, break, audited, ever, sockets, clients, messages>>

SignIn(u) ==
  /\ ~signedIn[u]
  /\ signedIn' = [signedIn EXCEPT ![u] = TRUE]
  /\ UNCHANGED <<grant, break, audited, ever, sockets, clients, messages>>

\* request_break_glass up to the commit of its audit row: the grant holds
\* from here on.
GrantBreakGlass(u) ==
  /\ signedIn[u] /\ Home[u] # None /\ break[u] = "none"
  /\ \E g \in Grant : /\ g \notin audited /\ \A v \in User : grant[v] # g
                      /\ grant' = [grant EXCEPT ![u] = g]
  /\ ever' = ever \cup {u}
  /\ break' = [break EXCEPT ![u] = "granting"]
  /\ UNCHANGED <<signedIn, audited, sockets, clients, messages>>

\* write_audit and commit; the grant may have expired or been revoked since.
AuditBreakGlass(u) ==
  /\ break[u] # "none"
  /\ audited' = IF break[u] = "granting" THEN audited \cup ({grant[u]} \ {None})
                ELSE audited
  /\ break' = [break EXCEPT ![u] = "none"]
  /\ UNCHANGED <<signedIn, grant, ever, sockets, clients, messages>>

\* The database refuses: 500, and the grant stays.
AuditFails(u) ==
  /\ DatabaseFails /\ break[u] # "none"
  /\ break' = [break EXCEPT ![u] = "none"]
  /\ UNCHANGED <<signedIn, grant, audited, ever, sockets, clients, messages>>

\* end_break_glass up to its commit.
RevokeBreakGlass(u) ==
  /\ signedIn[u] /\ break[u] = "none"
  /\ grant' = [grant EXCEPT ![u] = None]
  /\ break' = [break EXCEPT ![u] = "revoking"]
  /\ UNCHANGED <<signedIn, audited, ever, sockets, clients, messages>>

\* The key's time to live.
GrantExpires(u) ==
  /\ grant[u] # None
  /\ grant' = [grant EXCEPT ![u] = None]
  /\ UNCHANGED <<signedIn, break, audited, ever, sockets, clients, messages>>

-----------------------------------------------------------------------------
Init ==
  /\ signedIn = [u \in User |-> TRUE]
  /\ grant = [u \in User |-> None]
  /\ break = [u \in User |-> "none"]
  /\ audited = {} /\ ever = {}
  /\ pc = [c \in Client |-> "none"]
  /\ peer = [c \in Client |-> FALSE]
  /\ principal = [c \in Client |-> None]
  /\ clients = [c \in Client |-> Absent]
  /\ queue = <<>>
  /\ relay = Idle
  /\ inbox = [c \in Client |-> {}]

Serve(c) == ReadUser(c) \/ ReadGrant(c) \/ Accept(c) \/ Disconnect(c)

Next ==
  \/ \E c \in Client :
       Connect(c) \/ Serve(c) \/ ReadGrantFails(c) \/ Silence(c) \/ Drop(c) \/ Send(c)
  \/ \E a \in Alert : Publish(a)
  \/ Take \/ Sent \/ RelayDies
  \/ \E u \in User :
       \/ SignOut(u) \/ SignIn(u)
       \/ GrantBreakGlass(u) \/ AuditBreakGlass(u) \/ AuditFails(u)
       \/ RevokeBreakGlass(u) \/ GrantExpires(u)

Spec == Init /\ [][Next]_vars

\* The event loop runs what is ready; a page that does not ping is silent for
\* 60 s sooner or later; a TTL runs out.
FairSpec ==
  /\ Spec
  /\ \A c \in Client : /\ WF_vars(Serve(c)) /\ WF_vars(Silence(c))
                       /\ WF_vars(Send(c))
  /\ WF_vars(Take) /\ WF_vars(Sent)
  /\ \A u \in User : WF_vars(GrantExpires(u))

-----------------------------------------------------------------------------
(* Properties                                                              *)

\* A home-scoped user who never held a grant is sent no alert of another
\* department, whatever is published while scopes are read and replaced
\* (api/ws.py:37-39; docs/security.md: "Own-department cameras").
NeverForeign ==
  \A c \in Client :
    Home[Owner[c]] # None /\ Owner[c] \notin ever
      => \A a \in inbox[c] : DeptOf[a] = Home[Owner[c]]

\* A socket of a user who is signed out ends (frontend AdminPage.tsx:358).
SignedOutEnds ==
  \A c \in Client :
    pc[c] # "none" /\ ~signedIn[Owner[c]] ~> pc[c] = "none" \/ signedIn[Owner[c]]

\* A socket loses the statewide scope once the grant is gone
\* (core/break_glass.py:3: "access dies even if the operator forgets").
AccessDies ==
  \A c \in Client :
    clients[c] = Statewide /\ Home[Owner[c]] # None /\ grant[Owner[c]] = None
      ~> clients[c] # Statewide \/ grant[Owner[c]] # None

Waiting(a) == (\E i \in DOMAIN queue : queue[i] = a)

\* An alert that arrives while a statewide wall is connected reaches it, dead
\* sockets in the same broadcast notwithstanding (api/ws.py:37-45).
WallSeesAlert ==
  \A a \in Alert, c \in Client :
    Waiting(a) /\ clients[c] = Statewide
      ~> a \in inbox[c] \/ relay = Dead \/ clients[c] # Statewide \/ ~peer[c]

\* An alert of the department a socket is confined to reaches it
\* (PROJECT_OVERVIEW.md:491: "/ws/alerts -- watchlist hits").
HomeSeesAlert ==
  \A a \in Alert, c \in Client :
    Waiting(a) /\ clients[c] = DeptOf[a]
      ~> a \in inbox[c] \/ relay = Dead \/ clients[c] # DeptOf[a] \/ ~peer[c]

\* A grant that holds is audited, unless its request is still open
\* (core/break_glass.py:4: "Every grant and revoke is audited").
GrantIsAudited ==
  \A u \in User : grant[u] # None /\ break[u] = "none" => grant[u] \in audited
=============================================================================
