---------------------------- MODULE GridSession ----------------------------
(***************************************************************************)
(* The session cookie all replicas share on the Sentinel camera grid       *)
(* (services/sentinel_auth.py) and the catalogue fetch that renews it      *)
(* (fetch_catalog of workers/sentinel.py).                                 *)
(*                                                                         *)
(* Backend and worker replicas are processes; each runs the threads that   *)
(* Home puts in it.  A process keeps a copy of the cookie under _lock;     *)
(* Redis keeps the shared cookie and the login lock, one round trip per    *)
(* action.  _lock is held across the POST of a login and, when that fails, *)
(* across the DEL of the login lock and the return; nothing else that      *)
(* takes time happens under it.                                            *)
(***************************************************************************)
EXTENDS Naturals, FiniteSets

CONSTANTS
  Process,        \* replicas
  Thread,         \* event loops and grab threads
  Home,           \* the process of a thread
  Catalog,        \* the threads that run fetch_catalog
  Token,          \* session tokens of the grid, natural numbers
  Paths,          \* how many catalogue URLs fetch_catalog tries
  None,           \* no token
  LoginTrouble,   \* a login may fail, or outlast a waiter's 9 s and the
                  \* lock's 20 s
  Mortal,         \* the replicas that may be killed and start again
  RedisFails,     \* Redis may be unreachable
  Lapse,          \* what may end by itself: "grid", its sessions; "shared",
                  \* the cookie in Redis at its TTL
  Expiring        \* the replicas whose copies reach theirs

ASSUME HomeAssumption    == Home \in [Thread -> Process]
ASSUME CatalogAssumption == Catalog \subseteq Thread
ASSUME TokenAssumption   == Token \subseteq Nat /\ None \notin Token
ASSUME PathsAssumption   == Paths \in Nat \ {0}
ASSUME FaultAssumption   ==
  /\ {LoginTrouble, RedisFails} \subseteq BOOLEAN
  /\ {Mortal, Expiring} \subseteq SUBSET Process
  /\ Lapse \subseteq {"grid", "shared"}

VARIABLES
  cookie,   \* _cookie of each process
  age,      \* how old it is, by _cookie_at
  shared,   \* sentinel:grid:cookie in Redis
  lock,     \* sentinel:grid:login_lock exists
  valid,    \* the one session the grid accepts (external)
  pc,       \* where each thread is
  force,    \* the argument of its session_cookie call
  got,      \* got_lock of that call
  token,    \* the cookie that call has read or been given
  sent,     \* the cookie in the headers of the thread's HTTP client
  used,     \* used_token of fetch_catalog
  path,     \* the catalogue URL fetch_catalog is at
  restored  \* history: another thread of its process has put the cookie
            \* back that a thread has reported

local  == <<force, got, token>>
client == <<sent, used, path>>
vars   == <<cookie, age, shared, lock, valid, pc, local, client, restored>>

-----------------------------------------------------------------------------

MaybeToken == Token \cup {None}

(* Inside session_cookie, and the rest of fetch_catalog.                   *)
Calling  == {"fast", "read", "adopt", "elect", "wait", "enter", "posting",
             "failed", "publish", "unlock"}
Fetching == {"peek", "peekShared", "request", "clear", "compare", "delete", "retry"}

TypeOK ==
  /\ cookie \in [Process -> MaybeToken]
  /\ age \in [Process -> {"new", "aged", "expired"}]
  /\ shared \in MaybeToken
  /\ lock \in BOOLEAN
  /\ valid \in MaybeToken
  /\ pc \in [Thread -> {"idle"} \cup Calling \cup Fetching]
  /\ force \in [Thread -> BOOLEAN]
  /\ got \in [Thread -> BOOLEAN]
  /\ token \in [Thread -> MaybeToken]
  /\ sent \in [Thread -> MaybeToken]
  /\ used \in [Thread -> MaybeToken]
  /\ path \in [Thread -> 0 .. Paths]
  /\ restored \in [Thread -> BOOLEAN]

Init ==
  /\ cookie = [p \in Process |-> None]
  /\ age = [p \in Process |-> "expired"]
  /\ shared = None
  /\ lock = FALSE
  /\ valid = None
  /\ pc = [t \in Thread |-> "idle"]
  /\ force = [t \in Thread |-> FALSE]
  /\ got = [t \in Thread |-> FALSE]
  /\ token = [t \in Thread |-> None]
  /\ sent = [t \in Thread |-> None]
  /\ used = [t \in Thread |-> None]
  /\ path = [t \in Thread |-> 0]
  /\ restored = [t \in Thread |-> FALSE]

(* _lock of the thread's process is free.                                  *)
Unlocked(t) ==
  \A u \in Thread : Home[u] = Home[t] => pc[u] \notin {"posting", "failed"}

(* A caller that won the lock has yet to publish and release it.           *)
Elected == \E t \in Thread : got[t] /\ pc[t] \in Calling

(* _fresh_enough.                                                          *)
FreshEnough(t) ==
  LET p == Home[t] IN
  /\ cookie[p] # None
  /\ age[p] # "expired"
  /\ force[t] => age[p] = "new"

(* Tokens somebody may still present: a login never issues one of these.   *)
Held == {valid, shared} \cup {cookie[p] : p \in Process}
          \cup UNION {{token[t], sent[t], used[t]} : t \in Thread}

Goto(t, label) == pc' = [pc EXCEPT ![t] = label]

(* Call of apply_session, that is of session_cookie(f).                    *)
Enter(t, f) ==
  /\ Goto(t, "fast")
  /\ force' = [force EXCEPT ![t] = f]
  /\ got' = [got EXCEPT ![t] = FALSE]
  /\ token' = [token EXCEPT ![t] = None]

(* session_cookie returns result: apply_session puts it in the headers, or *)
(* leaves them as they are when there is none.                             *)
Return(t, result) ==
  /\ Goto(t, IF t \notin Catalog THEN "idle" ELSE IF force[t] THEN "retry" ELSE "peek")
  /\ token' = [token EXCEPT ![t] = IF force[t] THEN result ELSE None]
  /\ sent' = [sent EXCEPT ![t] = IF t \notin Catalog \/ result = None THEN @ ELSE result]
  /\ got' = [got EXCEPT ![t] = FALSE]
  /\ UNCHANGED <<force, used, path>>

-----------------------------------------------------------------------------

(* session_cookie: the in-memory copy, under _lock.                        *)
FastPath(t) ==
  /\ pc[t] = "fast"
  /\ Unlocked(t)
  /\ IF FreshEnough(t)
       THEN Return(t, cookie[Home[t]])
       ELSE Goto(t, "read") /\ UNCHANGED <<local, client>>
  /\ UNCHANGED <<cookie, age, shared, lock, valid>>

(* GET of the shared cookie, which a forced call ignores.                  *)
ReadShared(t) ==
  /\ pc[t] = "read"
  /\ \/ /\ ~ force[t] /\ shared # None
        /\ Goto(t, "adopt")
        /\ token' = [token EXCEPT ![t] = shared]
     \/ /\ force[t] \/ shared = None \/ RedisFails
        /\ Goto(t, "elect")
        /\ UNCHANGED token
  /\ UNCHANGED <<cookie, age, shared, lock, valid, force, got, client>>

(* What was read becomes the process's copy, whatever that is by now.      *)
Adopt(t) ==
  /\ pc[t] = "adopt"
  /\ Unlocked(t)
  /\ cookie' = [cookie EXCEPT ![Home[t]] = token[t]]
  /\ age' = [age EXCEPT ![Home[t]] = "new"]
  /\ Return(t, token[t])
  /\ UNCHANGED <<shared, lock, valid>>

(* Fault: the key is SET without NX.                                       *)
ElectAll(t) ==
  /\ pc[t] = "elect"
  /\ got' = [got EXCEPT ![t] = TRUE]
  /\ lock' = TRUE
  /\ Goto(t, "enter")
  /\ UNCHANGED <<cookie, age, shared, valid, force, token, client>>

(* SET NX EX of the login lock.  An error counts as having won it.         *)
Elect(t) ==
  /\ pc[t] = "elect"
  /\ \/ /\ ~ lock
        /\ lock' = TRUE
        /\ got' = [got EXCEPT ![t] = TRUE]
        /\ Goto(t, "enter")
     \/ /\ lock
        /\ Goto(t, "wait")
        /\ UNCHANGED <<lock, got>>
     \/ /\ RedisFails
        /\ got' = [got EXCEPT ![t] = TRUE]
        /\ Goto(t, "enter")
        /\ UNCHANGED lock
  /\ UNCHANGED <<cookie, age, shared, valid, force, token, client>>

(* A poll finds a shared cookie: the new one or, also in a forced call,    *)
(* one that was there all along.                                           *)
WaitFound(t) ==
  /\ pc[t] = "wait"
  /\ shared # None
  /\ Goto(t, "adopt")
  /\ token' = [token EXCEPT ![t] = shared]
  /\ UNCHANGED <<cookie, age, shared, lock, valid, force, got, client>>

(* Thirty polls of 0.3 s found nothing: log in without the lock.  Unless   *)
(* logins are slow, the elected one is over by then and its cookie seen.   *)
WaitTimeout(t) ==
  /\ pc[t] = "wait"
  /\ LoginTrouble \/ (~ Elected /\ shared = None)
  /\ Goto(t, "enter")
  /\ UNCHANGED <<cookie, age, shared, lock, valid, local, client>>

(* The double check under _lock.  Returning from here leaves the login     *)
(* lock to its TTL.                                                        *)
DoubleCheck(t) ==
  /\ pc[t] = "enter"
  /\ Unlocked(t)
  /\ IF FreshEnough(t)
       THEN Return(t, cookie[Home[t]])
       ELSE Goto(t, "posting") /\ UNCHANGED <<local, client>>
  /\ UNCHANGED <<cookie, age, shared, lock, valid>>

(* POST /auth/login: the grid issues a token and forgets the last one, and *)
(* the answer arrives...                                                   *)
LoginOk(t) ==
  /\ pc[t] = "posting"
  /\ \E n \in Token \ Held :
       /\ \A m \in Token \ Held : n <= m
       /\ valid' = n
       /\ cookie' = [cookie EXCEPT ![Home[t]] = n]
       /\ token' = [token EXCEPT ![t] = n]
  /\ age' = [age EXCEPT ![Home[t]] = "new"]
  /\ Goto(t, "publish")
  /\ UNCHANGED <<shared, lock, force, got, client>>

(* ... or does not: the request failed, or was handled and timed out.      *)
LoginFail(t) ==
  /\ pc[t] = "posting"
  /\ LoginTrouble
  /\ \/ UNCHANGED valid
     \/ \E n \in Token \ Held : (\A m \in Token \ Held : n <= m) /\ valid' = n
  /\ Goto(t, "failed")
  /\ UNCHANGED <<cookie, age, shared, lock, local, client>>

(* Fault: a failed login with no old cookie to return does not return.     *)
GiveUpStuck(t) ==
  /\ pc[t] = "failed"
  /\ cookie[Home[t]] # None
  /\ lock' = (lock /\ ~ got[t])
  /\ Return(t, cookie[Home[t]])
  /\ UNCHANGED <<cookie, age, shared, valid>>

(* DEL of the lock, whoever's it is by now; the old cookie is returned.    *)
GiveUp(t) ==
  /\ pc[t] = "failed"
  /\ \/ lock' = (lock /\ ~ got[t])
     \/ RedisFails /\ UNCHANGED lock
  /\ Return(t, cookie[Home[t]])
  /\ UNCHANGED <<cookie, age, shared, valid>>

(* SET EX of the shared cookie.                                            *)
Publish(t) ==
  /\ pc[t] = "publish"
  /\ \/ shared' = token[t]
     \/ RedisFails /\ UNCHANGED shared
  /\ Goto(t, "unlock")
  /\ UNCHANGED <<cookie, age, lock, valid, local, client>>

(* DEL of the lock, whoever's it is by now.                                *)
Unlock(t) ==
  /\ pc[t] = "unlock"
  /\ \/ lock' = (lock /\ ~ got[t])
     \/ RedisFails /\ UNCHANGED lock
  /\ Return(t, token[t])
  /\ UNCHANGED <<cookie, age, shared, valid>>

-----------------------------------------------------------------------------

(* fetch_catalog begins, or a grab thread needs the cookie for its headers.*)
Start(t) ==
  /\ pc[t] = "idle"
  /\ Enter(t, FALSE)
  /\ path' = [path EXCEPT ![t] = IF t \in Catalog THEN 1 ELSE 0]
  /\ UNCHANGED <<cookie, age, shared, lock, valid, sent, used>>

(* peek_token: the copy, or else the shared cookie.                        *)
Peek(t) ==
  /\ pc[t] = "peek"
  /\ Unlocked(t)
  /\ used' = [used EXCEPT ![t] = cookie[Home[t]]]
  /\ Goto(t, IF cookie[Home[t]] = None THEN "peekShared" ELSE "request")
  /\ UNCHANGED <<cookie, age, shared, lock, valid, local, sent, path>>

PeekShared(t) ==
  /\ pc[t] = "peekShared"
  /\ \/ used' = [used EXCEPT ![t] = shared]
     \/ RedisFails /\ UNCHANGED used
  /\ Goto(t, "request")
  /\ UNCHANGED <<cookie, age, shared, lock, valid, local, sent, path>>

Finish(t) ==
  /\ Goto(t, "idle")
  /\ sent' = [sent EXCEPT ![t] = None]
  /\ used' = [used EXCEPT ![t] = None]
  /\ token' = [token EXCEPT ![t] = None]
  /\ force' = [force EXCEPT ![t] = FALSE]
  /\ path' = [path EXCEPT ![t] = 0]
  /\ UNCHANGED got

(* The next catalogue URL, if there is one.                                *)
NextPath(t) ==
  IF path[t] = Paths
    THEN Finish(t)
    ELSE /\ Goto(t, "peek")
         /\ path' = [path EXCEPT ![t] = @ + 1]
         /\ used' = [used EXCEPT ![t] = None]
         /\ token' = [token EXCEPT ![t] = None]
         /\ UNCHANGED <<force, got, sent>>

(* The grid takes the cookie in the headers.                               *)
Accepted(t) == valid # None /\ sent[t] = valid

(* GET of the catalogue.  It fails, or the path is not served; or a valid  *)
(* cookie gets the list and any other a redirect to the login.             *)
Request(t) ==
  /\ pc[t] = "request"
  /\ \/ NextPath(t)
     \/ Accepted(t) /\ Finish(t)
     \/ ~ Accepted(t) /\ Goto(t, "clear") /\ UNCHANGED <<local, client>>
  /\ UNCHANGED <<cookie, age, shared, lock, valid>>

(* The in-memory copy is dropped.                                          *)
Forget(p, really) ==
  /\ cookie' = [cookie EXCEPT ![p] = IF really THEN None ELSE @]
  /\ age' = [age EXCEPT ![p] = IF really THEN "expired" ELSE @]

(* Fault: only the in-memory copy is invalidated.                          *)
ClearLocalOnly(t) ==
  /\ pc[t] = "clear"
  /\ Unlocked(t)
  /\ Forget(Home[t], used[t] \in {None, cookie[Home[t]]})
  /\ Enter(t, TRUE)
  /\ UNCHANGED <<shared, lock, valid, client>>

(* invalidate_session(expected=used_token).  None clears everything.       *)
ClearLocal(t) ==
  /\ pc[t] = "clear"
  /\ Unlocked(t)
  /\ Forget(Home[t], used[t] \in {None, cookie[Home[t]]})
  /\ Goto(t, IF used[t] = None THEN "delete" ELSE "compare")
  /\ UNCHANGED <<shared, lock, valid, local, client>>

(* _redis_clear_if: GET, compare...                                        *)
Compare(t) ==
  /\ pc[t] = "compare"
  /\ \/ /\ shared = used[t]
        /\ Goto(t, "delete")
        /\ UNCHANGED local
     \/ /\ shared # used[t] \/ RedisFails
        /\ Enter(t, TRUE)
  /\ UNCHANGED <<cookie, age, shared, lock, valid, client>>

(* ... and DEL; then the forced call.                                      *)
Delete(t) ==
  /\ pc[t] = "delete"
  /\ \/ shared' = None
     \/ RedisFails /\ UNCHANGED shared
  /\ Enter(t, TRUE)
  /\ UNCHANGED <<cookie, age, lock, valid, client>>

(* The same URL once more.                                                 *)
Retry(t) ==
  /\ pc[t] = "retry"
  /\ \/ NextPath(t)
     \/ Accepted(t) /\ Finish(t)
  /\ UNCHANGED <<cookie, age, shared, lock, valid>>

-----------------------------------------------------------------------------

(* Time passes: a copy is five seconds old, then past its TTL; Redis drops *)
(* the shared cookie and the lock at theirs; the grid ends a session.      *)
Age(p) ==
  /\ cookie[p] # None
  /\ \/ age[p] = "new" /\ age' = [age EXCEPT ![p] = "aged"]
     \/ p \in Expiring /\ age[p] = "aged" /\ age' = [age EXCEPT ![p] = "expired"]
  /\ UNCHANGED <<cookie, shared, lock, valid, pc, local, client>>

SharedExpires ==
  /\ "shared" \in Lapse /\ shared # None
  /\ shared' = None
  /\ UNCHANGED <<cookie, age, lock, valid, pc, local, client>>

LockExpires ==
  /\ lock /\ (LoginTrouble \/ ~ Elected)
  /\ lock' = FALSE
  /\ UNCHANGED <<cookie, age, shared, valid, pc, local, client>>

SessionEnds ==
  /\ "grid" \in Lapse /\ valid # None
  /\ valid' = None
  /\ UNCHANGED <<cookie, age, shared, lock, pc, local, client>>

(* A replica is killed and starts again; what it left in Redis stays.      *)
Restart(p) ==
  /\ p \in Mortal
  /\ Forget(p, TRUE)
  /\ pc' = [t \in Thread |-> IF Home[t] = p THEN "idle" ELSE pc[t]]
  /\ force' = [t \in Thread |-> Home[t] # p /\ force[t]]
  /\ got' = [t \in Thread |-> Home[t] # p /\ got[t]]
  /\ token' = [t \in Thread |-> IF Home[t] = p THEN None ELSE token[t]]
  /\ sent' = [t \in Thread |-> IF Home[t] = p THEN None ELSE sent[t]]
  /\ used' = [t \in Thread |-> IF Home[t] = p THEN None ELSE used[t]]
  /\ path' = [t \in Thread |-> IF Home[t] = p THEN 0 ELSE path[t]]
  /\ UNCHANGED <<shared, lock, valid>>

(* The next step of what a thread is doing.                                *)
Advance(t) ==
  \/ FastPath(t) \/ ReadShared(t) \/ Adopt(t) \/ Elect(t)
  \/ WaitFound(t) \/ WaitTimeout(t) \/ DoubleCheck(t) \/ LoginOk(t)
  \/ LoginFail(t) \/ GiveUp(t) \/ Publish(t) \/ Unlock(t)
  \/ Peek(t) \/ PeekShared(t) \/ Request(t) \/ ClearLocal(t)
  \/ Compare(t) \/ Delete(t) \/ Retry(t)

(* A thread of fetch_catalog has reported used[t] and not yet finished.    *)
Reported(t) ==
  \/ pc[t] \in {"compare", "delete", "retry"}
  \/ force[t] /\ pc[t] \in Calling

(* What history keeps: in this step, did another thread of the process     *)
(* adopt or publish the cookie that t has reported?                        *)
PutBack(u, t) ==
  /\ u # t /\ Home[u] = Home[t] /\ token[u] = used[t]
  /\ pc[u] \in {"adopt", "publish"} /\ pc'[u] # pc[u]

Remember ==
  restored' = [t \in Thread |->
                 Reported(t)' /\ (restored[t] \/ \E u \in Thread : PutBack(u, t))]

Next ==
  /\ \/ \E t \in Thread : Start(t) \/ Advance(t)
     \/ \E p \in Process : Age(p) \/ Restart(p)
     \/ SharedExpires \/ LockExpires \/ SessionEnds
  /\ Remember

Spec == Init /\ [][Next]_vars

(* A thread that waits for _lock gets it when it is free again and again;  *)
(* HTTP and Redis calls have timeouts; waiting ends after 9 s.             *)
Fairness == \A t \in Thread : SF_vars(Advance(t) /\ Remember)

FairSpec == Spec /\ Fairness

-----------------------------------------------------------------------------

(* SET NX elects one caller at a time, in all replicas together, and the   *)
(* lock stands until it has published its cookie and released it: as long  *)
(* as logins end before the lock's TTL and Redis answers.                  *)
OneElected ==
  \A t, u \in Thread : got[t] /\ got[u] => t = u /\ lock

(* The cookie fetch_catalog retries with is not the one whose rejection it *)
(* has just reported to invalidate_session: unless, since the report,      *)
(* another thread of the same process has put that one back, a grab that   *)
(* had read it from Redis before or a login that published it late.  No    *)
(* other replica can bring it back, and without Redis failing the fetch    *)
(* does not do so itself.                                                  *)
RefreshIsNew ==
  \A t \in Thread :
    pc[t] = "retry" /\ token[t] # None /\ token[t] = used[t] => restored[t]

(* Every call of session_cookie returns, whoever else is logging in, holds *)
(* _lock, left the login lock behind or died.                              *)
CallReturns ==
  \A t \in Thread : pc[t] \in Calling ~> pc[t] \notin Calling

(***************************************************************************)
(* What the repository says and the code does not keep.                    *)
(***************************************************************************)

(* "Clear the cached session" (invalidate_session): a forced call after it *)
(* comes back with another cookie.  Not so with two threads in a process.  *)
RefreshIsAlwaysNew ==
  \A t \in Thread :
    pc[t] = "retry" /\ token[t] # None => token[t] # used[t]

(* "Only one replica actually performs the login" (session_cookie).        *)
OneReplicaLogsIn ==
  \A t, u \in Thread : pc[t] = "posting" /\ pc[u] = "posting" => t = u

(* A grab that fails late "must not discard a session another grab has     *)
(* since refreshed" (invalidate_session): when it deletes the shared       *)
(* cookie that is the one it named.                                        *)
KeepsRefreshedSession ==
  \A t \in Thread :
    pc[t] = "delete" /\ used[t] # None => shared \in {used[t], None}

(* Replicas do not "invalidate each other in a loop" (session_cookie): if  *)
(* no session lapses and nothing fails, logins come to an end.             *)
LoginsSettle == <>[](\A t \in Thread : pc[t] # "posting")
=============================================================================
