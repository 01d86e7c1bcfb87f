------------------------- MODULE GridSessionProofs --------------------------
(***************************************************************************)
(* Proofs about GridSession, for any number of replicas and threads.       *)
(***************************************************************************)
EXTENDS GridSession, TLAPS

(* What a caller and its HTTP client keep.                                 *)
CallerOK ==
  /\ pc \in [Thread -> {"idle"} \cup Calling \cup Fetching]
  /\ force \in [Thread -> BOOLEAN]
  /\ got \in [Thread -> BOOLEAN]
  /\ token \in [Thread -> MaybeToken]
  /\ sent \in [Thread -> MaybeToken]
  /\ used \in [Thread -> MaybeToken]
  /\ path \in [Thread -> 0 .. Paths]

LEMMA ReturnType ==
  ASSUME TypeOK, NEW t \in Thread, NEW result \in MaybeToken, Return(t, result)
  PROVE  CallerOK'
<1>1. /\ pc' \in [Thread -> {"idle"} \cup Calling \cup Fetching]
      /\ got' \in [Thread -> BOOLEAN]
  BY DEF TypeOK, Return, Goto, Calling, Fetching
<1>2. token' \in [Thread -> MaybeToken] /\ sent' \in [Thread -> MaybeToken]
  BY DEF TypeOK, Return, MaybeToken
<1> QED
  BY <1>1, <1>2 DEF TypeOK, CallerOK, Return

LEMMA FinishType ==
  ASSUME TypeOK, NEW t \in Thread, Finish(t)
  PROVE  CallerOK'
BY PathsAssumption DEF TypeOK, CallerOK, Finish, Goto, MaybeToken

LEMMA NextPathType ==
  ASSUME TypeOK, NEW t \in Thread, NextPath(t)
  PROVE  CallerOK'
<1>1. CASE path[t] = Paths
  BY <1>1, FinishType DEF NextPath
<1>2. CASE path[t] # Paths
  <2>1. path[t] + 1 \in 0 .. Paths
    BY <1>2, PathsAssumption DEF TypeOK
  <2> QED
    BY <1>2, <2>1 DEF TypeOK, CallerOK, NextPath, Goto, MaybeToken, Fetching
<1> QED
  BY <1>1, <1>2

LEMMA TypeInit == Init => TypeOK
<1> SUFFICES ASSUME Init PROVE TypeOK
  OBVIOUS
<1>1. 0 \in 0 .. Paths
  BY PathsAssumption
<1>2. None \in MaybeToken
  BY DEF MaybeToken
<1> QED
  BY <1>1, <1>2 DEF Init, TypeOK

(* Every step keeps the variables in their types.                          *)
LEMMA TypeStep ==
  ASSUME TypeOK, [Next]_vars
  PROVE  TypeOK'
<1>0. restored' \in [Thread -> BOOLEAN]
  <2>1. CASE Remember
    BY <2>1 DEF Remember
  <2>2. CASE UNCHANGED vars
    BY <2>2 DEF vars, TypeOK
  <2> QED
    BY <2>1, <2>2 DEF Next
<1>1. ASSUME NEW t \in Thread, Start(t)
      PROVE  TypeOK'
  BY <1>0, <1>1, HomeAssumption, TokenAssumption, PathsAssumption DEF Start, Enter, Goto, TypeOK, MaybeToken, Calling, Fetching, local, client
<1>2. ASSUME NEW t \in Thread, FastPath(t)
      PROVE  TypeOK'
  <2>1. CASE FreshEnough(t)
    BY <1>0, <1>2, <2>1, ReturnType, HomeAssumption DEF FastPath, TypeOK, CallerOK
  <2>2. CASE ~ FreshEnough(t)
    BY <1>0, <1>2, <2>2 DEF FastPath, TypeOK, Goto, Calling, local, client
  <2> QED
    BY <2>1, <2>2
<1>3. ASSUME NEW t \in Thread, ReadShared(t)
      PROVE  TypeOK'
  BY <1>0, <1>3, HomeAssumption, TokenAssumption, PathsAssumption DEF ReadShared, Goto, TypeOK, MaybeToken, Calling, Fetching, local, client
<1>4. ASSUME NEW t \in Thread, Adopt(t)
      PROVE  TypeOK'
  BY <1>0, <1>4, HomeAssumption, TokenAssumption, PathsAssumption DEF Adopt, Return, Goto, TypeOK, MaybeToken, Calling, Fetching, local, client
<1>5. ASSUME NEW t \in Thread, Elect(t)
      PROVE  TypeOK'
  BY <1>0, <1>5, HomeAssumption, TokenAssumption, PathsAssumption DEF Elect, Goto, TypeOK, MaybeToken, Calling, Fetching, local, client
<1>6. ASSUME NEW t \in Thread, WaitFound(t)
      PROVE  TypeOK'
  BY <1>0, <1>6, HomeAssumption, TokenAssumption, PathsAssumption DEF WaitFound, Goto, TypeOK, MaybeToken, Calling, Fetching, local, client
<1>7. ASSUME NEW t \in Thread, WaitTimeout(t)
      PROVE  TypeOK'
  BY <1>0, <1>7, HomeAssumption, TokenAssumption, PathsAssumption DEF WaitTimeout, Goto, TypeOK, MaybeToken, Calling, Fetching, local, client
<1>8. ASSUME NEW t \in Thread, DoubleCheck(t)
      PROVE  TypeOK'
  <2>1. CASE FreshEnough(t)
    BY <1>0, <1>8, <2>1, ReturnType, HomeAssumption DEF DoubleCheck, TypeOK, CallerOK
  <2>2. CASE ~ FreshEnough(t)
    BY <1>0, <1>8, <2>2 DEF DoubleCheck, TypeOK, Goto, Calling, local, client
  <2> QED
    BY <2>1, <2>2
<1>9. ASSUME NEW t \in Thread, LoginOk(t)
      PROVE  TypeOK'
  <2>1. PICK n \in Token : /\ valid' = n
                          /\ cookie' = [cookie EXCEPT ![Home[t]] = n]
                          /\ token' = [token EXCEPT ![t] = n]
    BY <1>0, <1>9 DEF LoginOk
  <2>2. /\ valid' \in MaybeToken /\ cookie' \in [Process -> MaybeToken]
        /\ token' \in [Thread -> MaybeToken]
    BY <2>1 DEF TypeOK, MaybeToken
  <2> QED
    BY <1>0, <1>9, <2>2, HomeAssumption DEF LoginOk, TypeOK, Goto, Calling, client
<1>10. ASSUME NEW t \in Thread, LoginFail(t)
      PROVE  TypeOK'
  BY <1>0, <1>10, HomeAssumption, TokenAssumption, PathsAssumption DEF LoginFail, Goto, TypeOK, MaybeToken, Calling, Fetching, local, client
<1>11. ASSUME NEW t \in Thread, GiveUp(t)
      PROVE  TypeOK'
  BY <1>0, <1>11, HomeAssumption, TokenAssumption, PathsAssumption DEF GiveUp, Return, Goto, TypeOK, MaybeToken, Calling, Fetching, local, client
<1>12. ASSUME NEW t \in Thread, Publish(t)
      PROVE  TypeOK'
  BY <1>0, <1>12, HomeAssumption, TokenAssumption, PathsAssumption DEF Publish, Goto, TypeOK, MaybeToken, Calling, Fetching, local, client
<1>13. ASSUME NEW t \in Thread, Unlock(t)
      PROVE  TypeOK'
  BY <1>0, <1>13, HomeAssumption, TokenAssumption, PathsAssumption DEF Unlock, Return, Goto, TypeOK, MaybeToken, Calling, Fetching, local, client
<1>14. ASSUME NEW t \in Thread, Peek(t)
      PROVE  TypeOK'
  BY <1>0, <1>14, HomeAssumption, TokenAssumption, PathsAssumption DEF Peek, Goto, TypeOK, MaybeToken, Calling, Fetching, local, client
<1>15. ASSUME NEW t \in Thread, PeekShared(t)
      PROVE  TypeOK'
  BY <1>0, <1>15, HomeAssumption, TokenAssumption, PathsAssumption DEF PeekShared, Goto, TypeOK, MaybeToken, Calling, Fetching, local, client
<1>16. ASSUME NEW t \in Thread, Request(t)
      PROVE  TypeOK'
  <2>1. CASE CallerOK'
    BY <1>0, <1>16, <2>1 DEF Request, TypeOK, CallerOK
  <2>2. CASE Goto(t, "clear") /\ UNCHANGED <<local, client>>
    BY <1>0, <1>16, <2>2 DEF Request, TypeOK, Goto, Fetching, local, client
  <2> QED
    BY <1>0, <1>16, <2>1, <2>2, FinishType, NextPathType DEF Request
<1>17. ASSUME NEW t \in Thread, ClearLocal(t)
      PROVE  TypeOK'
  BY <1>0, <1>17, HomeAssumption, TokenAssumption, PathsAssumption DEF ClearLocal, Forget, Goto, TypeOK, MaybeToken, Calling, Fetching, local, client
<1>18. ASSUME NEW t \in Thread, Compare(t)
      PROVE  TypeOK'
  BY <1>0, <1>18, HomeAssumption, TokenAssumption, PathsAssumption DEF Compare, Enter, Goto, TypeOK, MaybeToken, Calling, Fetching, local, client
<1>19. ASSUME NEW t \in Thread, Delete(t)
      PROVE  TypeOK'
  BY <1>0, <1>19, HomeAssumption, TokenAssumption, PathsAssumption DEF Delete, Enter, Goto, TypeOK, MaybeToken, Calling, Fetching, local, client
<1>20. ASSUME NEW t \in Thread, Retry(t)
      PROVE  TypeOK'
  <2>1. CallerOK'
    BY <1>0, <1>20, FinishType, NextPathType DEF Retry
  <2> QED
    BY <1>0, <1>20, <2>1 DEF Retry, TypeOK, CallerOK
<1>21. ASSUME NEW p \in Process, Age(p)
      PROVE  TypeOK'
  BY <1>0, <1>21, HomeAssumption, TokenAssumption, PathsAssumption DEF Age, Forget, TypeOK, MaybeToken, Calling, Fetching, local, client
<1>22. ASSUME NEW p \in Process, Restart(p)
      PROVE  TypeOK'
  BY <1>0, <1>22, HomeAssumption, TokenAssumption, PathsAssumption DEF Restart, Forget, TypeOK, MaybeToken, Calling, Fetching, local, client
<1>23. CASE SharedExpires
  BY <1>0, <1>23, HomeAssumption, TokenAssumption, PathsAssumption DEF SharedExpires, TypeOK, MaybeToken, Calling, Fetching, local, client
<1>24. CASE LockExpires
  BY <1>0, <1>24, HomeAssumption, TokenAssumption, PathsAssumption DEF LockExpires, TypeOK, MaybeToken, Calling, Fetching, local, client
<1>25. CASE SessionEnds
  BY <1>0, <1>25, HomeAssumption, TokenAssumption, PathsAssumption DEF SessionEnds, TypeOK, MaybeToken, Calling, Fetching, local, client
<1>26. CASE UNCHANGED vars
  BY <1>0, <1>26, HomeAssumption, TokenAssumption, PathsAssumption DEF vars, TypeOK, MaybeToken, Calling, Fetching, local, client
<1> QED
  BY <1>1, <1>2, <1>3, <1>4, <1>5, <1>6, <1>7, <1>8, <1>9, <1>10,
     <1>11, <1>12, <1>13, <1>14, <1>15, <1>16, <1>17, <1>18, <1>19,
     <1>20, <1>21, <1>22, <1>23, <1>24, <1>25, <1>26
  DEF Next, Advance

(* The cookie cache, the Redis keys and every caller's position stay well  *)
(* formed, whatever fails, expires or restarts.                            *)
THEOREM TypeCorrect == Spec => []TypeOK
<1>1. TypeOK /\ [Next]_vars => TypeOK'
  BY TypeStep
<1> QED
  BY TypeInit, <1>1, PTL DEF Spec

-----------------------------------------------------------------------------

(* A caller that won the lock is inside session_cookie.                    *)
WinnerCalls ==
  \A t \in Thread : got[t] => pc[t] \in {"enter", "posting", "publish", "unlock"}

Election == WinnerCalls /\ OneElected

LEMMA ElectionStep ==
  ASSUME TypeOK, Election, [Next]_vars, ~ LoginTrouble, ~ RedisFails
  PROVE  Election'
<1>1. ASSUME NEW t \in Thread, Start(t)
      PROVE  Election'
  BY <1>1 DEF Start, Enter, Goto, TypeOK, Election, WinnerCalls, OneElected, Elected, Calling, local, client
<1>2. ASSUME NEW t \in Thread, FastPath(t)
      PROVE  Election'
  BY <1>2 DEF FastPath, Return, Goto, TypeOK, Election, WinnerCalls, OneElected, Elected, Calling, local, client
<1>3. ASSUME NEW t \in Thread, ReadShared(t)
      PROVE  Election'
  BY <1>3 DEF ReadShared, Goto, TypeOK, Election, WinnerCalls, OneElected, Elected, Calling, local, client
<1>4. ASSUME NEW t \in Thread, Adopt(t)
      PROVE  Election'
  BY <1>4 DEF Adopt, Return, Goto, TypeOK, Election, WinnerCalls, OneElected, Elected, Calling, local, client
<1>5. ASSUME NEW t \in Thread, Elect(t)
      PROVE  Election'
  BY <1>5 DEF Elect, Goto, TypeOK, Election, WinnerCalls, OneElected, Elected, Calling, local, client
<1>6. ASSUME NEW t \in Thread, WaitFound(t)
      PROVE  Election'
  BY <1>6 DEF WaitFound, Goto, TypeOK, Election, WinnerCalls, OneElected, Elected, Calling, local, client
<1>7. ASSUME NEW t \in Thread, WaitTimeout(t)
      PROVE  Election'
  BY <1>7 DEF WaitTimeout, Goto, TypeOK, Election, WinnerCalls, OneElected, Elected, Calling, local, client
<1>8. ASSUME NEW t \in Thread, DoubleCheck(t)
      PROVE  Election'
  BY <1>8 DEF DoubleCheck, Return, Goto, TypeOK, Election, WinnerCalls, OneElected, Elected, Calling, local, client
<1>9. ASSUME NEW t \in Thread, LoginOk(t)
      PROVE  Election'
  BY <1>9 DEF LoginOk, Goto, TypeOK, Election, WinnerCalls, OneElected, Elected, Calling, local, client
<1>10. ASSUME NEW t \in Thread, LoginFail(t)
      PROVE  Election'
  BY <1>10 DEF LoginFail, Goto, TypeOK, Election, WinnerCalls, OneElected, Elected, Calling, local, client
<1>11. ASSUME NEW t \in Thread, GiveUp(t)
      PROVE  Election'
  BY <1>11 DEF GiveUp, Return, Goto, TypeOK, Election, WinnerCalls, OneElected, Elected, Calling, local, client
<1>12. ASSUME NEW t \in Thread, Publish(t)
      PROVE  Election'
  BY <1>12 DEF Publish, Goto, TypeOK, Election, WinnerCalls, OneElected, Elected, Calling, local, client
<1>13. ASSUME NEW t \in Thread, Unlock(t)
      PROVE  Election'
  BY <1>13 DEF Unlock, Return, Goto, TypeOK, Election, WinnerCalls, OneElected, Elected, Calling, local, client
<1>14. ASSUME NEW t \in Thread, Peek(t)
      PROVE  Election'
  BY <1>14 DEF Peek, Goto, TypeOK, Election, WinnerCalls, OneElected, Elected, Calling, local, client
<1>15. ASSUME NEW t \in Thread, PeekShared(t)
      PROVE  Election'
  BY <1>15 DEF PeekShared, Goto, TypeOK, Election, WinnerCalls, OneElected, Elected, Calling, local, client
<1>16. ASSUME NEW t \in Thread, Request(t)
      PROVE  Election'
  BY <1>16 DEF Request, NextPath, Finish, Goto, TypeOK, Election, WinnerCalls, OneElected, Elected, Calling, local, client
<1>17. ASSUME NEW t \in Thread, ClearLocal(t)
      PROVE  Election'
  BY <1>17 DEF ClearLocal, Forget, Goto, TypeOK, Election, WinnerCalls, OneElected, Elected, Calling, local, client
<1>18. ASSUME NEW t \in Thread, Compare(t)
      PROVE  Election'
  BY <1>18 DEF Compare, Enter, Goto, TypeOK, Election, WinnerCalls, OneElected, Elected, Calling, local, client
<1>19. ASSUME NEW t \in Thread, Delete(t)
      PROVE  Election'
  BY <1>19 DEF Delete, Enter, Goto, TypeOK, Election, WinnerCalls, OneElected, Elected, Calling, local, client
<1>20. ASSUME NEW t \in Thread, Retry(t)
      PROVE  Election'
  BY <1>20 DEF Retry, NextPath, Finish, Goto, TypeOK, Election, WinnerCalls, OneElected, Elected, Calling, local, client
<1>21. ASSUME NEW p \in Process, Age(p)
      PROVE  Election'
  BY <1>21 DEF Age, Forget, TypeOK, Election, WinnerCalls, OneElected, Elected, Calling, local, client
<1>22. ASSUME NEW p \in Process, Restart(p)
      PROVE  Election'
  BY <1>22 DEF Restart, Forget, TypeOK, Election, WinnerCalls, OneElected, Elected, Calling, local, client
<1>23. CASE SharedExpires
  BY <1>23 DEF SharedExpires, TypeOK, Election, WinnerCalls, OneElected, Elected, Calling, local, client
<1>24. CASE LockExpires
  BY <1>24 DEF LockExpires, TypeOK, Election, WinnerCalls, OneElected, Elected, Calling, local, client
<1>25. CASE SessionEnds
  BY <1>25 DEF SessionEnds, TypeOK, Election, WinnerCalls, OneElected, Elected, Calling, local, client
<1>26. CASE UNCHANGED vars
  BY <1>26 DEF vars, TypeOK, Election, WinnerCalls, OneElected, Elected, Calling, local, client
<1> QED
  BY <1>1, <1>2, <1>3, <1>4, <1>5, <1>6, <1>7, <1>8, <1>9, <1>10,
     <1>11, <1>12, <1>13, <1>14, <1>15, <1>16, <1>17, <1>18, <1>19,
     <1>20, <1>21, <1>22, <1>23, <1>24, <1>25, <1>26
  DEF Next, Advance

(* One caller at a time wins the login lock, in all replicas together, and *)
(* the lock is there until it is done, whichever replicas die: if logins   *)
(* neither fail nor outlast it and Redis answers.                          *)
THEOREM OneElectedHolds ==
  ASSUME ~ LoginTrouble, ~ RedisFails
  PROVE  Spec => []OneElected
<1>1. Init => TypeOK /\ Election
  BY TypeInit DEF Init, Election, WinnerCalls, OneElected
<1>2. TypeOK /\ Election /\ [Next]_vars => (TypeOK /\ Election)'
  BY TypeStep, ElectionStep
<1>3. Election => OneElected
  BY DEF Election
<1> QED
  BY <1>1, <1>2, <1>3, PTL DEF Spec

-----------------------------------------------------------------------------
(***************************************************************************)
(* The cookie a rejected caller comes back with.  What another thread of   *)
(* the process puts back is remembered; other replicas publish tokens the  *)
(* grid has just issued, which the caller cannot have reported.            *)
(***************************************************************************)

(* What t has reported is neither in its process's memory nor, once the    *)
(* report is complete, in Redis, nor is it what t returns with.            *)
Renewed(t) ==
  Reported(t) /\ used[t] # None =>
    /\ cookie[Home[t]] # used[t]
    /\ pc[t] \notin {"compare", "delete"} => shared # used[t]
    /\ pc[t] \in {"adopt", "publish", "unlock", "retry"} => token[t] # used[t]

(* A token about to be published is new to all other replicas.             *)
Unpublished(u) ==
  pc[u] = "publish" =>
    /\ token[u] \notin {None, shared}
    /\ \A p \in Process : p # Home[u] => cookie[p] # token[u]
    /\ \A w \in Thread : Home[w] # Home[u] => token[u] \notin {token[w], used[w]}
    /\ \A w \in Thread : w # u /\ pc[w] = "publish" => token[w] # token[u]

Refresh == \A t \in Thread : (~ restored[t] => Renewed(t)) /\ Unpublished(t)

(* A thread that this step leaves where it is.                             *)
Still(u) ==
  /\ pc'[u] = pc[u] /\ force'[u] = force[u]
  /\ token'[u] = token[u] /\ used'[u] = used[u]

(* What a step of t may do to the cookies and to its own.                  *)
New == Token \ Held

Moves(t) ==
  /\ \A u \in Thread : u # t => Still(u)
  /\ \A p \in Process : p # Home[t] => cookie'[p] = cookie[p]
  /\ \/ cookie'[Home[t]] \in {cookie[Home[t]], None} \cup New
     \/ pc[t] = "adopt" /\ pc'[t] # "adopt" /\ cookie'[Home[t]] = token[t]
  /\ \/ shared' \in {shared, None}
     \/ pc[t] = "publish" /\ pc'[t] # "publish" /\ shared' = token[t]
  /\ token'[t] \in {token[t], None, shared, cookie[Home[t]]} \cup New
  /\ used'[t] \in {used[t], None, shared, cookie[Home[t]]}
  /\ pc'[t] = "publish" => token'[t] \in New /\ shared' = shared
  /\ Renewed(t) => Renewed(t)'

LEMMA MovesKeep ==
  ASSUME TypeOK, Refresh, Remember, NEW t \in Thread, Moves(t)
  PROVE  Refresh'
<1>1. ASSUME NEW u \in Thread, ~ restored'[u]
      PROVE  Renewed(u)'
  <2> SUFFICES ASSUME Reported(u)' PROVE Renewed(u)'
    BY DEF Renewed
  <2>1. ~ restored[u] /\ \A w \in Thread : ~ PutBack(w, u)
    BY <1>1 DEF Remember
  <2>2. Renewed(u)
    BY <2>1 DEF Refresh
  <2>3. CASE u = t
    BY <2>2, <2>3 DEF Moves
  <2>4. CASE u # t
    <3>1. Still(u) /\ Home[u] \in Process /\ Home[t] \in Process
      BY <2>4, HomeAssumption DEF Moves
    <3>2. Reported(u)
      BY <3>1 DEF Still, Reported
    <3>3. used[u] # None => cookie'[Home[u]] # used[u]
      <4>1. CASE Home[u] # Home[t]
        BY <2>2, <3>1, <3>2, <4>1 DEF Moves, Renewed
      <4>2. CASE Home[u] = Home[t]
        <5>1. pc[t] = "adopt" /\ pc'[t] # "adopt" => token[t] # used[u]
          BY <2>1, <2>4, <4>2 DEF PutBack
        <5>2. used[u] \notin New
          BY DEF New, Held
        <5> QED
          BY <2>2, <3>2, <4>2, <5>1, <5>2 DEF Moves, Renewed
      <4> QED
        BY <4>1, <4>2
    <3>4. pc[t] = "publish" /\ pc'[t] # "publish" => token[t] # used[u]
      <4>1. CASE Home[u] # Home[t]
        BY <4>1 DEF Refresh, Unpublished
      <4>2. CASE Home[u] = Home[t]
        BY <2>1, <2>4, <4>2 DEF PutBack
      <4> QED
        BY <4>1, <4>2
    <3>5. used[u] # None /\ pc[u] \notin {"compare", "delete"} => shared' # used[u]
      BY <2>2, <3>2, <3>4 DEF Moves, Renewed
    <3> QED
      BY <2>2, <3>1, <3>2, <3>3, <3>5 DEF Still, Renewed
  <2> QED
    BY <2>3, <2>4
<1>2. ASSUME NEW u \in Thread, pc'[u] = "publish", u # t
      PROVE  Unpublished(u)'
  <2>1. Still(u) /\ Home[u] \in Process /\ Home[t] \in Process
    BY <1>2, HomeAssumption DEF Moves
  <2>2. pc[u] = "publish" /\ Unpublished(u) /\ token[u] \notin New
    BY <1>2, <2>1 DEF Refresh, Still, New, Held
  <2>3. token'[u] \notin {None, shared'}
    BY <1>2, <2>1, <2>2 DEF Moves, Still, Unpublished
  <2>4. \A p \in Process : p # Home[u] => cookie'[p] # token'[u]
    BY <1>2, <2>1, <2>2 DEF Moves, Still, Unpublished
  <2>5. \A w \in Thread : Home[w] # Home[u] => token'[u] \notin {token'[w], used'[w]}
    <3>1. ASSUME NEW w \in Thread, Home[w] # Home[u], w # t
          PROVE  token'[u] \notin {token'[w], used'[w]}
      BY <2>1, <2>2, <3>1 DEF Moves, Still, Unpublished
    <3>2. Home[t] # Home[u] => token'[u] \notin {token'[t], used'[t]}
      BY <2>1, <2>2 DEF Moves, Still, Unpublished
    <3> QED
      BY <3>1, <3>2
  <2>6. \A w \in Thread : w # u /\ pc'[w] = "publish" => token'[w] # token'[u]
    BY <2>1, <2>2 DEF Moves, Still, Unpublished
  <2> QED
    BY <2>3, <2>4, <2>5, <2>6 DEF Unpublished
<1>3. ASSUME pc'[t] = "publish"
      PROVE  Unpublished(t)'
  <2>1. token'[t] \in Token \ Held /\ shared' = shared /\ Home[t] \in Process
    BY <1>3, HomeAssumption DEF Moves, New
  <2>2. \A w \in Thread : w # t => token'[t] \notin {token'[w], used'[w]}
    BY <2>1 DEF Moves, Still, Held
  <2>3. \A p \in Process : p # Home[t] => cookie'[p] # token'[t]
    BY <2>1 DEF Moves, Held
  <2>4. token'[t] \notin {None, shared'}
    BY <2>1, TokenAssumption DEF Held
  <2> QED
    BY <2>2, <2>3, <2>4 DEF Unpublished
<1> QED
  BY <1>1, <1>2, <1>3 DEF Refresh, Unpublished

LEMMA ReturnMoves ==
  ASSUME TypeOK, NEW t \in Thread, pc[t] \in Calling, NEW result, Return(t, result),
         result \in {token[t], None, shared, cookie[Home[t]]},
         Renewed(t) /\ Reported(t) /\ used[t] # None => result # used[t],
         shared' = shared,
         \A p \in Process : p # Home[t] => cookie'[p] = cookie[p],
         \/ cookie'[Home[t]] = cookie[Home[t]]
         \/ pc[t] = "adopt" /\ result = token[t] /\ cookie'[Home[t]] = result
  PROVE  Moves(t)
<1>1. /\ pc' = [pc EXCEPT ![t] = IF t \notin Catalog THEN "idle" ELSE IF force[t] THEN "retry" ELSE "peek"]
      /\ token' = [token EXCEPT ![t] = IF force[t] THEN result ELSE None]
      /\ UNCHANGED <<force, used>>
  BY DEF Return, Goto
<1>2. \A u \in Thread : u # t => Still(u)
  BY <1>1 DEF Still, TypeOK
<1>3. /\ pc'[t] \in {"idle", "retry", "peek"}
      /\ pc'[t] = "retry" => force[t] /\ token'[t] = result
      /\ token'[t] \in {result, None} /\ used'[t] = used[t] /\ force'[t] = force[t]
  BY <1>1 DEF TypeOK
<1>4. Renewed(t) => Renewed(t)'
  <2> SUFFICES ASSUME Renewed(t), Reported(t)', used'[t] # None
               PROVE  /\ cookie'[Home[t]] # used[t] /\ shared # used[t] /\ token'[t] # used[t]
    BY <1>3 DEF Renewed
  <2>1. pc'[t] = "retry" /\ force[t]
    BY <1>3 DEF Reported, Calling
  <2>2. Reported(t) /\ used[t] # None
    BY <1>3, <2>1 DEF Reported
  <2> QED
    BY <1>3, <2>1, <2>2 DEF Renewed, Calling
<1> QED
  BY <1>2, <1>3, <1>4 DEF Moves

(* A step that ends or begins a call or a fetch reports nothing, or what   *)
(* is gone.                                                                *)
LEMMA EnterMoves ==
  ASSUME TypeOK, NEW t \in Thread, NEW f \in BOOLEAN, Enter(t, f),
         cookie' = cookie, used' = used, shared' \in {shared, None},
         f /\ Renewed(t) /\ used[t] # None => cookie[Home[t]] # used[t] /\ shared' # used[t]
  PROVE  Moves(t)
<1>1. /\ \A u \in Thread : u # t => Still(u)
      /\ pc'[t] = "fast" /\ token'[t] = None /\ force'[t] = f /\ used'[t] = used[t]
  BY DEF Enter, Goto, Still, TypeOK
<1>2. Renewed(t) => Renewed(t)'
  BY <1>1 DEF Renewed, Reported
<1> QED
  BY <1>1, <1>2 DEF Moves

LEMMA NextMoves ==
  ASSUME TypeOK, NEW t \in Thread, NextPath(t) \/ Finish(t), cookie' = cookie, shared' = shared
  PROVE  Moves(t)
<1>1. /\ \A u \in Thread : u # t => Still(u)
      /\ pc'[t] \in {"idle", "peek"} /\ token'[t] = None /\ used'[t] = None
  BY DEF NextPath, Finish, Goto, Still, TypeOK
<1> QED
  BY <1>1 DEF Moves, Renewed

(* A step inside a call that only goes on, or takes the shared cookie.     *)
LEMMA OnMoves ==
  ASSUME TypeOK, NEW t \in Thread,
         pc[t] \in Calling \ {"adopt", "publish", "unlock"},
         NEW label \in Calling \ {"publish", "unlock"}, Goto(t, label),
         UNCHANGED <<cookie, shared, force, used>>,
         \/ token' = token /\ label # "adopt"
         \/ token' = [token EXCEPT ![t] = shared]
  PROVE  Moves(t)
<1>1. /\ \A u \in Thread : u # t => Still(u)
      /\ pc'[t] = label /\ force'[t] = force[t] /\ used'[t] = used[t]
      /\ token'[t] \in {token[t], shared} /\ (label = "adopt" => token'[t] = shared)
  BY DEF Goto, Still, TypeOK
<1>2. Renewed(t) => Renewed(t)'
  BY <1>1 DEF Renewed, Reported, Calling
<1> QED
  BY <1>1, <1>2 DEF Moves

LEMMA LoginMoves ==
  ASSUME TypeOK, NEW t \in Thread, LoginOk(t)
  PROVE  Moves(t)
<1>1. PICK n \in New : /\ cookie' = [cookie EXCEPT ![Home[t]] = n]
                       /\ token' = [token EXCEPT ![t] = n]
  BY DEF LoginOk, New
<1>2. /\ pc[t] = "posting" /\ pc' = [pc EXCEPT ![t] = "publish"]
      /\ UNCHANGED <<force, used, shared>>
  BY DEF LoginOk, Goto, client
<1>3. /\ \A u \in Thread : u # t => Still(u)
      /\ pc'[t] = "publish" /\ token'[t] = n
  BY <1>1, <1>2 DEF Still, TypeOK
<1>4. /\ \A p \in Process : p # Home[t] => cookie'[p] = cookie[p]
      /\ cookie'[Home[t]] = n
  BY <1>1, HomeAssumption DEF TypeOK
<1>5. n # used[t]
  BY DEF New, Held
<1>6. Renewed(t) => Renewed(t)'
  BY <1>2, <1>3, <1>4, <1>5 DEF Renewed, Reported, Calling
<1> QED
  BY <1>2, <1>3, <1>4, <1>6 DEF Moves

LEMMA PublishMoves ==
  ASSUME TypeOK, NEW t \in Thread, Publish(t)
  PROVE  Moves(t)
<1>1. /\ \A u \in Thread : u # t => Still(u)
      /\ pc[t] = "publish" /\ pc'[t] = "unlock" /\ shared' \in {shared, token[t]}
      /\ force'[t] = force[t] /\ used'[t] = used[t] /\ token'[t] = token[t] /\ cookie' = cookie
  BY DEF Publish, Goto, Still, TypeOK, local, client
<1>2. Renewed(t) => Renewed(t)'
  BY <1>1 DEF Renewed, Reported, Calling
<1> QED
  BY <1>1, <1>2 DEF Moves

(* The steps of fetch_catalog around the report.                           *)
LEMMA FetchMoves ==
  ASSUME TypeOK, NEW t \in Thread, ~ RedisFails,
         Peek(t) \/ PeekShared(t) \/ Request(t) \/ ClearLocal(t) \/ Compare(t) \/ Delete(t) \/ Retry(t)
  PROVE  Moves(t)
<1>1. CASE Peek(t)
  <2>1. /\ \A u \in Thread : u # t => Still(u)
        /\ pc'[t] \in {"peekShared", "request"} /\ used'[t] = cookie[Home[t]]
        /\ UNCHANGED <<cookie, shared, token, force>>
    BY <1>1 DEF Peek, Goto, Still, TypeOK, local
  <2> QED
    BY <2>1 DEF Moves, Renewed, Reported, Calling
<1>2. CASE PeekShared(t)
  <2>1. /\ \A u \in Thread : u # t => Still(u)
        /\ pc'[t] = "request" /\ used'[t] = shared
        /\ UNCHANGED <<cookie, shared, token, force>>
    BY <1>2 DEF PeekShared, Goto, Still, TypeOK, local
  <2> QED
    BY <2>1 DEF Moves, Renewed, Reported, Calling
<1>3. CASE Request(t)
  <2>1. CASE NextPath(t) \/ Finish(t)
    BY <1>3, <2>1, NextMoves DEF Request
  <2>2. CASE Goto(t, "clear") /\ UNCHANGED <<local, client>>
    <3>1. /\ \A u \in Thread : u # t => Still(u)
          /\ pc'[t] = "clear"
          /\ UNCHANGED <<cookie, shared, token, force, used>>
      BY <1>3, <2>2 DEF Request, Goto, Still, TypeOK, local, client
    <3> QED
      BY <3>1 DEF Moves, Renewed, Reported, Calling
  <2> QED
    BY <1>3, <2>1, <2>2 DEF Request
<1>4. CASE ClearLocal(t)
  <2>1. /\ \A u \in Thread : u # t => Still(u)
        /\ pc'[t] = IF used[t] = None THEN "delete" ELSE "compare"
        /\ \A p \in Process : p # Home[t] => cookie'[p] = cookie[p]
        /\ cookie'[Home[t]] = IF used[t] \in {None, cookie[Home[t]]} THEN None ELSE cookie[Home[t]]
        /\ UNCHANGED <<shared, token, force, used>>
    BY <1>4, HomeAssumption DEF ClearLocal, Forget, Goto, Still, TypeOK, local, client
  <2>2. Renewed(t)'
    BY <2>1 DEF Renewed
  <2> QED
    BY <2>1, <2>2 DEF Moves
<1>5. CASE Compare(t)
  <2>1. CASE Goto(t, "delete") /\ UNCHANGED local
    <3>1. /\ \A u \in Thread : u # t => Still(u)
          /\ pc[t] = "compare" /\ pc'[t] = "delete"
          /\ UNCHANGED <<cookie, shared, token, force, used>>
      BY <1>5, <2>1 DEF Compare, Goto, Still, TypeOK, local, client
    <3> QED
      BY <3>1 DEF Moves, Renewed, Reported, Calling
  <2>2. CASE shared # used[t] /\ Enter(t, TRUE)
    <3>1. Renewed(t) /\ used[t] # None => cookie[Home[t]] # used[t]
      BY <1>5 DEF Compare, Renewed, Reported
    <3> QED
      BY <1>5, <2>2, <3>1, EnterMoves DEF Compare, client
  <2> QED
    BY <1>5, <2>1, <2>2 DEF Compare
<1>6. CASE Delete(t)
  <2>1. Renewed(t) /\ used[t] # None => cookie[Home[t]] # used[t]
    BY <1>6 DEF Delete, Renewed, Reported
  <2>2. shared' = None /\ cookie' = cookie /\ used' = used /\ Enter(t, TRUE)
    BY <1>6 DEF Delete, client
  <2> QED
    BY <2>1, <2>2, EnterMoves
<1>7. CASE Retry(t)
  BY <1>7, NextMoves DEF Retry
<1> QED
  BY <1>1, <1>2, <1>3, <1>4, <1>5, <1>6, <1>7

(* The steps of session_cookie.                                            *)
LEMMA CallMoves ==
  ASSUME TypeOK, NEW t \in Thread, ~ RedisFails,
         \/ FastPath(t) \/ ReadShared(t) \/ Adopt(t) \/ Elect(t) \/ WaitFound(t)
         \/ WaitTimeout(t) \/ DoubleCheck(t) \/ LoginFail(t) \/ GiveUp(t) \/ Unlock(t)
  PROVE  Moves(t)
<1> USE DEF Calling, local, client
<1>1. CASE FastPath(t)
  <2>1. CASE Return(t, cookie[Home[t]])
    BY <1>1, <2>1, ReturnMoves DEF FastPath, Renewed
  <2>2. CASE Goto(t, "read") /\ UNCHANGED <<local, client>>
    BY <1>1, <2>2, OnMoves DEF FastPath
  <2> QED
    BY <1>1, <2>1, <2>2 DEF FastPath
<1>2. CASE ReadShared(t)
  BY <1>2, OnMoves DEF ReadShared
<1>3. CASE Adopt(t)
  <2>1. /\ \A p \in Process : p # Home[t] => cookie'[p] = cookie[p]
        /\ cookie'[Home[t]] = token[t]
    BY <1>3, HomeAssumption DEF Adopt, TypeOK
  <2>2. Renewed(t) /\ Reported(t) /\ used[t] # None => token[t] # used[t]
    BY <1>3 DEF Adopt, Renewed
  <2> QED
    BY <1>3, <2>1, <2>2, ReturnMoves DEF Adopt
<1>4. CASE Elect(t)
  BY <1>4, OnMoves DEF Elect
<1>5. CASE WaitFound(t)
  BY <1>5, OnMoves DEF WaitFound
<1>6. CASE WaitTimeout(t)
  BY <1>6, OnMoves DEF WaitTimeout
<1>7. CASE DoubleCheck(t)
  <2>1. CASE Return(t, cookie[Home[t]])
    BY <1>7, <2>1, ReturnMoves DEF DoubleCheck, Renewed
  <2>2. CASE Goto(t, "posting") /\ UNCHANGED <<local, client>>
    BY <1>7, <2>2, OnMoves DEF DoubleCheck
  <2> QED
    BY <1>7, <2>1, <2>2 DEF DoubleCheck
<1>8. CASE LoginFail(t)
  BY <1>8, OnMoves DEF LoginFail
<1>9. CASE GiveUp(t)
  BY <1>9, ReturnMoves DEF GiveUp, Renewed
<1>10. CASE Unlock(t)
  <2>1. Renewed(t) /\ Reported(t) /\ used[t] # None => token[t] # used[t]
    BY <1>10 DEF Unlock, Renewed
  <2> QED
    BY <1>10, <2>1, ReturnMoves DEF Unlock
<1> QED
  BY <1>1, <1>2, <1>3, <1>4, <1>5, <1>6, <1>7, <1>8, <1>9, <1>10

(* Cookies are lost, and a replica's threads perhaps with them.            *)
LEMMA LossKeeps ==
  ASSUME TypeOK, Refresh, Remember,
         \A u \in Thread : \/ Still(u)
                           \/ pc'[u] = "idle" /\ ~ force'[u] /\ token'[u] = None /\ used'[u] = None,
         \A p \in Process : cookie'[p] \in {cookie[p], None},
         shared' \in {shared, None}
  PROVE  Refresh'
<1>1. ASSUME NEW u \in Thread, ~ restored'[u]
      PROVE  Renewed(u)'
  <2>1. CASE Reported(u)'
    <3>1. Still(u) /\ ~ restored[u] /\ Home[u] \in Process
      BY <1>1, <2>1, HomeAssumption DEF Remember, Reported, Calling
    <3>2. Reported(u) /\ Renewed(u)
      BY <2>1, <3>1 DEF Refresh, Still, Reported
    <3> QED
      BY <3>1, <3>2 DEF Still, Renewed
  <2>2. CASE ~ Reported(u)'
    BY <2>2 DEF Renewed
  <2> QED
    BY <2>1, <2>2
<1>2. ASSUME NEW u \in Thread, pc'[u] = "publish"
      PROVE  Unpublished(u)'
  <2>1. Still(u) /\ pc[u] = "publish" /\ Unpublished(u)
    BY <1>2 DEF Still, Refresh
  <2>2. /\ token'[u] = token[u] /\ token[u] # None
        /\ \A w \in Thread : /\ token'[w] \in {token[w], None}
                             /\ used'[w] \in {used[w], None}
                             /\ pc'[w] = "publish" => pc[w] = "publish" /\ token'[w] = token[w]
    BY <2>1 DEF Still, Unpublished
  <2> QED
    BY <2>1, <2>2 DEF Unpublished
<1> QED
  BY <1>1, <1>2 DEF Refresh, Unpublished

LEMMA RefreshStep ==
  ASSUME TypeOK, Refresh, [Next]_vars, ~ RedisFails
  PROVE  Refresh'
<1>1. ASSUME NEW t \in Thread, Start(t), Remember
      PROVE  Refresh'
  BY <1>1, EnterMoves, MovesKeep DEF Start
<1>2. ASSUME NEW t \in Thread, Advance(t), Remember
      PROVE  Refresh'
  <2>1. Moves(t)
    BY <1>2, CallMoves, LoginMoves, PublishMoves, FetchMoves DEF Advance
  <2> QED
    BY <1>2, <2>1, MovesKeep
<1>3. ASSUME NEW p \in Process, Age(p) \/ Restart(p), Remember
      PROVE  Refresh'
  <2>1. \A u \in Thread : \/ Still(u)
                          \/ pc'[u] = "idle" /\ ~ force'[u] /\ token'[u] = None /\ used'[u] = None
    <3>1. CASE Age(p)
      BY <3>1 DEF Age, Still, local, client
    <3>2. CASE Restart(p)
      BY <3>2 DEF Restart, Still, TypeOK
    <3> QED
      BY <1>3, <3>1, <3>2
  <2>2. (\A q \in Process : cookie'[q] \in {cookie[q], None}) /\ shared' = shared
    BY <1>3 DEF Age, Restart, Forget, TypeOK
  <2> QED
    BY <1>3, <2>1, <2>2, LossKeeps
<1>4. CASE (SharedExpires \/ LockExpires \/ SessionEnds) /\ Remember
  <2>1. \A u \in Thread : Still(u)
    BY <1>4 DEF SharedExpires, LockExpires, SessionEnds, Still, local, client
  <2>2. cookie' = cookie /\ shared' \in {shared, None}
    BY <1>4 DEF SharedExpires, LockExpires, SessionEnds
  <2> QED
    BY <1>4, <2>1, <2>2, LossKeeps
<1>5. CASE UNCHANGED vars
  BY <1>5 DEF vars, local, client, Refresh, Renewed, Reported, Unpublished
<1> QED
  BY <1>1, <1>2, <1>3, <1>4, <1>5 DEF Next

(* The cookie fetch_catalog retries with is another one than the cookie it *)
(* has reported to invalidate_session, unless another thread of the same   *)
(* process has put that one back since: for any number of replicas and of  *)
(* threads in each, whichever log in, die or wait meanwhile and however    *)
(* logins fail, as long as Redis answers.                                  *)
THEOREM RefreshIsNewHolds ==
  ASSUME ~ RedisFails
  PROVE  Spec => []RefreshIsNew
<1>1. Init => TypeOK /\ Refresh
  BY TypeInit DEF Init, Refresh, Renewed, Reported, Unpublished, Calling
<1>2. TypeOK /\ Refresh /\ [Next]_vars => (TypeOK /\ Refresh)'
  BY TypeStep, RefreshStep
<1>3. TypeOK /\ Refresh => RefreshIsNew
  BY DEF TypeOK, Refresh, Renewed, Reported, RefreshIsNew
<1> QED
  BY <1>1, <1>2, <1>3, PTL DEF Spec
=============================================================================
