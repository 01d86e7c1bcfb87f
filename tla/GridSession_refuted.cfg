\* What TLC refutes of GridSession, one property at a time.  To see another, let
\* its line take the place of the last one, with the values noted above it.
SPECIFICATION Spec
CONSTANTS
  p1 = p1
  p2 = p2
  p3 = p3
  t1 = t1
  t2 = t2
  t3 = t3
  Process = {p1, p2}
  Thread = {t1, t2}
  Home <- OneEach
  Catalog = {t1, t2}
  Token <- Tokens
  Paths = 1
  None = None
  LoginTrouble = FALSE
  Mortal = {}
  RedisFails = FALSE
  Lapse = {}
  Expiring = {}
INVARIANT KeepsRefreshedSession
\* with SPECIFICATION FairSpec
\* PROPERTY LoginsSettle
\* with LoginTrouble = TRUE
\* INVARIANT OneReplicaLogsIn
\* with Home <- TwoInOne, Catalog = {t1}, Lapse = {"grid"}
\* INVARIANT RefreshIsAlwaysNew
