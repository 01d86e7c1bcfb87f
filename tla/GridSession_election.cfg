SPECIFICATION Spec
CONSTANTS
  p1 = p1
  p2 = p2
  p3 = p3
  t1 = t1
  t2 = t2
  t3 = t3
  Process = {p1, p2}
  Thread = {t1, t2, t3}
  Home <- TwoAndOne
  Catalog = {t1}
  Token <- Tokens
  Paths = 2
  None = None
  LoginTrouble = FALSE
  Mortal = {}
  RedisFails = FALSE
  Lapse = {"grid", "shared"}
  Expiring = {p1}
INVARIANTS
  OneElected
  RefreshIsNew
VIEW SessionView
