SPECIFICATION FairSpec
CONSTANTS
  p1 = p1
  p2 = p2
  p3 = p3
  t1 = t1
  t2 = t2
  t3 = t3
  Process = {p1}
  Thread = {t1, t2}
  Home <- TwoInOne
  Catalog = {t1}
  Token <- Tokens
  Paths = 1
  None = None
  LoginTrouble = TRUE
  Mortal = {p1}
  RedisFails = TRUE
  Lapse = {}
  Expiring = {}
PROPERTY CallReturns
