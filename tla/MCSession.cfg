SPECIFICATION Spec
CONSTANTS
  b1 = b1
  b2 = b2
  t1 = t1
  t2 = t2
  f1 = f1
  f2 = f2
  None = None
  LocalUser = admin
  GoogleUser = guest
  Browser <- MCBrowser
  Tab <- MCTab
  BrowserOf <- MCBrowserOf
  Flow <- MCFlow
  MaxAge = 0
  FlowAge = 1
  MaxTime = 1
SYMMETRY Symmetry
CHECK_DEADLOCK FALSE
INVARIANTS
  TypeOK
  SignOutLasts
PROPERTIES
  SessionsEarned
  LocalSessionHolds
