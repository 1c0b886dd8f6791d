SPECIFICATION DeskSpec
CONSTANTS
  f1 = f1  f2 = f2
  Files = {f1, f2}
  Threads = {t1}
  Unbound = Unbound
  m1 = m1  m2 = m2
  Messages = {m1, m2}
  TwoPerson = {m1}
  Admins = {ann, bob, eve}
  Nobody = Nobody
  MaxCalls = 2
  Leads = {l1}
  Dates = {d1, d2}
  NoDate = NoDate
  MaxEvaluations = 2
INVARIANTS
  DeskTypeOK OnlyClearedIsHandedOut PurgedIsErased
  TwoPeopleAgree ValueIsEarned FlagsFollowTheDeal
PROPERTIES
  ResolvedIsFinal
  QuietFilesStayShut RetentionIsKept EndedStaysEnded RejectedGoesNowhere
CHECK_DEADLOCK FALSE
