SPECIFICATION NotificationsSpec
CONSTANTS
  Users = {u1}
  Tokens = {t1, t2}
  SignIns = {s1}
  Notices = {n1}
  NoToken = NoToken
CHECK_DEADLOCK FALSE
PROPERTY OnlyReportedCleared
