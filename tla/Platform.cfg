SPECIFICATION PlatformSpec
CONSTANTS
  Posts = {p1}
  Comments = {k1, k2}
  Products = {q1}
  Calls = {c1, c2}
  MaxAudit = 2
  NoTarget = NoTarget
  Users = {u1, u2}
  Tokens = {t1, t2}
  SignIns = {c1, c2}
  Notices = {n1}
  NoToken = NoToken
  Identities = {"a1", "a2", "b"}
  EmailOf <- MCEmailOf
  AdminEmails = {"b"}
  PartnerEmails = {"b"}
  Roles = {"farmer", "partner"}
  Cnics = {"n1"}
  Legacy = "a"
  Requests = {c1, c2}
  MaxUsers = 2
  MaxUploads = 2
  NoOne = NoOne
CHECK_DEADLOCK FALSE
SYMMETRY MCSymmetry
INVARIANTS
  CommentCountInStep
  AuditTellsVisibility
  TokenMoves
  AccountsWhole
  RemovedPhotoIsGone
PROPERTY OnlyRestoreRepublishes
