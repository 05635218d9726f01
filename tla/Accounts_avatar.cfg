SPECIFICATION AccountsSpec
CONSTANTS
  Identities = {"a1"}
  EmailOf <- MCEmailOf
  AdminEmails = {"b"}
  PartnerEmails = {}
  Roles = {"farmer"}
  Cnics = {"n1"}
  Legacy = "a"
  Requests = {q1}
  MaxUsers = 1
  MaxUploads = 2
  NoOne = NoOne
INVARIANT AvatarShown
