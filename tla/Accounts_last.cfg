\* One super admin, whose status is updated.
CONSTANTS
    c1 = c1  c2 = c2  c3 = c3  x1 = x1  x2 = x2  e1 = e1  e2 = e2  E1 = E1
    Users = {1}
    Emails = {e1, e2, E1}
    Lower <- LowerCase
    Identities = {}
    Fresh = Fresh
    EmailOf <- NoEmails
    Invitations = {}
    Calls = {c1}
    NoUser = 0
    NoEmail = NoEmail
    NoInvitation = 0
    Initial <- OneSuper
    MaxDbErrors = 0
SPECIFICATION Spec
PROPERTIES LastSuperAdmin
\* All calls may have ended.
CHECK_DEADLOCK FALSE
