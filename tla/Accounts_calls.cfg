\* One super admin, and calls that overlap in every way.
CONSTANTS
    c1 = c1  c2 = c2  c3 = c3  x1 = x1  x2 = x2  e1 = e1  e2 = e2  E1 = E1
    Users = {1, 2, 3}
    Emails = {e1, e2, E1}
    Lower <- LowerCase
    Identities = {x1, x2}
    Fresh = Fresh
    EmailOf <- EmailsOf
    Invitations = {1, 2}
    Calls = {c1, c2, c3}
    NoUser = 0
    NoEmail = NoEmail
    NoInvitation = 0
    Initial <- OneSuper
    MaxDbErrors = 1
SYMMETRY Alike
SPECIFICATION Spec
INVARIANTS OnePending AcceptedOnce OneUserPerEmail OneOrganization
PROPERTIES DeactivationSparesLast
\* All calls may have ended.
CHECK_DEADLOCK FALSE
