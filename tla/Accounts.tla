------------------------------- MODULE Accounts -------------------------------
(***************************************************************************)
(* AuthService, UsersService and AdminService: the table of users, the     *)
(* invitations of platform admins, and the calls that change them.  A      *)
(* sign-in finds the user of its identity, links the user of its email, or *)
(* provisions an organization and a user.  An invitation is accepted with  *)
(* its token, and makes an admin of the user of its email or of the        *)
(* identity that is named.                                                 *)
(*                                                                         *)
(* Every step below is one call of the database; between any two of them   *)
(* steps of other calls run; no lock, transaction or index but the one     *)
(* over identities keeps calls apart.  save stores the copy of the row     *)
(* that was read: every column of it but those that are undefined.  Where  *)
(* two calls meet so that both do what one should, the meeting is          *)
(* remembered: in reissued, crowded, shared and overtaken.                 *)
(*                                                                         *)
(* Left out: names, tokens and permissions; who may call what, and so the  *)
(* refusals for want of authority.  A call that is refused at its first    *)
(* query changes nothing, and is a call that never begins.                 *)
(***************************************************************************)
EXTENDS Naturals

CONSTANTS
    Users,          \* bound: ids of users, in the order of their insertion
    Emails,         \* addresses as they are written
    Lower,          \* Lower[e]: e in lower case
    Identities,     \* what the identity provider calls people
    Fresh,          \* a random identity, with which nobody signs in
    EmailOf,        \* EmailOf[x]: the email in the tokens of identity x
    Invitations,    \* bound: ids of invitations
    Calls,
    NoUser, NoEmail, NoInvitation,
    Initial,        \* the users at the beginning
    MaxDbErrors     \* bound: database calls that fail

VARIABLES
    user,       \* user[u]: the row of user u
    inv,        \* inv[i]: the row of invitation i
    late,       \* invitations whose expiresAt has passed
    pc,         \* pc[c]: the database call that c makes next, or how it ended
    arg,        \* arg[c]: what c has read and is to write
    granted,    \* granted[i]: calls that made an admin on account of i
    founders,   \* calls that provisioned an organization
    reissued,   \* emails invited by a call while another was to store one too
    crowded,    \* new emails that two calls were to insert a user for
    shared,     \* invitations that two calls accepted beside each other
    overtaken,  \* deactivations after whose check the super admins changed
    dbErrors    \* failed database calls so far

invitations == <<inv, late>>
history == <<granted, founders, reissued, crowded, shared, overtaken>>
vars == <<user, invitations, pc, arg, history, dbErrors>>

\* "team" stands for owner, admin, manager and cashier.
Roles == {"super", "sub", "team"}
\* "suspended" stands for pending too: only active users are told from others.
Statuses == {"active", "suspended"}

Row == [status : Statuses \cup {"none"}, email : Emails \cup {NoEmail},
        identity : Identities \cup {Fresh}, role : Roles,
        admin : BOOLEAN, org : BOOLEAN]
NoRow == [status |-> "none", email |-> NoEmail, identity |-> Fresh,
          role |-> "team", admin |-> FALSE, org |-> FALSE]

\* A copy of a row in which "keep" stands for undefined.
Copy == [status : Statuses \cup {"none", "keep"}, email : Emails \cup {NoEmail},
         identity : Identities \cup {Fresh}, role : Roles \cup {"keep"},
         admin : BOOLEAN, org : BOOLEAN]

Invitation == [status : {"none", "pending", "accepted", "expired", "revoked"},
               email : Emails \cup {NoEmail}, role : {"super", "sub"}]
NoInvitationRow == [status |-> "none", email |-> NoEmail, role |-> "sub"]

ASSUME AccountConstants ==
    /\ Users \subseteq Nat /\ Invitations \subseteq Nat
    /\ NoUser \notin Users /\ NoInvitation \notin Invitations
    /\ NoEmail \notin Emails /\ Fresh \notin Identities
    /\ Lower \in [Emails -> Emails] /\ EmailOf \in [Identities -> Emails]
    /\ Initial \in [Users -> Row]
    /\ \A u \in Users : Initial[u].status # "none" => Initial[u].email \in Emails
    /\ \A u, v \in Users :
          Initial[u].status # "none" /\ Initial[u].email = Initial[v].email => u = v
    /\ MaxDbErrors \in Nat

Ops == {"none", "invite", "accept", "revoke", "signIn", "create", "update",
        "delete", "updateAdmin", "deactivate", "activate"}
Arg == [op : Ops, user : Users \cup {NoUser}, row : Copy,
        inv : Invitations \cup {NoInvitation}]
NoArg == [op |-> "none", user |-> NoUser, row |-> NoRow, inv |-> NoInvitation]

Inviting == {"withdraw", "issue"}
Changing == {"expire", "match", "count", "byEmail", "found", "insert", "save", "mark"}
Working == Inviting \cup Changing \cup {"cancel"}
Addresses == Emails \cup {NoEmail}

TypeOK ==
    /\ user \in [Users -> Row]
    /\ inv \in [Invitations -> Invitation]
    /\ late \subseteq Invitations
    /\ pc \in [Calls -> {"new", "done", "refused", "error"} \cup Working]
    /\ arg \in [Calls -> Arg]
    /\ granted \in [Invitations -> SUBSET Calls]
    /\ founders \subseteq Calls
    /\ reissued \subseteq Addresses /\ crowded \subseteq Addresses
    /\ shared \subseteq Invitations /\ overtaken \subseteq Calls
    /\ dbErrors \in 0..MaxDbErrors

Init ==
    /\ user = Initial
    /\ inv = [i \in Invitations |-> NoInvitationRow]
    /\ late = {}
    /\ pc = [c \in Calls |-> "new"]
    /\ arg = [c \in Calls |-> NoArg]
    /\ granted = [i \in Invitations |-> {}]
    /\ founders = {}
    /\ reissued = {} /\ crowded = {} /\ shared = {} /\ overtaken = {}
    /\ dbErrors = 0

-----------------------------------------------------------------------------
Stored == {u \in Users : user[u].status # "none"}
WithEmail(e) == {u \in Stored : user[u].email = e}
WithIdentity(x) == {u \in Stored : user[u].identity = x /\ x # Fresh}

\* getAdminById takes these for admins.
IsAdmin(r) == r.admin \/ r.role \in {"super", "sub"}
ActiveSupers == {u \in Stored : user[u].role = "super" /\ user[u].status = "active"}

\* Call c goes on at label l.
GoTo(c, l) == pc' = [pc EXCEPT ![c] = l]

\* Call c has read, and goes on at label l with what it is to write.
Begin(c, o, u, r, i, l) ==
    /\ arg' = [arg EXCEPT ![c] = [op |-> o, user |-> u, row |-> r, inv |-> i]]
    /\ GoTo(c, l)
    /\ UNCHANGED <<user, invitations, history, dbErrors>>

-----------------------------------------------------------------------------
(* Meetings of calls.                                                      *)

\* The email of c, if another call has withdrawn the invitations for it too
\* and is about to store one.
InvitedTwice(c) == {e \in {arg[c].row.email} : \E d \in Calls \ {c} :
                       pc[d] = "issue" /\ arg[d].row.email = e}

\* The email of c, if another call has found no user of it too and is about to
\* insert one.
InsertedTwice(c) == {e \in {arg[c].row.email} : \E d \in Calls \ {c} :
                        pc[d] \in {"found", "insert"} /\ arg[d].row.email = e}

\* The invitation that c accepts, if another call accepts it too.
AcceptedTwice(c) == {i \in {arg[c].inv} : \E d \in Calls \ {c} :
                        /\ arg[d].op = "accept" /\ arg[d].inv = i
                        /\ pc[d] \in {"match", "insert", "save", "mark"}}

\* The other deactivations that have made sure of what they are about to do.
Checked(c) == {d \in Calls \ {c} : pc[d] = "save" /\ arg[d].op = "deactivate"}

-----------------------------------------------------------------------------
(* Invitations.                                                            *)

\* inviteAdmin: unless an active admin has the email.
Invite(c) ==
    /\ pc[c] = "new"
    /\ \E e \in Emails, r \in {"super", "sub"} :
        /\ \A u \in WithEmail(Lower[e]) : ~(user[u].admin /\ user[u].status = "active")
        /\ Begin(c, "invite", NoUser, [NoRow EXCEPT !.email = Lower[e], !.role = r],
                 NoInvitation, "withdraw")

\* Mutant of Withdrawn: expired invitations are withdrawn.
WithdrawnExpired(e) == {i \in Invitations : inv[i].email = e /\ inv[i].status = "expired"}

\* The invitations that a new one for e replaces.
Withdrawn(e) == {i \in Invitations : inv[i].email = e /\ inv[i].status = "pending"}

\* Pending invitations for the email are revoked,
Withdraw(c) ==
    /\ pc[c] = "withdraw"
    /\ inv' = [i \in Invitations |->
                 IF i \in Withdrawn(arg[c].row.email)
                 THEN [inv[i] EXCEPT !.status = "revoked"] ELSE inv[i]]
    /\ reissued' = reissued \ {arg[c].row.email}
    /\ GoTo(c, "issue")
    /\ UNCHANGED <<user, late, arg, granted, founders, crowded, shared, overtaken, dbErrors>>

\* and a new one is stored.
Issue(c) ==
    /\ pc[c] = "issue"
    /\ \E i \in Invitations :
        /\ inv[i].status = "none"
        /\ \A j \in Invitations : j < i => inv[j].status # "none"
        /\ inv' = [inv EXCEPT ![i] = [status |-> "pending", email |-> arg[c].row.email,
                                      role |-> arg[c].row.role]]
    /\ reissued' = reissued \cup InvitedTwice(c)
    /\ GoTo(c, "done")
    /\ UNCHANGED <<user, late, arg, granted, founders, crowded, shared, overtaken, dbErrors>>

\* The seven days of an invitation pass.
TimePasses(i) ==
    /\ inv[i].status # "none"
    /\ late' = late \cup {i}
    /\ UNCHANGED <<user, inv, pc, arg, history, dbErrors>>

\* revokeInvitation, whatever the status of the invitation.
Revoke(c) ==
    /\ pc[c] = "new"
    /\ \E i \in Invitations :
        /\ inv[i].status # "none"
        /\ Begin(c, "revoke", NoUser, NoRow, i, "cancel")

Cancel(c) ==
    /\ pc[c] = "cancel"
    /\ inv' = [inv EXCEPT ![arg[c].inv].status = "revoked"]
    /\ GoTo(c, "done")
    /\ UNCHANGED <<user, late, arg, history, dbErrors>>

\* Mutant of Acceptable: a token may be used again.
AcceptableAgain(i) == inv[i].status \in {"pending", "accepted"}

Acceptable(i) == inv[i].status = "pending"

\* acceptInvitation: it finds the pending invitation of the token; x is the
\* identity the caller names, if any.
Accept(c) ==
    /\ pc[c] = "new"
    /\ \E i \in Invitations, x \in Identities \cup {Fresh} :
        /\ Acceptable(i)
        /\ Begin(c, "accept", NoUser,
                 [status |-> "active", email |-> inv[i].email, identity |-> x,
                  role |-> inv[i].role, admin |-> TRUE, org |-> FALSE],
                 i, IF i \in late THEN "expire" ELSE "match")

Expire(c) ==
    /\ pc[c] = "expire"
    /\ inv' = [inv EXCEPT ![arg[c].inv].status = "expired"]
    /\ GoTo(c, "refused")
    /\ UNCHANGED <<user, late, arg, history, dbErrors>>

\* The user of the email or of the identity becomes the admin, else a new one.
Match(c) ==
    /\ pc[c] = "match"
    /\ LET S == WithEmail(arg[c].row.email) \cup WithIdentity(arg[c].row.identity)
       IN  IF S = {}
           THEN GoTo(c, "insert") /\ UNCHANGED arg
           ELSE \E u \in S :
                 /\ GoTo(c, "save")
                 /\ arg' = [arg EXCEPT
                       ![c].user = u,
                       ![c].row = [user[u] EXCEPT !.role = arg[c].row.role,
                                     !.admin = TRUE, !.status = "active"]]
    /\ UNCHANGED <<user, invitations, history, dbErrors>>

\* The invitation is marked after the user was saved.
Mark(c) ==
    /\ pc[c] = "mark"
    /\ inv' = [inv EXCEPT ![arg[c].inv].status = "accepted"]
    /\ shared' = shared \cup AcceptedTwice(c)
    /\ GoTo(c, "done")
    /\ UNCHANGED <<user, late, arg, granted, founders, reissued, crowded, overtaken, dbErrors>>

-----------------------------------------------------------------------------
(* Users.                                                                  *)

\* authenticateBearerToken: the user of identity x signs in, ...
SignIn(c) ==
    /\ pc[c] = "new"
    /\ \E x \in Identities :
        \/ \E u \in WithIdentity(x) :
             Begin(c, "signIn", u, user[u], NoInvitation, "save")
        \/ /\ WithIdentity(x) = {}
           /\ Begin(c, "signIn", NoUser,
                    [status |-> "active", email |-> EmailOf[x], identity |-> x,
                     role |-> "team", admin |-> FALSE, org |-> TRUE],
                    NoInvitation, "byEmail")

\* Mutant of Linkable: only active users are linked.
LinkableActive(e) == {u \in WithEmail(e) : user[u].status = "active"}

Linkable(e) == WithEmail(e)

\* ... or the identity is linked to the user of its email; else the user is to
\* be provisioned, in the organization of the request or in a new one.
Link(c) ==
    /\ pc[c] = "byEmail"
    /\ IF Linkable(arg[c].row.email) = {}
       THEN \E l \in {"found", "insert"} : GoTo(c, l) /\ UNCHANGED arg
       ELSE \E u \in Linkable(arg[c].row.email) :
             /\ GoTo(c, "save")
             /\ arg' = [arg EXCEPT
                   ![c].user = u,
                   ![c].row = [user[u] EXCEPT !.identity = arg[c].row.identity]]
    /\ UNCHANGED <<user, invitations, history, dbErrors>>

\* The organization for the user that call c provisions is stored.
Establish(c) == founders' = founders \cup {c}

\* It is created before the user.
Found(c) ==
    /\ pc[c] = "found"
    /\ Establish(c)
    /\ crowded' = crowded \cup InsertedTwice(c)
    /\ GoTo(c, "insert")
    /\ UNCHANGED <<user, invitations, arg, granted, reissued, shared, overtaken, dbErrors>>

\* Mutant of Creatable: the email is not looked up.
CreatableAlways(e) == TRUE

Creatable(e) == WithEmail(e) = {}

\* create: a member of the caller's organization, whose email must be new.
Create(c) ==
    /\ pc[c] = "new"
    /\ \E e \in Emails, x \in Identities \cup {Fresh}, r \in Roles, s \in Statuses :
        /\ Creatable(e)
        /\ Begin(c, "create", NoUser,
                 [status |-> s, email |-> e, identity |-> x,
                  role |-> r, admin |-> FALSE, org |-> TRUE],
                 NoInvitation, "insert")

\* update and delete take users of the caller's organization; the fields an
\* UpdateUserDto does not have are undefined in it.
Update(c) ==
    /\ pc[c] = "new"
    /\ \E u \in Stored, r \in Roles \cup {"keep"}, s \in Statuses \cup {"keep"} :
        /\ user[u].org
        /\ Begin(c, "update", u, [user[u] EXCEPT !.role = r, !.status = s],
                 NoInvitation, "save")

Delete(c) ==
    /\ pc[c] = "new"
    /\ \E u \in Stored :
        /\ user[u].org
        /\ Begin(c, "delete", u, [user[u] EXCEPT !.status = "suspended"],
                 NoInvitation, "save")

-----------------------------------------------------------------------------
(* Admins.                                                                 *)

\* updateAdmin changes the fields the DTO has, in the copy.
UpdateAdmin(c) ==
    /\ pc[c] = "new"
    /\ \E u \in Stored, r \in Roles, s \in Statuses :
        /\ IsAdmin(user[u])
        /\ Begin(c, "updateAdmin", u, [user[u] EXCEPT !.role = r, !.status = s],
                 NoInvitation, "save")

\* deactivateAdmin: super admins are counted first.
Deactivate(c) ==
    /\ pc[c] = "new"
    /\ \E u \in Stored :
        /\ IsAdmin(user[u])
        /\ Begin(c, "deactivate", u, [user[u] EXCEPT !.status = "suspended"],
                 NoInvitation, IF user[u].role = "super" THEN "count" ELSE "save")

\* Mutant of Enough: one active super admin is enough.
EnoughOne == ActiveSupers # {}

\* activeSuperAdmins > 1.
Enough == \E u, v \in ActiveSupers : u # v

Count(c) ==
    /\ pc[c] = "count"
    /\ GoTo(c, IF Enough THEN "save" ELSE "refused")
    /\ UNCHANGED <<user, invitations, arg, history, dbErrors>>

Activate(c) ==
    /\ pc[c] = "new"
    /\ \E u \in Stored :
        /\ IsAdmin(user[u])
        /\ Begin(c, "activate", u, [user[u] EXCEPT !.status = "active"],
                 NoInvitation, "save")

-----------------------------------------------------------------------------
(* Writing the row of a user.                                              *)

\* The call c has stored row r: acceptInvitation goes on to the invitation,
\* and a sign-in is refused unless the user is active.
Written(c, r) ==
    /\ GoTo(c, CASE arg[c].op = "accept" -> "mark"
                 [] arg[c].op = "signIn" /\ r.status # "active" -> "refused"
                 [] OTHER -> "done")
    /\ IF arg[c].op = "accept"
       THEN /\ granted' = [granted EXCEPT ![arg[c].inv] = @ \cup {c}]
            /\ shared' = shared \cup AcceptedTwice(c)
       ELSE UNCHANGED <<granted, shared>>
    /\ overtaken' = IF ActiveSupers' = ActiveSupers THEN overtaken
                    ELSE overtaken \cup Checked(c)
    /\ UNCHANGED <<invitations, arg, founders, reissued, dbErrors>>

\* The unique index over identities refuses a row of another user.
Clash(c) == pc[c] \in {"insert", "save"}
              /\ WithIdentity(arg[c].row.identity) \ {arg[c].user} # {}

Insert(c) ==
    /\ pc[c] = "insert" /\ ~Clash(c)
    /\ \E u \in Users :
        /\ user[u].status = "none"
        /\ \A v \in Users : v < u => user[v].status # "none"
        /\ user' = [user EXCEPT ![u] = arg[c].row]
    /\ crowded' = crowded \cup InsertedTwice(c)
    /\ Written(c, arg[c].row)

\* The row r after the copy s of it was saved.
Merged(r, s) ==
    [s EXCEPT !.role   = IF @ = "keep" THEN r.role ELSE @,
              !.status = IF @ = "keep" THEN r.status ELSE @]

Save(c) ==
    /\ pc[c] = "save" /\ ~Clash(c)
    /\ LET r == Merged(user[arg[c].user], arg[c].row)
       IN  user' = [user EXCEPT ![arg[c].user] = r] /\ Written(c, r)
    /\ UNCHANGED crowded

Refused(c) ==
    /\ Clash(c)
    /\ GoTo(c, "error")
    /\ UNCHANGED <<user, invitations, arg, history, dbErrors>>

\* A call of the database fails, or the process dies: what was written stays.
CallFails(c) ==
    /\ dbErrors < MaxDbErrors
    /\ pc[c] \in Working
    /\ dbErrors' = dbErrors + 1
    /\ GoTo(c, "error")
    /\ UNCHANGED <<user, invitations, arg, history>>

InvitationStep(c) ==
    \/ Invite(c) \/ Withdraw(c) \/ Issue(c) \/ Revoke(c) \/ Cancel(c)
    \/ Accept(c) \/ Expire(c) \/ Match(c) \/ Mark(c)

UserStep(c) ==
    \/ SignIn(c) \/ Link(c) \/ Found(c)
    \/ Create(c) \/ Update(c) \/ Delete(c)
    \/ UpdateAdmin(c) \/ Deactivate(c) \/ Count(c) \/ Activate(c)
    \/ Insert(c) \/ Save(c) \/ Refused(c) \/ CallFails(c)

Next ==
    \/ \E c \in Calls : InvitationStep(c) \/ UserStep(c)
    \/ \E i \in Invitations : TimePasses(i)

Spec == Init /\ [][Next]_vars

-----------------------------------------------------------------------------
\* An email has at most one invitation that is pending, whatever is accepted,
\* revoked or fails meanwhile: no save of an older copy brings one back.  The
\* exception is an email for which two calls of inviteAdmin withdrew before
\* either stored its invitation; the next withdrawal for the email ends it.
OnePending ==
    \A i, j \in Invitations :
        inv[i].status = "pending" /\ inv[j].status = "pending"
            /\ inv[i].email = inv[j].email => i = j \/ inv[i].email \in reissued

\* An invitation makes an admin once, also if it is revoked between the steps
\* of the call that accepts it, unless two calls accept it beside each other.
\* (After a failed save of the invitation, which ends the call with an error,
\* its token is good for a second time.)
AcceptedOnce ==
    \A i \in Invitations \ shared : \A c, d \in granted[i] :
        pc[c] # "error" /\ pc[d] # "error" => c = d

\* No two users have one email, however they came into the table: by a
\* sign-in, by an invitation or from their organization, unless two of these
\* met between the look-up of the email and the insertion.
OneUserPerEmail ==
    \A u, v \in Stored :
        user[u].email = user[v].email => u = v \/ user[u].email \in crowded

\* One organization at most is provisioned for the first sign-ins with an
\* email, whichever identities it is used with, unless two of them met so or
\* the sign-in failed before it stored the user.
OneOrganization ==
    \A c, d \in founders :
        /\ pc[c] # "error" /\ pc[d] # "error"
        /\ arg[c].row.email = arg[d].row.email
        => c = d \/ arg[c].row.email \in crowded

\* deactivateAdmin spares the last active super admin, unless others came or
\* went after it had counted: "Ensure we never deactivate the last active
\* Super Admin" (admin.service.ts).
DeactivationSparesLast ==
    [][\A c \in Calls \ overtaken :
          pc[c] = "save" /\ arg[c].op = "deactivate" /\ pc'[c] = "done"
              => (ActiveSupers # {} => ActiveSupers' # {})]_vars

\* "The system prevents deactivating or suspending the last active Super
\* Admin" (PROJECT_STATE.md).
LastSuperAdmin ==
    [][\A u \in Users : ActiveSupers = {u} => user'[u].status = "active"]_vars
=============================================================================
