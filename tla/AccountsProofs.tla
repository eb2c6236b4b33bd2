---------------------------- MODULE AccountsProofs ----------------------------
(***************************************************************************)
(* What the tables of users and invitations keep, for any number of users, *)
(* invitations and calls, however the calls overlap and fail.              *)
(***************************************************************************)
EXTENDS Accounts, TLAPS

\* What a call has read fits the label l it goes on at.
Fits(a, l) ==
    /\ l \in Inviting => a.row.email \in Emails /\ a.row.role \in {"super", "sub"}
    /\ l \in {"cancel", "expire", "match", "mark"} => a.inv \in Invitations
    /\ l \in {"insert", "save"} /\ a.op = "accept" => a.inv \in Invitations
    /\ l = "match" => a.op = "accept" /\ a.row.role \in Roles
    /\ l \in {"byEmail", "found"} => a.op = "signIn"
    /\ l \in {"match", "byEmail", "found", "insert"} => a.row \in Row /\ a.row.status # "none"
    /\ l \in {"count", "save"} => a.user \in Users /\ a.row.status # "none"
    /\ l = "count" => a.op = "deactivate"
    /\ l = "save" /\ a.op \in {"signIn", "accept"} => a.row \in Row

ArgOK == \A c \in Calls : Fits(arg[c], pc[c])

LEMMA LiteralTypes ==
    /\ NoRow \in Row /\ NoRow \in Copy
    /\ NoInvitationRow \in Invitation
    /\ NoArg \in Arg
    /\ Row \subseteq Copy
    /\ \A r \in Row : r \in Copy
  BY DEF NoRow, Row, Copy, NoInvitationRow, Invitation, NoArg, Arg, Ops, Roles

\* An invitation keeps its type when its status is set.
LEMMA StatusSet ==
    ASSUME inv \in [Invitations -> Invitation], NEW i,
           NEW s \in {"none", "pending", "accepted", "expired", "revoked"}
    PROVE  [inv EXCEPT ![i].status = s] \in [Invitations -> Invitation]
<1>1. ASSUME NEW r \in Invitation PROVE [r EXCEPT !.status = s] \in Invitation
  BY DEF Invitation
<1>2. [inv EXCEPT ![i].status = s] = [inv EXCEPT ![i] = [inv[i] EXCEPT !.status = s]]
  OBVIOUS
<1>3. i \in Invitations => [inv[i] EXCEPT !.status = s] \in Invitation
  BY <1>1
<1> QED BY <1>2, <1>3

LEMMA MergedType ==
    ASSUME NEW r \in Row, NEW s \in Copy
    PROVE  /\ Merged(r, s) \in Row
           /\ s.status # "none" /\ r.status # "none" => Merged(r, s).status # "none"
<1>1. /\ IF s.role = "keep" THEN r.role \in Roles ELSE s.role \in Roles
      /\ IF s.status = "keep" THEN r.status \in Statuses \cup {"none"}
                              ELSE s.status \in Statuses \cup {"none"}
  BY DEF Row, Copy
<1> QED BY <1>1 DEF Merged, Row, Copy

LEMMA BeginKeeps ==
    ASSUME TypeOK, ArgOK, NEW c \in Calls, NEW o \in Ops, NEW u \in Users \cup {NoUser},
           NEW r \in Copy, NEW i \in Invitations \cup {NoInvitation}, NEW l \in Working,
           Fits([op |-> o, user |-> u, row |-> r, inv |-> i], l),
           Begin(c, o, u, r, i, l)
    PROVE  TypeOK' /\ ArgOK'
<1> DEFINE a == [op |-> o, user |-> u, row |-> r, inv |-> i]
<1>1. a \in Arg
  BY DEF Arg
<1>2. arg' = [arg EXCEPT ![c] = a] /\ pc' = [pc EXCEPT ![c] = l]
  BY DEF Begin, GoTo
<1>3. UNCHANGED <<user, inv, late, dbErrors, granted, founders, reissued, crowded,
                  shared, overtaken>>
  BY DEF Begin, invitations, history
<1> HIDE DEF a
<1>4. TypeOK'
  BY <1>1, <1>2, <1>3 DEF TypeOK
<1>5. ArgOK'
  BY <1>2 DEF TypeOK, ArgOK, a
<1> QED BY <1>4, <1>5

\* A step to label l of a call that keeps what it has read.
LEMMA GoToKeeps ==
    ASSUME TypeOK, ArgOK, NEW c \in Calls,
           NEW l \in {"new", "done", "refused", "error"} \cup Working,
           Fits(arg[c], l), GoTo(c, l), UNCHANGED arg
    PROVE  /\ pc' \in [Calls -> {"new", "done", "refused", "error"} \cup Working]
           /\ ArgOK'
  BY DEF GoTo, TypeOK, ArgOK

\* What is remembered of meetings.
LEMMA MeetingTypes ==
    ASSUME TypeOK, NEW c \in Calls
    PROVE  /\ InvitedTwice(c) \subseteq Addresses /\ InsertedTwice(c) \subseteq Addresses
           /\ Checked(c) \subseteq Calls
           /\ arg[c].inv \in Invitations => AcceptedTwice(c) \subseteq Invitations
<1>1. arg[c].row.email \in Addresses
  BY DEF TypeOK, Arg, Copy, Addresses
<1> QED BY <1>1 DEF InvitedTwice, InsertedTwice, Checked, AcceptedTwice

\* The calls that manage invitations.
LEMMA InvitationTypes ==
    ASSUME TypeOK, ArgOK, NEW c \in Calls, InvitationStep(c)
    PROVE  TypeOK' /\ ArgOK'
<1>1. ASSUME Invite(c) PROVE TypeOK' /\ ArgOK'
  <2>1. PICK e \in Emails, r \in {"super", "sub"} :
             Begin(c, "invite", NoUser, [NoRow EXCEPT !.email = Lower[e], !.role = r],
                   NoInvitation, "withdraw")
    BY <1>1 DEF Invite
  <2> DEFINE row == [NoRow EXCEPT !.email = Lower[e], !.role = r]
  <2>2. row \in Copy /\ row.email \in Emails /\ row.role = r
    BY AccountConstants DEF NoRow, Copy, Roles
  <2> HIDE DEF row
  <2>3. Fits([op |-> "invite", user |-> NoUser, row |-> row, inv |-> NoInvitation], "withdraw")
    BY <2>2 DEF Fits, Inviting
  <2> QED BY <2>1, <2>2, <2>3, BeginKeeps DEF row, Working, Inviting, Ops
<1>2. ASSUME Withdraw(c) PROVE TypeOK' /\ ArgOK'
  <2>1. inv' \in [Invitations -> Invitation]
    BY <1>2 DEF Withdraw, TypeOK, Invitation
  <2>2. Fits(arg[c], "issue")
    BY <1>2 DEF Withdraw, ArgOK, Fits, Inviting
  <2>3. reissued' \subseteq Addresses
    BY <1>2 DEF Withdraw, TypeOK
  <2> QED BY <1>2, <2>1, <2>2, <2>3, GoToKeeps DEF Withdraw, TypeOK, Working, Inviting
<1>3. ASSUME Issue(c) PROVE TypeOK' /\ ArgOK'
  <2>1. inv' \in [Invitations -> Invitation]
    BY <1>3 DEF Issue, TypeOK, Invitation, ArgOK, Fits, Inviting
  <2>2. Fits(arg[c], "done")
    BY DEF Fits, Inviting
  <2>3. reissued' \subseteq Addresses
    BY <1>3, MeetingTypes DEF Issue, TypeOK
  <2> QED BY <1>3, <2>1, <2>2, <2>3, GoToKeeps DEF Issue, TypeOK
<1>4. ASSUME Revoke(c) PROVE TypeOK' /\ ArgOK'
  <2>1. PICK i \in Invitations : Begin(c, "revoke", NoUser, NoRow, i, "cancel")
    BY <1>4 DEF Revoke
  <2>2. Fits([op |-> "revoke", user |-> NoUser, row |-> NoRow, inv |-> i], "cancel")
    BY DEF Fits, Inviting
  <2>3. "revoke" \in Ops /\ "cancel" \in Working /\ NoRow \in Copy
    BY LiteralTypes DEF Working, Ops
  <2> QED BY <2>1, <2>2, <2>3, BeginKeeps
<1>5. ASSUME Cancel(c) PROVE TypeOK' /\ ArgOK'
  <2>1. inv' \in [Invitations -> Invitation]
    BY <1>5, StatusSet DEF Cancel, TypeOK
  <2>2. Fits(arg[c], "done")
    BY DEF Fits, Inviting
  <2> QED BY <1>5, <2>1, <2>2, GoToKeeps DEF Cancel, TypeOK, history
<1>6. ASSUME Accept(c) PROVE TypeOK' /\ ArgOK'
  <2>1. PICK i \in Invitations, x \in Identities \cup {Fresh} :
             /\ Acceptable(i)
             /\ Begin(c, "accept", NoUser,
                  [status |-> "active", email |-> inv[i].email, identity |-> x,
                   role |-> inv[i].role, admin |-> TRUE, org |-> FALSE],
                  i, IF i \in late THEN "expire" ELSE "match")
    BY <1>6 DEF Accept
  <2> DEFINE row == [status |-> "active", email |-> inv[i].email, identity |-> x,
                     role |-> inv[i].role, admin |-> TRUE, org |-> FALSE]
  <2>2. row \in Row /\ row \in Copy /\ row.status # "none" /\ row.role \in Roles
    BY DEF TypeOK, Invitation, Row, Copy, Roles, Statuses
  <2> HIDE DEF row
  <2>3. Fits([op |-> "accept", user |-> NoUser, row |-> row, inv |-> i],
             IF i \in late THEN "expire" ELSE "match")
    BY <2>2 DEF Fits, Inviting
  <2>4. Begin(c, "accept", NoUser, row, i, IF i \in late THEN "expire" ELSE "match")
    BY <2>1 DEF row
  <2>5. "accept" \in Ops /\ (IF i \in late THEN "expire" ELSE "match") \in Working
    BY DEF Working, Changing, Ops
  <2> QED BY <2>2, <2>3, <2>4, <2>5, BeginKeeps
<1>7. ASSUME Expire(c) PROVE TypeOK' /\ ArgOK'
  <2>1. inv' \in [Invitations -> Invitation]
    BY <1>7, StatusSet DEF Expire, TypeOK
  <2>2. Fits(arg[c], "refused")
    BY DEF Fits, Inviting
  <2> QED BY <1>7, <2>1, <2>2, GoToKeeps DEF Expire, TypeOK, history
<1>8. ASSUME Match(c) PROVE TypeOK' /\ ArgOK'
  <2> DEFINE S == WithEmail(arg[c].row.email) \cup WithIdentity(arg[c].row.identity)
  <2>1. Fits(arg[c], "match") /\ UNCHANGED <<user, inv, late, dbErrors, granted, founders,
                                              reissued, crowded, shared, overtaken>>
    BY <1>8 DEF Match, ArgOK, invitations, history
  <2>2. CASE S = {}
    <3>1. GoTo(c, "insert") /\ UNCHANGED arg
      BY <1>8, <2>2 DEF Match
    <3>2. Fits(arg[c], "insert")
      BY <2>1 DEF Fits, Inviting
    <3> QED BY <2>1, <3>1, <3>2, GoToKeeps DEF TypeOK, Working, Changing
  <2>3. CASE S # {}
    <3> DEFINE row(u) == [user[u] EXCEPT !.role = arg[c].row.role,
                                         !.admin = TRUE, !.status = "active"]
               new(u) == [arg[c] EXCEPT !.user = u, !.row = row(u)]
    <3>1. PICK u \in S : /\ GoTo(c, "save")
                         /\ arg' = [arg EXCEPT ![c].user = u, ![c].row = row(u)]
      BY <1>8, <2>3 DEF Match
    <3>2. u \in Users
      BY <3>1 DEF WithEmail, WithIdentity, Stored
    <3>3. row(u) \in Row /\ row(u) \in Copy /\ row(u).status # "none"
      BY <2>1, <3>2 DEF TypeOK, Fits, Row, Copy, Statuses
    <3> HIDE DEF row
    <3>4. new(u) \in Arg /\ Fits(new(u), "save")
      BY <2>1, <3>2, <3>3 DEF TypeOK, Arg, Fits, Inviting
    <3>5. arg' = [arg EXCEPT ![c] = new(u)]
      BY <3>1 DEF TypeOK, Arg
    <3> HIDE DEF new
    <3>6. TypeOK'
      BY <2>1, <3>1, <3>4, <3>5 DEF TypeOK, GoTo, Working, Changing
    <3>7. ArgOK'
      BY <3>1, <3>4, <3>5 DEF TypeOK, ArgOK, GoTo
    <3> QED BY <3>6, <3>7
  <2> QED BY <2>2, <2>3
<1>9. ASSUME Mark(c) PROVE TypeOK' /\ ArgOK'
  <2>1. inv' \in [Invitations -> Invitation]
    BY <1>9, StatusSet DEF Mark, TypeOK
  <2>2. Fits(arg[c], "done")
    BY DEF Fits, Inviting
  <2>3. arg[c].inv \in Invitations
    BY <1>9 DEF Mark, ArgOK, Fits
  <2>4. shared' \subseteq Invitations
    BY <1>9, <2>3, MeetingTypes DEF Mark, TypeOK
  <2> QED BY <1>9, <2>1, <2>2, <2>4, GoToKeeps DEF Mark, TypeOK
<1> QED BY <1>1, <1>2, <1>3, <1>4, <1>5, <1>6, <1>7, <1>8, <1>9 DEF InvitationStep

\* A call that is to store the copy r of u's row.
LEMMA ChangeKeeps ==
    ASSUME TypeOK, ArgOK, NEW c \in Calls, NEW o \in Ops, NEW u \in Stored,
           NEW r \in Copy, r.status # "none",
           NEW l \in {"save", "count"}, o \notin {"accept", "signIn"},
           l = "count" => o = "deactivate",
           Begin(c, o, u, r, NoInvitation, l)
    PROVE  TypeOK' /\ ArgOK'
<1>1. Fits([op |-> o, user |-> u, row |-> r, inv |-> NoInvitation], l)
  BY DEF Fits, Inviting, Stored
<1> QED BY <1>1, BeginKeeps DEF Working, Changing, Stored

\* Copies with another role or status.
LEMMA CopyTypes ==
    ASSUME TypeOK, NEW u \in Stored,
           NEW r \in Roles \cup {"keep"}, NEW s \in Statuses \cup {"keep"}
    PROVE  /\ [user[u] EXCEPT !.role = r, !.status = s] \in Copy
           /\ [user[u] EXCEPT !.role = r, !.status = s].status # "none"
           /\ [user[u] EXCEPT !.status = s] \in Copy
           /\ [user[u] EXCEPT !.status = s].status # "none"
<1> DEFINE x == user[u]
<1>1. x \in Row /\ x.status # "none"
  BY DEF Stored, TypeOK
<1> HIDE DEF x
<1>2. [x EXCEPT !.role = r, !.status = s] \in Copy
  BY <1>1 DEF Row, Copy
<1>3. [x EXCEPT !.role = r, !.status = s].status # "none"
  BY <1>1 DEF Row, Statuses
<1>4. [x EXCEPT !.status = s] \in Copy
  BY <1>1 DEF Row, Copy
<1>5. [x EXCEPT !.status = s].status # "none"
  BY <1>1 DEF Row, Statuses
<1> QED BY <1>2, <1>3, <1>4, <1>5 DEF x

LEMMA WrittenKeeps ==
    ASSUME TypeOK, ArgOK, NEW c \in Calls, NEW r, Written(c, r), UNCHANGED arg,
           pc[c] \in {"insert", "save"}
    PROVE  /\ pc' \in [Calls -> {"new", "done", "refused", "error"} \cup Working]
           /\ granted' \in [Invitations -> SUBSET Calls]
           /\ shared' \subseteq Invitations /\ overtaken' \subseteq Calls
           /\ ArgOK'
<1> DEFINE l == CASE arg[c].op = "accept" -> "mark"
                  [] arg[c].op = "signIn" /\ r.status # "active" -> "refused"
                  [] OTHER -> "done"
<1>1. GoTo(c, l) /\ l \in {"mark", "refused", "done"} /\ (l = "mark" => arg[c].op = "accept")
  BY DEF Written
<1> HIDE DEF l
<1>2. Fits(arg[c], pc[c])
  BY DEF ArgOK
<1>3. Fits(arg[c], l)
  BY <1>1, <1>2 DEF Fits, Inviting
<1>4. granted' \in [Invitations -> SUBSET Calls]
  BY DEF Written, TypeOK
<1>5. shared' \subseteq Invitations
  BY <1>2, MeetingTypes DEF Written, TypeOK, Fits
<1>6. overtaken' \subseteq Calls
  BY MeetingTypes DEF Written, TypeOK
<1> QED BY <1>1, <1>3, <1>4, <1>5, <1>6, GoToKeeps DEF Working, Changing

\* The calls that change users.
LEMMA UserTypes ==
    ASSUME TypeOK, ArgOK, NEW c \in Calls, UserStep(c)
    PROVE  TypeOK' /\ ArgOK'
<1>1. ASSUME SignIn(c) PROVE TypeOK' /\ ArgOK'
  <2>1. PICK x \in Identities :
            \/ \E u \in WithIdentity(x) :
                 Begin(c, "signIn", u, user[u], NoInvitation, "save")
            \/ Begin(c, "signIn", NoUser,
                    [status |-> "active", email |-> EmailOf[x], identity |-> x,
                     role |-> "team", admin |-> FALSE, org |-> TRUE],
                    NoInvitation, "byEmail")
    BY <1>1 DEF SignIn
  <2>2. ASSUME NEW u \in WithIdentity(x),
               Begin(c, "signIn", u, user[u], NoInvitation, "save")
        PROVE  TypeOK' /\ ArgOK'
    <3>1. u \in Users /\ user[u] \in Row /\ user[u].status # "none"
      BY DEF WithIdentity, Stored, TypeOK
    <3>2. Fits([op |-> "signIn", user |-> u, row |-> user[u], inv |-> NoInvitation], "save")
      BY <3>1 DEF Fits, Inviting
    <3> QED BY <2>2, <3>1, <3>2, BeginKeeps, LiteralTypes DEF Working, Changing, Ops
  <2> DEFINE row == [status |-> "active", email |-> EmailOf[x], identity |-> x,
                     role |-> "team", admin |-> FALSE, org |-> TRUE]
  <2>3. row \in Row /\ row \in Copy /\ row.status # "none"
    BY AccountConstants DEF Row, Copy, Roles, Statuses
  <2> HIDE DEF row
  <2>4. Fits([op |-> "signIn", user |-> NoUser, row |-> row, inv |-> NoInvitation], "byEmail")
    BY <2>3 DEF Fits, Inviting
  <2> QED BY <2>1, <2>2, <2>3, <2>4, BeginKeeps DEF row, Working, Changing, Ops
<1>2. ASSUME Link(c) PROVE TypeOK' /\ ArgOK'
  <2>1. Fits(arg[c], "byEmail") /\ UNCHANGED <<user, inv, late, dbErrors, granted, founders,
                                                reissued, crowded, shared, overtaken>>
    BY <1>2 DEF Link, ArgOK, invitations, history
  <2>2. CASE Linkable(arg[c].row.email) = {}
    <3>1. PICK l \in {"found", "insert"} : GoTo(c, l) /\ UNCHANGED arg
      BY <1>2, <2>2 DEF Link
    <3>2. Fits(arg[c], l)
      BY <2>1 DEF Fits, Inviting
    <3> QED BY <2>1, <3>1, <3>2, GoToKeeps DEF TypeOK, Working, Changing
  <2>3. CASE Linkable(arg[c].row.email) # {}
    <3> DEFINE row(u) == [user[u] EXCEPT !.identity = arg[c].row.identity]
               new(u) == [arg[c] EXCEPT !.user = u, !.row = row(u)]
    <3>1. PICK u \in Linkable(arg[c].row.email) :
                         /\ GoTo(c, "save")
                         /\ arg' = [arg EXCEPT ![c].user = u, ![c].row = row(u)]
      BY <1>2, <2>3 DEF Link
    <3>2. u \in Users /\ user[u].status # "none"
      BY <3>1 DEF Linkable, WithEmail, Stored
    <3>3. row(u) \in Row /\ row(u) \in Copy /\ row(u).status # "none"
      BY <2>1, <3>2 DEF TypeOK, Fits, Row, Copy, Statuses
    <3> HIDE DEF row
    <3>4. new(u) \in Arg /\ Fits(new(u), "save")
      BY <2>1, <3>2, <3>3 DEF TypeOK, Arg, Fits, Inviting
    <3>5. arg' = [arg EXCEPT ![c] = new(u)]
      BY <3>1 DEF TypeOK, Arg
    <3> HIDE DEF new
    <3>6. TypeOK'
      BY <2>1, <3>1, <3>4, <3>5 DEF TypeOK, GoTo, Working, Changing
    <3>7. ArgOK'
      BY <3>1, <3>4, <3>5 DEF TypeOK, ArgOK, GoTo
    <3> QED BY <3>6, <3>7
  <2> QED BY <2>2, <2>3
<1>3. ASSUME Found(c) PROVE TypeOK' /\ ArgOK'
  <2>1. Fits(arg[c], "insert")
    BY <1>3 DEF Found, Establish, ArgOK, Fits, Inviting
  <2>2. founders' \subseteq Calls /\ crowded' \subseteq Addresses
    BY <1>3, MeetingTypes DEF Found, Establish, TypeOK
  <2> QED BY <1>3, <2>1, <2>2, GoToKeeps DEF Found, TypeOK, invitations, Working, Changing
<1>4. ASSUME Create(c) PROVE TypeOK' /\ ArgOK'
  <2>1. PICK e \in Emails, x \in Identities \cup {Fresh}, r \in Roles, s \in Statuses :
            Begin(c, "create", NoUser,
                 [status |-> s, email |-> e, identity |-> x,
                  role |-> r, admin |-> FALSE, org |-> TRUE],
                 NoInvitation, "insert")
    BY <1>4 DEF Create
  <2> DEFINE row == [status |-> s, email |-> e, identity |-> x,
                     role |-> r, admin |-> FALSE, org |-> TRUE]
  <2>2. row \in Row /\ row \in Copy /\ row.status # "none"
    BY DEF Row, Copy, Roles, Statuses
  <2> HIDE DEF row
  <2>3. Fits([op |-> "create", user |-> NoUser, row |-> row, inv |-> NoInvitation], "insert")
    BY <2>2 DEF Fits, Inviting
  <2> QED BY <2>1, <2>2, <2>3, BeginKeeps DEF row, Working, Changing, Ops
<1>5. ASSUME Update(c) \/ UpdateAdmin(c) PROVE TypeOK' /\ ArgOK'
  <2>1. PICK o \in {"update", "updateAdmin"}, u \in Stored,
             r \in Roles \cup {"keep"}, s \in Statuses \cup {"keep"} :
               Begin(c, o, u, [user[u] EXCEPT !.role = r, !.status = s], NoInvitation, "save")
    BY <1>5 DEF Update, UpdateAdmin
  <2> DEFINE row == [user[u] EXCEPT !.role = r, !.status = s]
  <2>2. row \in Copy /\ row.status # "none"
    BY CopyTypes
  <2> HIDE DEF row
  <2> QED BY <2>1, <2>2, ChangeKeeps DEF row, Ops
<1>6. ASSUME Delete(c) \/ Deactivate(c) \/ Activate(c) PROVE TypeOK' /\ ArgOK'
  <2>1. PICK o \in {"delete", "deactivate", "activate"}, u \in Stored,
             s \in {"active", "suspended"}, l \in {"save", "count"} :
               /\ l = "count" => o = "deactivate"
               /\ Begin(c, o, u, [user[u] EXCEPT !.status = s], NoInvitation, l)
    BY <1>6 DEF Delete, Deactivate, Activate
  <2> DEFINE row == [user[u] EXCEPT !.status = s]
  <2>2. row \in Copy /\ row.status # "none"
    BY CopyTypes DEF Statuses
  <2> HIDE DEF row
  <2> QED BY <2>1, <2>2, ChangeKeeps DEF row, Ops
<1>7. ASSUME Count(c) PROVE TypeOK' /\ ArgOK'
  <2>1. PICK l \in {"save", "refused"} : GoTo(c, l)
    BY <1>7 DEF Count
  <2>2. UNCHANGED arg /\ Fits(arg[c], l)
    BY <1>7 DEF Count, ArgOK, Fits, Inviting
  <2> QED BY <1>7, <2>1, <2>2, GoToKeeps DEF Working, Changing, Count, TypeOK, invitations, history
<1>8. ASSUME Insert(c) PROVE TypeOK' /\ ArgOK'
  <2>1. arg[c].row \in Row
    BY <1>8 DEF Insert, ArgOK, Fits
  <2>2. user' \in [Users -> Row]
    BY <1>8, <2>1 DEF Insert, TypeOK
  <2>3. crowded' \subseteq Addresses
    BY <1>8, MeetingTypes DEF Insert, TypeOK
  <2>4. Written(c, arg[c].row) /\ pc[c] = "insert"
    BY <1>8 DEF Insert
  <2>5. UNCHANGED <<inv, late, arg, founders, reissued, dbErrors>>
    BY <2>4 DEF Written, invitations
  <2> QED BY <2>2, <2>3, <2>4, <2>5, WrittenKeeps DEF TypeOK
<1>9. ASSUME Save(c) PROVE TypeOK' /\ ArgOK'
  <2>1. arg[c].user \in Users /\ arg[c].row \in Copy
    BY <1>9 DEF Save, ArgOK, Fits, TypeOK, Arg
  <2> DEFINE r == Merged(user[arg[c].user], arg[c].row)
  <2>2. r \in Row
    BY <2>1, MergedType DEF TypeOK
  <2>3. user' = [user EXCEPT ![arg[c].user] = r] /\ Written(c, r)
    BY <1>9 DEF Save
  <2> HIDE DEF r
  <2>4. user' \in [Users -> Row]
    BY <2>2, <2>3 DEF TypeOK
  <2>5. UNCHANGED <<inv, late, arg, founders, reissued, crowded, dbErrors>>
    BY <1>9, <2>3 DEF Save, Written, invitations
  <2>6. pc[c] = "save"
    BY <1>9 DEF Save
  <2> QED BY <2>3, <2>4, <2>5, <2>6, WrittenKeeps DEF TypeOK
<1>10. ASSUME Refused(c) PROVE TypeOK' /\ ArgOK'
  <2>1. Fits(arg[c], "error")
    BY DEF Fits, Inviting
  <2> QED BY <1>10, <2>1, GoToKeeps DEF Refused, TypeOK, invitations, history
<1>11. ASSUME CallFails(c) PROVE TypeOK' /\ ArgOK'
  <2>1. Fits(arg[c], "error")
    BY DEF Fits, Inviting
  <2>2. dbErrors' \in 0..MaxDbErrors
    BY <1>11, AccountConstants DEF CallFails, TypeOK
  <2> QED BY <1>11, <2>1, <2>2, GoToKeeps DEF CallFails, TypeOK, invitations, history
<1> QED BY <1>1, <1>2, <1>3, <1>4, <1>5, <1>6, <1>7, <1>8, <1>9, <1>10, <1>11
        DEF UserStep

\* Types, and what calls have read, are kept by every step.
LEMMA TypeStep == ASSUME TypeOK, ArgOK, [Next]_vars PROVE TypeOK' /\ ArgOK'
<1>1. ASSUME NEW i \in Invitations, TimePasses(i) PROVE TypeOK' /\ ArgOK'
  BY <1>1 DEF TimePasses, TypeOK, ArgOK, history
<1>2. CASE UNCHANGED vars
  BY <1>2 DEF vars, TypeOK, ArgOK, invitations, history
<1> QED BY <1>1, <1>2, InvitationTypes, UserTypes DEF Next

\* Every reachable state of the users, invitations and calls is well typed.
THEOREM AccountTypes == Spec => []TypeOK
<1>1. Init => TypeOK /\ ArgOK
  BY LiteralTypes, AccountConstants DEF Init, TypeOK, ArgOK, Fits, Inviting
<1>2. TypeOK /\ ArgOK /\ [Next]_vars => TypeOK' /\ ArgOK'
  BY TypeStep
<1> QED BY <1>1, <1>2, PTL DEF Spec

-----------------------------------------------------------------------------
(* One call moves at a time.                                               *)

\* A step of c leaves the other calls where they are.
LEMMA OneMoves ==
    ASSUME TypeOK, NEW c \in Calls, InvitationStep(c) \/ UserStep(c)
    PROVE  \A d \in Calls \ {c} : pc'[d] = pc[d] /\ arg'[d] = arg[d]
<1>1. ASSUME InvitationStep(c)
      PROVE  \A d \in Calls \ {c} : pc'[d] = pc[d] /\ arg'[d] = arg[d]
  BY <1>1 DEF TypeOK, InvitationStep, Invite, Withdraw, Issue, Revoke, Cancel, Accept,
              Expire, Match, Mark, Begin, GoTo
<1>2. ASSUME UserStep(c)
      PROVE  \A d \in Calls \ {c} : pc'[d] = pc[d] /\ arg'[d] = arg[d]
  BY <1>2 DEF TypeOK, UserStep, SignIn, Link, Found, Establish, Create, Update, Delete,
              UpdateAdmin, Deactivate, Count, Activate, Insert, Save, Refused, CallFails,
              Written, Begin, GoTo
<1> QED BY <1>1, <1>2

-----------------------------------------------------------------------------
(* One pending invitation.                                                 *)

\* An email that was not invited twice at once has no pending invitation when
\* a call is about to store one.
PendingInv ==
    /\ OnePending
    /\ \A c \in Calls :
          pc[c] = "issue" /\ arg[c].row.email \notin reissued
              => Withdrawn(arg[c].row.email) = {}

\* A step of c that neither makes an invitation pending nor goes to "issue".
LEMMA NoneMadePending ==
    ASSUME TypeOK, PendingInv, NEW c \in Calls, InvitationStep(c) \/ UserStep(c),
           pc'[c] # "issue", UNCHANGED reissued,
           \A i \in Invitations : /\ inv'[i].email = inv[i].email
                                  /\ inv'[i].status = "pending" => inv[i].status = "pending"
    PROVE  PendingInv'
<1>1. OnePending'
  BY DEF PendingInv, OnePending
<1>2. \A d \in Calls : pc'[d] = "issue" /\ arg'[d].row.email \notin reissued'
                          => Withdrawn(arg[d].row.email)' = {}
  BY OneMoves DEF PendingInv, Withdrawn
<1> QED BY <1>1, <1>2 DEF PendingInv

LEMMA PendingStep ==
    ASSUME TypeOK, PendingInv, [Next]_vars PROVE PendingInv'
<1>1. ASSUME NEW c \in Calls, Withdraw(c) PROVE PendingInv'
  <2> DEFINE e == arg[c].row.email
  <2>1. \A i \in Invitations : /\ inv'[i].email = inv[i].email
                               /\ inv'[i].status = "pending" =>
                                     inv[i].status = "pending" /\ inv[i].email # e
    BY <1>1 DEF Withdraw, Withdrawn, TypeOK, Invitation
  <2>2. pc' = [pc EXCEPT ![c] = "issue"] /\ UNCHANGED arg /\ reissued' = reissued \ {e}
    BY <1>1 DEF Withdraw, GoTo
  <2> HIDE DEF e
  <2>3. OnePending'
    BY <2>1, <2>2 DEF PendingInv, OnePending
  <2>4. ASSUME NEW d \in Calls, pc'[d] = "issue", arg'[d].row.email \notin reissued'
        PROVE  Withdrawn(arg[d].row.email)' = {}
    <3>1. CASE arg[d].row.email = e
      BY <2>1, <2>2, <3>1 DEF Withdrawn
    <3>2. CASE arg[d].row.email # e
      <4>1. d # c /\ pc[d] = "issue" /\ arg[d].row.email \notin reissued
        BY <2>2, <2>4, <3>2 DEF e, TypeOK
      <4> QED BY <2>1, <2>2, <4>1 DEF PendingInv, Withdrawn
    <3> QED BY <3>1, <3>2
  <2> QED BY <2>3, <2>4 DEF PendingInv
<1>2. ASSUME NEW c \in Calls, Issue(c) PROVE PendingInv'
  <2> DEFINE e == arg[c].row.email
  <2>1. PICK i \in Invitations :
             inv' = [inv EXCEPT ![i] = [status |-> "pending", email |-> e,
                                        role |-> arg[c].row.role]]
    BY <1>2 DEF Issue
  <2>2. /\ pc[c] = "issue" /\ pc' = [pc EXCEPT ![c] = "done"] /\ UNCHANGED arg
        /\ reissued' = reissued \cup InvitedTwice(c)
    BY <1>2 DEF Issue, GoTo
  <2>3. e \notin reissued => Withdrawn(e) = {}
    BY <2>2 DEF PendingInv
  <2>4. \A j \in Invitations \ {i} : inv'[j] = inv[j]
    BY <2>1 DEF TypeOK
  <2>5. inv'[i].email = e /\ inv'[i].status = "pending"
    BY <2>1 DEF TypeOK
  <2>6. OnePending'
    BY <2>2, <2>3, <2>4, <2>5 DEF PendingInv, OnePending, Withdrawn
  <2>7. ASSUME NEW d \in Calls, pc'[d] = "issue", arg'[d].row.email \notin reissued'
        PROVE  Withdrawn(arg[d].row.email)' = {}
    <3>1. d # c /\ pc[d] = "issue" /\ arg[d].row.email \notin reissued
      BY <2>2, <2>7 DEF TypeOK
    <3>2. arg[d].row.email # e
      BY <2>2, <2>7, <3>1 DEF InvitedTwice
    <3> QED BY <2>2, <2>4, <2>5, <3>1, <3>2 DEF PendingInv, Withdrawn
  <2> QED BY <2>6, <2>7 DEF PendingInv
<1>3. ASSUME NEW c \in Calls, Cancel(c) \/ Expire(c) \/ Mark(c) PROVE PendingInv'
  <2>1. InvitationStep(c) /\ pc'[c] # "issue" /\ UNCHANGED reissued
    BY <1>3 DEF Cancel, Expire, Mark, InvitationStep, GoTo, TypeOK, history
  <2>2. PICK s \in {"revoked", "expired", "accepted"} :
             inv' = [inv EXCEPT ![arg[c].inv].status = s]
    BY <1>3 DEF Cancel, Expire, Mark
  <2>3. \A i \in Invitations : /\ inv'[i].email = inv[i].email
                               /\ inv'[i].status = "pending" => inv[i].status = "pending"
    BY <2>2 DEF TypeOK, Invitation
  <2> QED BY <2>1, <2>3, NoneMadePending
<1>4. ASSUME NEW c \in Calls, Invite(c) \/ Revoke(c) \/ Accept(c) \/ Match(c)
      PROVE  PendingInv'
  <2>1. InvitationStep(c) /\ pc'[c] # "issue" /\ UNCHANGED <<inv, reissued>>
    BY <1>4 DEF Invite, Revoke, Accept, Match, InvitationStep, Begin, GoTo, TypeOK,
                invitations, history
  <2> QED BY <2>1, NoneMadePending
<1>5. ASSUME NEW c \in Calls, UserStep(c) PROVE PendingInv'
  <2>1. pc'[c] # "issue" /\ UNCHANGED <<inv, reissued>>
    BY <1>5 DEF TypeOK, UserStep, SignIn, Link, Found, Create, Update, Delete, UpdateAdmin,
         Deactivate, Count, Activate, Insert, Save, Refused, CallFails, Written, Begin,
         GoTo, invitations, history
  <2> QED BY <1>5, <2>1, NoneMadePending
<1>6. ASSUME NEW i \in Invitations, TimePasses(i) PROVE PendingInv'
  BY <1>6 DEF TimePasses, PendingInv, OnePending, Withdrawn, history
<1>7. CASE UNCHANGED vars
  BY <1>7 DEF vars, invitations, history, PendingInv, OnePending, Withdrawn
<1> QED BY <1>1, <1>2, <1>3, <1>4, <1>5, <1>6, <1>7 DEF Next, InvitationStep

\* An email has more than one pending invitation only if two calls had
\* withdrawn the older ones before either stored its own, for any number of
\* them and whatever fails.
THEOREM TwoPendingOnlyIfInvitedTwice == Spec => []OnePending
<1>1. Init => TypeOK /\ ArgOK
  BY LiteralTypes, AccountConstants DEF Init, TypeOK, ArgOK, Fits, Inviting
<1>2. Init => PendingInv
  BY DEF Init, PendingInv, OnePending, NoInvitationRow
<1>3. TypeOK /\ ArgOK /\ PendingInv /\ [Next]_vars => TypeOK' /\ ArgOK' /\ PendingInv'
  BY TypeStep, PendingStep
<1>4. PendingInv => OnePending
  BY DEF PendingInv
<1> QED BY <1>1, <1>2, <1>3, <1>4, PTL DEF Spec

-----------------------------------------------------------------------------
(* One user per email.                                                     *)

\* A call that is to insert a user found none of the email, and there is none
\* yet unless two calls met; one that is to save a user has a copy of it.
ReadRight(c) ==
    /\ pc[c] \in {"found", "insert"} /\ arg[c].row.email \notin crowded
          => WithEmail(arg[c].row.email) = {}
    /\ pc[c] \in {"count", "save"} =>
          /\ arg[c].user \in Stored
          /\ user[arg[c].user].email = arg[c].row.email

UserInv == OneUserPerEmail /\ \A c \in Calls : ReadRight(c)

\* The copy of a row of the table keeps its email.
LEMMA CopyFields ==
    ASSUME TypeOK, NEW u \in Stored
    PROVE  /\ \A r, s : /\ [user[u] EXCEPT !.role = r, !.status = s].email = user[u].email
                        /\ [user[u] EXCEPT !.status = s].email = user[u].email
           /\ \A x : [user[u] EXCEPT !.identity = x].email = user[u].email
           /\ \A r, a, s : [user[u] EXCEPT !.role = r, !.admin = a, !.status = s].email
                             = user[u].email
  BY DEF Stored, TypeOK, Row

\* A step of c that does not write users.
LEMMA NoneWritten ==
    ASSUME TypeOK, UserInv, NEW c \in Calls, InvitationStep(c) \/ UserStep(c),
           UNCHANGED user, crowded \subseteq crowded', ReadRight(c)'
    PROVE  UserInv'
<1>1. OneUserPerEmail' /\ Stored' = Stored /\ \A e : WithEmail(e)' = WithEmail(e)
  BY DEF UserInv, OneUserPerEmail, Stored, WithEmail
<1>2. \A d \in Calls \ {c} : ReadRight(d)'
  BY <1>1, OneMoves DEF UserInv, ReadRight
<1> QED BY <1>1, <1>2 DEF UserInv, ReadRight

\* Beginning to change the user u, with the copy r of its row.
LEMMA BeginsRight ==
    ASSUME TypeOK, NEW c \in Calls, NEW o, NEW u \in Stored, NEW r, NEW l,
           Begin(c, o, u, r, NoInvitation, l), l \in {"save", "count"},
           r.email = user[u].email
    PROVE  UNCHANGED <<user, crowded>> /\ ReadRight(c)'
<1>1. UNCHANGED <<user, crowded>> /\ pc'[c] = l
  BY DEF Begin, GoTo, TypeOK, history
<1>2. arg'[c] = [op |-> o, user |-> u, row |-> r, inv |-> NoInvitation]
  BY DEF Begin, TypeOK
<1> QED BY <1>1, <1>2 DEF ReadRight, Stored

LEMMA UserInvStep ==
    ASSUME TypeOK, ArgOK, UserInv, NEW c \in Calls,
           InvitationStep(c) \/ UserStep(c)
    PROVE  UserInv'
<1>1. ASSUME SignIn(c) PROVE UserInv'
  <2>1. PICK x \in Identities :
            \/ \E u \in WithIdentity(x) :
                 Begin(c, "signIn", u, user[u], NoInvitation, "save")
            \/ Begin(c, "signIn", NoUser,
                    [status |-> "active", email |-> EmailOf[x], identity |-> x,
                     role |-> "team", admin |-> FALSE, org |-> TRUE],
                    NoInvitation, "byEmail")
    BY <1>1 DEF SignIn
  <2>2. ASSUME NEW u \in WithIdentity(x),
               Begin(c, "signIn", u, user[u], NoInvitation, "save")
        PROVE  UNCHANGED <<user, crowded>> /\ ReadRight(c)'
    BY <2>2, BeginsRight DEF WithIdentity
  <2>3. ASSUME NEW r, Begin(c, "signIn", NoUser, r, NoInvitation, "byEmail")
        PROVE  UNCHANGED <<user, crowded>> /\ ReadRight(c)'
    BY <2>3 DEF Begin, GoTo, TypeOK, ReadRight, history
  <2> QED BY <1>1, <2>1, <2>2, <2>3, NoneWritten DEF UserStep
<1>2. ASSUME Link(c) PROVE UserInv'
  <2>1. UNCHANGED <<user, crowded>>
    BY <1>2 DEF Link, history
  <2>2. CASE Linkable(arg[c].row.email) = {}
    <3>1. UNCHANGED arg /\ pc'[c] \in {"found", "insert"}
      BY <1>2, <2>2 DEF Link, GoTo, TypeOK
    <3>2. ReadRight(c)'
      BY <2>1, <2>2, <3>1 DEF ReadRight, Linkable, WithEmail, Stored
    <3> QED BY <1>2, <2>1, <3>2, NoneWritten DEF UserStep
  <2>3. CASE Linkable(arg[c].row.email) # {}
    <3> DEFINE row(u) == [user[u] EXCEPT !.identity = arg[c].row.identity]
    <3>1. PICK u \in Linkable(arg[c].row.email) :
                  /\ GoTo(c, "save")
                  /\ arg' = [arg EXCEPT ![c].user = u, ![c].row = row(u)]
      BY <1>2, <2>3 DEF Link
    <3>2. u \in Stored /\ row(u).email = user[u].email
      BY <3>1, CopyFields DEF Linkable, WithEmail
    <3> HIDE DEF row
    <3>3. arg'[c].user = u /\ arg'[c].row = row(u) /\ pc'[c] = "save"
      BY <3>1 DEF TypeOK, Arg, GoTo
    <3>4. ReadRight(c)'
      BY <2>1, <3>2, <3>3 DEF ReadRight, Stored
    <3> QED BY <1>2, <2>1, <3>4, NoneWritten DEF UserStep
  <2> QED BY <2>2, <2>3
<1>3. ASSUME Match(c) PROVE UserInv'
  <2> DEFINE S == WithEmail(arg[c].row.email) \cup WithIdentity(arg[c].row.identity)
  <2>1. UNCHANGED <<user, crowded>>
    BY <1>3 DEF Match, history
  <2>2. CASE S = {}
    <3>1. UNCHANGED arg /\ pc'[c] = "insert"
      BY <1>3, <2>2 DEF Match, GoTo, TypeOK
    <3>2. ReadRight(c)'
      BY <2>1, <2>2, <3>1 DEF ReadRight, WithEmail, Stored
    <3> QED BY <1>3, <2>1, <3>2, NoneWritten DEF InvitationStep
  <2>3. CASE S # {}
    <3> DEFINE row(u) == [user[u] EXCEPT !.role = arg[c].row.role,
                                         !.admin = TRUE, !.status = "active"]
    <3>1. PICK u \in S : /\ GoTo(c, "save")
                         /\ arg' = [arg EXCEPT ![c].user = u, ![c].row = row(u)]
      BY <1>3, <2>3 DEF Match
    <3>2. u \in Stored
      BY <3>1 DEF WithEmail, WithIdentity
    <3>3. row(u).email = user[u].email
      BY <3>2, CopyFields
    <3> HIDE DEF row
    <3>4. arg'[c].user = u /\ arg'[c].row = row(u) /\ pc'[c] = "save"
      BY <3>1 DEF TypeOK, Arg, GoTo
    <3>5. ReadRight(c)'
      BY <2>1, <3>2, <3>3, <3>4 DEF ReadRight, Stored
    <3> QED BY <1>3, <2>1, <3>5, NoneWritten DEF InvitationStep
  <2> QED BY <2>2, <2>3
<1>4. ASSUME Create(c) PROVE UserInv'
  <2>1. PICK e \in Emails, x \in Identities \cup {Fresh}, r \in Roles, s \in Statuses :
            /\ Creatable(e)
            /\ Begin(c, "create", NoUser,
                 [status |-> s, email |-> e, identity |-> x,
                  role |-> r, admin |-> FALSE, org |-> TRUE],
                 NoInvitation, "insert")
    BY <1>4 DEF Create
  <2>2. UNCHANGED <<user, crowded>> /\ pc'[c] = "insert" /\ arg'[c].row.email = e
    BY <2>1 DEF Begin, GoTo, TypeOK, history
  <2>3. ReadRight(c)'
    BY <2>1, <2>2 DEF ReadRight, Creatable, WithEmail, Stored
  <2> QED BY <1>4, <2>2, <2>3, NoneWritten DEF UserStep
<1>5. ASSUME Update(c) \/ UpdateAdmin(c) PROVE UserInv'
  <2>1. PICK o \in {"update", "updateAdmin"}, u \in Stored,
             r \in Roles \cup {"keep"}, s \in Statuses \cup {"keep"} :
               Begin(c, o, u, [user[u] EXCEPT !.role = r, !.status = s], NoInvitation, "save")
    BY <1>5 DEF Update, UpdateAdmin
  <2> DEFINE row == [user[u] EXCEPT !.role = r, !.status = s]
  <2>2. row.email = user[u].email
    BY CopyFields
  <2> HIDE DEF row
  <2>3. UNCHANGED <<user, crowded>> /\ ReadRight(c)'
    BY <2>1, <2>2, BeginsRight DEF row
  <2> QED BY <1>5, <2>3, NoneWritten DEF UserStep
<1>6. ASSUME Delete(c) \/ Deactivate(c) \/ Activate(c) PROVE UserInv'
  <2>1. PICK o \in {"delete", "deactivate", "activate"}, u \in Stored,
             s \in {"active", "suspended"}, l \in {"save", "count"} :
               Begin(c, o, u, [user[u] EXCEPT !.status = s], NoInvitation, l)
    BY <1>6 DEF Delete, Deactivate, Activate
  <2> DEFINE row == [user[u] EXCEPT !.status = s]
  <2>2. row.email = user[u].email
    BY CopyFields
  <2> HIDE DEF row
  <2>3. UNCHANGED <<user, crowded>> /\ ReadRight(c)'
    BY <2>1, <2>2, BeginsRight DEF row
  <2> QED BY <1>6, <2>3, NoneWritten DEF UserStep
<1>7. ASSUME Found(c) \/ Count(c) PROVE UserInv'
  <2>1. UNCHANGED <<user, arg>> /\ crowded \subseteq crowded'
    BY <1>7 DEF Found, Count, history
  <2>2. \/ pc[c] = "found" /\ pc'[c] = "insert"
        \/ pc[c] = "count" /\ pc'[c] \in {"save", "refused"}
    BY <1>7 DEF Found, Count, GoTo, TypeOK
  <2>3. ReadRight(c)'
    BY <2>1, <2>2 DEF UserInv, ReadRight, WithEmail, Stored
  <2> QED BY <1>7, <2>1, <2>3, NoneWritten DEF UserStep
<1>8. ASSUME Insert(c) PROVE UserInv'
  <2> DEFINE e == arg[c].row.email
  <2>1. PICK u \in Users : user[u].status = "none" /\ user' = [user EXCEPT ![u] = arg[c].row]
    BY <1>8 DEF Insert
  <2>2. /\ pc[c] = "insert" /\ UNCHANGED arg /\ pc'[c] \in {"mark", "refused", "done"}
        /\ crowded' = crowded \cup InsertedTwice(c)
    BY <1>8 DEF Insert, Written, GoTo, TypeOK
  <2>3. e \notin crowded => WithEmail(e) = {}
    BY <2>2 DEF UserInv, ReadRight
  <2>4. /\ \A v \in Users \ {u} : user'[v] = user[v]
        /\ user'[u] = arg[c].row /\ u \notin Stored
    BY <2>1 DEF TypeOK, Stored
  <2> HIDE DEF e
  <2>5. \A v \in Stored' : v # u => v \in Stored /\ user'[v].email = user[v].email
    BY <2>4 DEF Stored
  <2>6. user'[u].email = e
    BY <2>4 DEF e
  <2>7. OneUserPerEmail'
    BY <2>2, <2>3, <2>5, <2>6 DEF UserInv, OneUserPerEmail, WithEmail
  <2>8. ASSUME NEW d \in Calls PROVE ReadRight(d)'
    <3>1. CASE d = c
      BY <2>2, <3>1 DEF ReadRight
    <3>2. CASE d # c
      <4>1. pc'[d] = pc[d] /\ arg'[d] = arg[d] /\ ReadRight(d)
        BY <1>8, <3>2, OneMoves DEF UserStep, UserInv
      <4>2. pc[d] \in {"found", "insert"} /\ arg[d].row.email \notin crowded'
              => arg[d].row.email # e /\ WithEmail(arg[d].row.email) = {}
        BY <2>2, <3>2, <4>1 DEF ReadRight, InsertedTwice, e
      <4>3. ASSUME NEW x, x # e, WithEmail(x) = {} PROVE WithEmail(x)' = {}
        BY <4>3, <2>5, <2>6 DEF WithEmail
      <4>4. \A v \in Stored : v \in Stored' /\ user'[v].email = user[v].email
        BY <2>4 DEF Stored
      <4>5. pc[d] \in {"found", "insert"} /\ arg[d].row.email \notin crowded'
              => WithEmail(arg[d].row.email)' = {}
        BY <2>2, <4>2, <4>3
      <4> QED BY <4>1, <4>4, <4>5 DEF ReadRight
    <3> QED BY <3>1, <3>2
  <2> QED BY <2>7, <2>8 DEF UserInv
<1>9. ASSUME Save(c) PROVE UserInv'
  <2> DEFINE u == arg[c].user
             r == Merged(user[u], arg[c].row)
  <2>1. user' = [user EXCEPT ![u] = r] /\ pc[c] = "save" /\ UNCHANGED <<arg, crowded>>
    BY <1>9 DEF Save, Written
  <2>2. u \in Stored /\ arg[c].row.email = user[u].email /\ arg[c].row.status # "none"
    BY <2>1 DEF UserInv, ReadRight, ArgOK, Fits
  <2>3. user[u] \in Row /\ user[u].status # "none" /\ arg[c].row \in Copy
    BY <2>2 DEF TypeOK, Arg, Stored
  <2>4. r.email = user[u].email /\ r.status # "none"
    BY <2>2, <2>3, MergedType DEF Merged, Copy
  <2>5. pc'[c] \in {"mark", "refused", "done"}
    BY <1>9 DEF Save, Written, GoTo, TypeOK
  <2> HIDE DEF r
  <2>6. Stored' = Stored /\ \A v \in Users : user'[v].email = user[v].email
    BY <2>1, <2>2, <2>4 DEF Stored, TypeOK
  <2>7. OneUserPerEmail' /\ \A e : WithEmail(e)' = WithEmail(e)
    BY <2>1, <2>6 DEF UserInv, OneUserPerEmail, WithEmail, Stored
  <2>8. ASSUME NEW d \in Calls PROVE ReadRight(d)'
    <3>1. CASE d = c
      BY <2>5, <3>1 DEF ReadRight
    <3>2. CASE d # c
      <4>1. pc'[d] = pc[d] /\ ReadRight(d)
        BY <1>9, <3>2, OneMoves DEF UserStep, UserInv
      <4> QED BY <2>1, <2>6, <2>7, <4>1 DEF ReadRight, Stored
    <3> QED BY <3>1, <3>2
  <2> QED BY <2>7, <2>8 DEF UserInv
<1>10. ASSUME Invite(c) \/ Withdraw(c) \/ Issue(c) \/ Revoke(c) \/ Cancel(c) \/ Accept(c)
              \/ Expire(c) \/ Mark(c)
       PROVE  UserInv'
  <2>1. UNCHANGED <<user, crowded>> /\ pc'[c] \notin {"found", "insert", "count", "save"}
    BY <1>10 DEF Invite, Withdraw, Issue, Revoke, Cancel, Accept, Expire, Mark, Begin, GoTo,
                 TypeOK, history
  <2> QED BY <1>10, <2>1, NoneWritten DEF InvitationStep, ReadRight
<1>11. ASSUME Refused(c) \/ CallFails(c) PROVE UserInv'
  <2>1. UNCHANGED <<user, crowded>> /\ pc'[c] = "error"
    BY <1>11 DEF Refused, CallFails, GoTo, TypeOK, history
  <2> QED BY <1>11, <2>1, NoneWritten DEF UserStep, ReadRight
<1> QED
  BY <1>1, <1>2, <1>3, <1>4, <1>5, <1>6, <1>7, <1>8, <1>9, <1>10, <1>11
  DEF InvitationStep, UserStep

\* The other steps do not concern users.
LEMMA UserInvNext == ASSUME TypeOK, ArgOK, UserInv, [Next]_vars PROVE UserInv'
<1>1. ASSUME NEW i \in Invitations, TimePasses(i) PROVE UserInv'
  BY <1>1 DEF TimePasses, UserInv, OneUserPerEmail, ReadRight, WithEmail, Stored, history
<1>2. CASE UNCHANGED vars
  BY <1>2 DEF vars, UserInv, OneUserPerEmail, ReadRight, WithEmail, Stored, history
<1> QED BY <1>1, <1>2, UserInvStep DEF Next

\* What every state of the users and of the calls that write them satisfies.
TableInv == TypeOK /\ ArgOK /\ UserInv

LEMMA TableInit == Init => TableInv
<1>1. Init => TypeOK /\ ArgOK
  BY LiteralTypes, AccountConstants DEF Init, TypeOK, ArgOK, Fits, Inviting
<1>2. Init => UserInv
  BY AccountConstants DEF Init, UserInv, ReadRight, OneUserPerEmail, Stored
<1> QED BY <1>1, <1>2 DEF TableInv

LEMMA TableStep == ASSUME TableInv, [Next]_vars PROVE TableInv'
  BY TypeStep, UserInvNext DEF TableInv

\* Two users have one email only if two calls had looked for it before either
\* stored its user, for any number of users and however they came into the
\* table.
THEOREM TwoUsersOnlyIfInsertedTwice == Spec => []OneUserPerEmail
<1>1. TableInv /\ [Next]_vars => TableInv'
  BY TableStep
<1>2. TableInv => OneUserPerEmail
  BY DEF TableInv, UserInv
<1> QED BY <1>1, <1>2, TableInit, PTL DEF Spec

-----------------------------------------------------------------------------
(* The last active super admin.                                            *)

\* A deactivation that made sure, and that no change has overtaken, is not
\* about to store the only active super admin.
SparesInv ==
    \A c \in Calls \ overtaken :
        pc[c] = "save" /\ arg[c].op = "deactivate" => ActiveSupers # {arg[c].user}

\* A step of c that writes no user, and goes to no save of a deactivation
\* without making sure.
LEMMA NoneOvertaken ==
    ASSUME TypeOK, SparesInv, NEW c \in Calls, InvitationStep(c) \/ UserStep(c),
           UNCHANGED <<user, overtaken>>,
           pc'[c] = "save" /\ arg'[c].op = "deactivate" => ActiveSupers # {arg'[c].user}
    PROVE  SparesInv'
  BY OneMoves DEF SparesInv, ActiveSupers, Stored

LEMMA SparesStep ==
    ASSUME TableInv, SparesInv, [Next]_vars PROVE SparesInv'
<1> USE DEF TableInv
<1>1. ASSUME NEW c \in Calls, Insert(c) \/ Save(c) PROVE SparesInv'
  <2>1. /\ overtaken' = IF ActiveSupers' = ActiveSupers THEN overtaken
                        ELSE overtaken \cup Checked(c)
        /\ pc'[c] # "save"
    BY <1>1 DEF Insert, Save, Written, GoTo, TypeOK
  <2>2. \A d \in Calls \ {c} : pc'[d] = pc[d] /\ arg'[d] = arg[d]
    BY <1>1, OneMoves DEF UserStep
  <2>3. SUFFICES ASSUME NEW d \in Calls, d \notin overtaken', pc'[d] = "save",
                        arg'[d].op = "deactivate"
                 PROVE  ActiveSupers' # {arg'[d].user}
    BY DEF SparesInv
  <2>4. d # c /\ d \in Checked(c)
    BY <2>1, <2>2, <2>3 DEF Checked
  <2>5. ActiveSupers' = ActiveSupers /\ d \notin overtaken
    BY <2>1, <2>3, <2>4
  <2> QED BY <2>2, <2>3, <2>4, <2>5 DEF SparesInv, Checked
<1>2. ASSUME NEW c \in Calls, Deactivate(c) PROVE SparesInv'
  <2>1. PICK u \in Stored :
            Begin(c, "deactivate", u, [user[u] EXCEPT !.status = "suspended"],
                  NoInvitation, IF user[u].role = "super" THEN "count" ELSE "save")
    BY <1>2 DEF Deactivate
  <2>2. UNCHANGED <<user, overtaken>>
    BY <2>1 DEF Begin, history
  <2>3. pc'[c] = "save" => user[u].role # "super"
    BY <2>1 DEF Begin, GoTo, TypeOK
  <2>4. arg'[c].user = u
    BY <2>1 DEF Begin, TypeOK
  <2> QED BY <1>2, <2>2, <2>3, <2>4, NoneOvertaken DEF UserStep, ActiveSupers
<1>3. ASSUME NEW c \in Calls, Count(c) PROVE SparesInv'
  <2>1. UNCHANGED <<user, overtaken>> /\ (pc'[c] = "save" => Enough)
    BY <1>3 DEF Count, GoTo, TypeOK, history
  <2>2. Enough => \A u : ActiveSupers # {u}
    BY DEF Enough
  <2> QED BY <1>3, <2>1, <2>2, NoneOvertaken DEF UserStep
<1>4. ASSUME NEW c \in Calls, InvitationStep(c) PROVE SparesInv'
  <2>1. UNCHANGED <<user, overtaken>>
    BY <1>4 DEF InvitationStep, Invite, Withdraw, Issue, Revoke, Cancel, Accept, Expire, Match,
                Mark, Begin, history
  <2>2. pc'[c] = "save" => arg'[c].op # "deactivate"
    <3>1. CASE Match(c)
      <4>1. \/ UNCHANGED arg
            \/ \E u, r : arg' = [arg EXCEPT ![c].user = u, ![c].row = r]
        BY <3>1 DEF Match
      <4>2. arg'[c].op = arg[c].op
        BY <4>1 DEF TypeOK, Arg
      <4>3. arg[c].op = "accept"
        BY <3>1 DEF Match, ArgOK, Fits
      <4> QED BY <4>2, <4>3
    <3>2. CASE ~Match(c)
      BY <1>4, <3>2 DEF InvitationStep, Invite, Withdraw, Issue, Revoke, Cancel, Accept,
                        Expire, Mark, Begin, GoTo, TypeOK
    <3> QED BY <3>1, <3>2
  <2> QED BY <1>4, <2>1, <2>2, NoneOvertaken
<1>5. ASSUME NEW c \in Calls,
             \/ SignIn(c) \/ Link(c) \/ Found(c) \/ Create(c) \/ Update(c) \/ Delete(c)
             \/ UpdateAdmin(c) \/ Activate(c) \/ Refused(c) \/ CallFails(c)
      PROVE  SparesInv'
  <2>1. UNCHANGED <<user, overtaken>>
    BY <1>5 DEF SignIn, Link, Found, Create, Update, Delete, UpdateAdmin, Activate, Refused,
                CallFails, Begin, history
  <2>2. pc'[c] = "save" => arg'[c].op # "deactivate"
    <3>1. CASE Link(c)
      <4>1. \/ UNCHANGED arg
            \/ \E u, r : arg' = [arg EXCEPT ![c].user = u, ![c].row = r]
        BY <3>1 DEF Link
      <4>2. arg'[c].op = arg[c].op
        BY <4>1 DEF TypeOK, Arg
      <4>3. arg[c].op = "signIn"
        BY <3>1 DEF Link, ArgOK, Fits
      <4> QED BY <4>2, <4>3
    <3>2. CASE ~Link(c)
      <4>1. \/ \E o \in {"signIn", "create", "update", "delete", "updateAdmin", "activate"} :
                  \E u, r, l : Begin(c, o, u, r, NoInvitation, l)
            \/ pc'[c] \in {"insert", "error"}
        BY <1>5, <3>2 DEF SignIn, Found, Create, Update, Delete, UpdateAdmin, Activate, Refused,
                          CallFails, GoTo, TypeOK
      <4> QED BY <4>1 DEF Begin, TypeOK
    <3> QED BY <3>1, <3>2
  <2> QED BY <1>5, <2>1, <2>2, NoneOvertaken DEF UserStep
<1>6. ASSUME NEW i \in Invitations, TimePasses(i) PROVE SparesInv'
  BY <1>6 DEF TimePasses, SparesInv, ActiveSupers, Stored, history
<1>7. CASE UNCHANGED vars
  BY <1>7 DEF vars, SparesInv, ActiveSupers, Stored, history
<1> QED BY <1>1, <1>2, <1>3, <1>4, <1>5, <1>6, <1>7 DEF Next, UserStep

\* The step by which a deactivation ends is the save of its user.
LEMMA OnlySaveEnds ==
    ASSUME TypeOK, [Next]_vars, NEW c \in Calls, pc[c] = "save", pc'[c] = "done"
    PROVE  Save(c)
<1>1. ASSUME NEW d \in Calls, InvitationStep(d) \/ UserStep(d), d # c PROVE FALSE
  BY <1>1, OneMoves
<1>2. ASSUME InvitationStep(c) PROVE FALSE
  BY <1>2 DEF InvitationStep, Invite, Withdraw, Issue, Revoke, Cancel, Accept, Expire, Match,
              Mark, Begin, GoTo, TypeOK
<1>3. ASSUME UserStep(c), ~Save(c) PROVE FALSE
  BY <1>3 DEF UserStep, SignIn, Link, Found, Create, Update, Delete, UpdateAdmin, Deactivate,
              Count, Activate, Insert, Refused, CallFails, Begin, GoTo, TypeOK
<1>4. ASSUME NEW i \in Invitations, TimePasses(i) PROVE FALSE
  BY <1>4 DEF TimePasses
<1> QED BY <1>1, <1>2, <1>3, <1>4 DEF Next, vars

\* A deactivation takes the last active super admin away only if the active
\* super admins changed after it had made sure, for any number of users.
THEOREM LastDeactivatedOnlyIfOvertaken == Spec => DeactivationSparesLast
<1>1. Init => SparesInv
  BY DEF Init, SparesInv
<1>2. TableInv /\ SparesInv /\ [Next]_vars => TableInv' /\ SparesInv'
  BY TableStep, SparesStep
<1>3. TableInv /\ SparesInv /\ [Next]_vars =>
        [\A c \in Calls \ overtaken :
            pc[c] = "save" /\ arg[c].op = "deactivate" /\ pc'[c] = "done"
                => (ActiveSupers # {} => ActiveSupers' # {})]_vars
  <2> SUFFICES ASSUME TableInv, SparesInv, [Next]_vars, NEW c \in Calls \ overtaken,
                      pc[c] = "save", arg[c].op = "deactivate", pc'[c] = "done",
                      ActiveSupers # {}
               PROVE  ActiveSupers' # {}
    OBVIOUS
  <2> DEFINE u == arg[c].user
             r == Merged(user[u], arg[c].row)
  <2>1. user' = [user EXCEPT ![u] = r]
    BY OnlySaveEnds DEF TableInv, Save
  <2>2. ActiveSupers # {u}
    BY DEF SparesInv
  <2>3. PICK v \in ActiveSupers : v # u
    BY <2>2
  <2>4. user'[v] = user[v]
    BY <2>1, <2>3 DEF TableInv, TypeOK, ActiveSupers, Stored
  <2> QED BY <2>3, <2>4 DEF ActiveSupers, Stored
<1> QED BY <1>1, <1>2, <1>3, TableInit, PTL DEF Spec, DeactivationSparesLast

-----------------------------------------------------------------------------
(* Each invitation makes one admin.                                        *)

Closed == {"accepted", "expired", "revoked"}

\* A call that made an admin on account of an invitation has closed it or is
\* about to, unless it failed; and none but such calls did on account of one
\* that a call is accepting, unless two calls met.
Grants(c) ==
    \A i \in Invitations : c \in granted[i] =>
        /\ arg[c].op = "accept" /\ arg[c].inv = i
        /\ pc[c] \in {"mark", "done", "error"}
        /\ pc[c] = "done" => inv[i].status \in Closed

FirstToGrant(c) ==
    pc[c] \in {"match", "insert", "save"} /\ arg[c].op = "accept" /\ arg[c].inv \notin shared
        => \A d \in granted[arg[c].inv] : pc[d] \in {"mark", "error"}

GrantInv == AcceptedOnce /\ \A c \in Calls : Grants(c) /\ FirstToGrant(c)

\* The invitation of a call that is accepting one.
LEMMA AcceptsInvitation ==
    ASSUME ArgOK, NEW c \in Calls, pc[c] \in {"match", "insert", "save"}, arg[c].op = "accept"
    PROVE  arg[c].inv \in Invitations
  BY DEF ArgOK, Fits

\* A step of c that makes no admin and ends no acceptance.
LEMMA NoneGranted ==
    ASSUME TableInv, GrantInv, NEW c \in Calls, InvitationStep(c) \/ UserStep(c),
           UNCHANGED <<granted, shared>>, pc[c] \notin {"mark", "done", "error"},
           \A i \in Invitations : inv[i].status \in Closed => inv'[i].status \in Closed,
           pc'[c] \in {"match", "insert", "save"} /\ arg'[c].op = "accept" =>
               /\ arg'[c].inv \in Invitations
               /\ \/ arg'[c].inv \in shared
                  \/ \A d \in granted[arg'[c].inv] : pc[d] \in {"mark", "error"}
    PROVE  GrantInv'
<1> USE DEF TableInv
<1>1. \A d \in Calls \ {c} : pc'[d] = pc[d] /\ arg'[d] = arg[d]
  BY OneMoves
<1>2. \A i \in Invitations : granted[i] \subseteq Calls \ {c}
  BY DEF GrantInv, Grants, TypeOK
<1>3. AcceptedOnce'
  BY <1>1, <1>2 DEF GrantInv, AcceptedOnce
<1>4. ASSUME NEW d \in Calls PROVE Grants(d)'
  <2>1. CASE d = c
    BY <1>2, <2>1 DEF Grants
  <2>2. CASE d # c
    BY <1>1, <2>2 DEF GrantInv, Grants
  <2> QED BY <2>1, <2>2
<1>5. ASSUME NEW d \in Calls PROVE FirstToGrant(d)'
  <2>1. CASE d = c
    BY <1>1, <1>2, <2>1 DEF FirstToGrant
  <2>2. CASE d # c
    BY <1>1, <1>2, <2>2, AcceptsInvitation DEF GrantInv, FirstToGrant
  <2> QED BY <2>1, <2>2
<1> QED BY <1>3, <1>4, <1>5 DEF GrantInv

\* Storing the user of an acceptance, or of another call.
LEMMA GrantWrite ==
    ASSUME TableInv, GrantInv, NEW c \in Calls, Insert(c) \/ Save(c)
    PROVE  GrantInv'
<1> USE DEF TableInv
<1>1. /\ pc[c] \in {"insert", "save"} /\ UNCHANGED <<inv, arg>>
      /\ pc'[c] = "mark" \/ pc'[c] \in {"refused", "done"}
      /\ arg[c].op = "accept" => pc'[c] = "mark"
  BY DEF Insert, Save, Written, GoTo, TypeOK, invitations
<1>2. \A d \in Calls \ {c} : pc'[d] = pc[d]
  BY OneMoves DEF UserStep
<1>3. \A i \in Invitations : granted[i] \subseteq Calls \ {c}
  BY <1>1 DEF GrantInv, Grants, TypeOK
<1>4. CASE arg[c].op # "accept"
  <2>1. UNCHANGED <<granted, shared>>
    BY <1>4 DEF Insert, Save, Written
  <2>2. AcceptedOnce'
    BY <1>2, <1>3, <2>1 DEF GrantInv, AcceptedOnce
  <2>3. ASSUME NEW d \in Calls PROVE Grants(d)'
    BY <1>1, <1>2, <1>3, <2>1 DEF GrantInv, Grants
  <2>4. ASSUME NEW d \in Calls PROVE FirstToGrant(d)'
    BY <1>1, <1>2, <1>3, <2>1, AcceptsInvitation DEF GrantInv, FirstToGrant
  <2> QED BY <2>2, <2>3, <2>4 DEF GrantInv
<1>5. CASE arg[c].op = "accept"
  <2> DEFINE j == arg[c].inv
  <2>1. /\ granted' = [granted EXCEPT ![j] = @ \cup {c}]
        /\ shared' = shared \cup AcceptedTwice(c)
        /\ pc'[c] = "mark" /\ j \in Invitations
    BY <1>1, <1>5, AcceptsInvitation DEF Insert, Save, Written
  <2>2. /\ granted'[j] = granted[j] \cup {c}
        /\ \A i \in Invitations \ {j} : granted'[i] = granted[i]
    BY <2>1 DEF TypeOK
  <2>3. j \notin shared' => \A d \in granted[j] : pc[d] = "error"
    <3> SUFFICES ASSUME j \notin shared', NEW d \in granted[j] PROVE pc[d] = "error"
      OBVIOUS
    <3>1. d \in Calls \ {c} /\ arg[d].op = "accept" /\ arg[d].inv = j
      BY <1>3, <2>1 DEF GrantInv, Grants
    <3>2. pc[d] \in {"mark", "error"}
      BY <1>1, <1>5, <2>1 DEF GrantInv, FirstToGrant
    <3>3. pc[d] # "mark"
      BY <2>1, <3>1 DEF AcceptedTwice
    <3> QED BY <3>2, <3>3
  <2>4. AcceptedOnce'
    <3> SUFFICES ASSUME NEW i \in Invitations \ shared', NEW a \in granted'[i],
                        NEW b \in granted'[i], pc'[a] # "error", pc'[b] # "error"
                 PROVE  a = b
      BY DEF AcceptedOnce
    <3>1. CASE i = j
      BY <1>2, <1>3, <2>1, <2>2, <2>3, <3>1
    <3>2. CASE i # j
      BY <1>2, <1>3, <2>1, <2>2, <3>2 DEF GrantInv, AcceptedOnce
    <3> QED BY <3>1, <3>2
  <2>5. ASSUME NEW d \in Calls PROVE Grants(d)'
    <3>1. CASE d = c
      BY <1>1, <1>3, <1>5, <2>1, <2>2, <3>1 DEF Grants
    <3>2. CASE d # c
      BY <1>1, <1>2, <2>2, <3>2 DEF GrantInv, Grants
    <3> QED BY <3>1, <3>2
  <2>6. ASSUME NEW d \in Calls PROVE FirstToGrant(d)'
    <3> SUFFICES ASSUME pc'[d] \in {"match", "insert", "save"}, arg'[d].op = "accept",
                        arg'[d].inv \notin shared', NEW x \in granted'[arg'[d].inv]
                 PROVE  pc'[x] \in {"mark", "error"}
      BY DEF FirstToGrant
    <3>1. d # c /\ pc[d] = pc'[d] /\ arg'[d] = arg[d] /\ arg[d].inv \in Invitations
      BY <1>1, <1>2, <2>1, AcceptsInvitation
    <3>2. CASE x = c
      BY <2>1, <3>2
    <3>3. CASE x # c
      <4>1. x \in granted[arg[d].inv] /\ x \in Calls
        BY <1>3, <2>2, <3>1, <3>3
      <4> QED BY <1>2, <2>1, <3>1, <3>3, <4>1 DEF GrantInv, FirstToGrant
    <3> QED BY <3>2, <3>3
  <2> QED BY <2>4, <2>5, <2>6 DEF GrantInv
<1> QED BY <1>4, <1>5

\* Marking the invitation.
LEMMA GrantMark ==
    ASSUME TableInv, GrantInv, NEW c \in Calls, Mark(c)
    PROVE  GrantInv'
<1> USE DEF TableInv
<1>1. /\ pc[c] = "mark" /\ pc' = [pc EXCEPT ![c] = "done"] /\ UNCHANGED <<arg, granted>>
      /\ shared' = shared \cup AcceptedTwice(c)
      /\ inv' = [inv EXCEPT ![arg[c].inv].status = "accepted"]
  BY DEF Mark, GoTo
<1>2. \A i \in Invitations : inv[i].status \in Closed \/ arg[c].inv = i
                            => inv'[i].status \in Closed
  BY <1>1 DEF TypeOK, Invitation, Closed
<1>3. \A i \in Invitations : granted[i] \subseteq Calls
  BY DEF TypeOK
<1>4. AcceptedOnce'
  BY <1>1, <1>3 DEF GrantInv, AcceptedOnce, TypeOK
<1>5. ASSUME NEW d \in Calls PROVE Grants(d)'
  BY <1>1, <1>2, <1>3 DEF GrantInv, Grants, TypeOK
<1>6. ASSUME NEW d \in Calls PROVE FirstToGrant(d)'
  <2> SUFFICES ASSUME pc'[d] \in {"match", "insert", "save"}, arg'[d].op = "accept",
                      arg'[d].inv \notin shared', NEW x \in granted'[arg'[d].inv]
               PROVE  pc'[x] \in {"mark", "error"}
    BY DEF FirstToGrant
  <2>1. d # c /\ pc[d] = pc'[d] /\ arg'[d] = arg[d] /\ arg[d].inv \in Invitations
    BY <1>1, AcceptsInvitation DEF TypeOK
  <2>2. x \in granted[arg[d].inv] /\ x \in Calls /\ arg[x].inv = arg[d].inv
    BY <1>1, <1>3, <2>1 DEF GrantInv, Grants
  <2>3. pc[x] \in {"mark", "error"}
    BY <1>1, <2>1, <2>2 DEF GrantInv, FirstToGrant
  <2>4. x # c
    BY <1>1, <2>1, <2>2 DEF AcceptedTwice
  <2> QED BY <1>1, <2>2, <2>3, <2>4 DEF TypeOK
<1> QED BY <1>4, <1>5, <1>6 DEF GrantInv

\* A failed call.
LEMMA GrantFails ==
    ASSUME TableInv, GrantInv, NEW c \in Calls, CallFails(c)
    PROVE  GrantInv'
<1> USE DEF TableInv
<1>1. /\ pc' = [pc EXCEPT ![c] = "error"] /\ UNCHANGED <<arg, inv, granted, shared>>
  BY DEF CallFails, GoTo, invitations, history
<1>2. \A i \in Invitations : granted[i] \subseteq Calls
  BY DEF TypeOK
<1>3. AcceptedOnce'
  BY <1>1, <1>2 DEF GrantInv, AcceptedOnce, TypeOK
<1>4. ASSUME NEW d \in Calls PROVE Grants(d)'
  BY <1>1 DEF GrantInv, Grants, TypeOK
<1>5. ASSUME NEW d \in Calls PROVE FirstToGrant(d)'
  BY <1>1, <1>2, AcceptsInvitation DEF GrantInv, FirstToGrant, TypeOK
<1> QED BY <1>3, <1>4, <1>5 DEF GrantInv

LEMMA GrantStep ==
    ASSUME TableInv, GrantInv, [Next]_vars PROVE GrantInv'
<1> USE DEF TableInv
<1>1. ASSUME NEW c \in Calls, Accept(c) PROVE GrantInv'
  <2>1. PICK i \in Invitations, x \in Identities \cup {Fresh} :
             /\ Acceptable(i)
             /\ Begin(c, "accept", NoUser,
                      [status |-> "active", email |-> inv[i].email, identity |-> x,
                       role |-> inv[i].role, admin |-> TRUE, org |-> FALSE],
                      i, IF i \in late THEN "expire" ELSE "match")
    BY <1>1 DEF Accept
  <2>2. arg'[c].inv = i /\ UNCHANGED <<granted, shared, inv>> /\ pc[c] = "new"
    BY <1>1, <2>1 DEF Accept, Begin, TypeOK, invitations, history
  <2>3. \A d \in granted[i] : d \in Calls /\ pc[d] \in {"mark", "error"}
    BY <2>1 DEF GrantInv, Grants, Acceptable, Closed, TypeOK
  <2> QED BY <1>1, <2>2, <2>3, NoneGranted DEF InvitationStep
<1>2. ASSUME NEW c \in Calls, Match(c) PROVE GrantInv'
  <2>1. pc[c] = "match" /\ arg[c].op = "accept" /\ arg[c].inv \in Invitations
    BY <1>2 DEF Match, ArgOK, Fits
  <2>2. \/ UNCHANGED arg
        \/ \E u, r : arg' = [arg EXCEPT ![c].user = u, ![c].row = r]
    BY <1>2 DEF Match
  <2>3. arg'[c].inv = arg[c].inv
    BY <2>2 DEF TypeOK, Arg
  <2>4. UNCHANGED <<granted, shared, inv>>
    BY <1>2 DEF Match, invitations, history
  <2>5. arg[c].inv \in shared \/ \A d \in granted[arg[c].inv] : pc[d] \in {"mark", "error"}
    BY <2>1 DEF GrantInv, FirstToGrant
  <2> QED BY <1>2, <2>1, <2>3, <2>4, <2>5, NoneGranted DEF InvitationStep
<1>3. ASSUME NEW c \in Calls, Invite(c) \/ Withdraw(c) \/ Issue(c) \/ Revoke(c) \/ Cancel(c)
                              \/ Expire(c)
      PROVE  GrantInv'
  <2>1. UNCHANGED <<granted, shared>>
    BY <1>3 DEF Invite, Withdraw, Issue, Revoke, Cancel, Expire, Begin, history
  <2>2. /\ pc[c] \notin {"mark", "done", "error"}
        /\ pc'[c] \notin {"match", "insert", "save"}
    BY <1>3 DEF Invite, Withdraw, Issue, Revoke, Cancel, Expire, Begin, GoTo, TypeOK
  <2>3. \A i \in Invitations : inv[i].status \in Closed => inv'[i].status \in Closed
    <3>1. CASE Withdraw(c)
      BY <3>1 DEF Withdraw, TypeOK, Invitation, Closed
    <3>2. CASE Issue(c)
      BY <3>2 DEF Issue, TypeOK, Invitation, Closed
    <3>3. CASE Cancel(c) \/ Expire(c)
      BY <3>3 DEF Cancel, Expire, TypeOK, Invitation, Closed
    <3>4. CASE Invite(c) \/ Revoke(c)
      BY <3>4 DEF Invite, Revoke, Begin, invitations
    <3> QED BY <1>3, <3>1, <3>2, <3>3, <3>4
  <2> QED BY <1>3, <2>1, <2>2, <2>3, NoneGranted DEF InvitationStep
<1>4. ASSUME NEW c \in Calls,
             \/ SignIn(c) \/ Link(c) \/ Found(c) \/ Create(c) \/ Update(c) \/ Delete(c)
             \/ UpdateAdmin(c) \/ Deactivate(c) \/ Count(c) \/ Activate(c) \/ Refused(c)
      PROVE  GrantInv'
  <2>1. UNCHANGED <<granted, shared, inv>>
    BY <1>4 DEF SignIn, Link, Found, Create, Update, Delete, UpdateAdmin, Deactivate, Count,
                Activate, Refused, Begin, invitations, history
  <2>2. pc[c] \notin {"mark", "done", "error"}
    BY <1>4 DEF SignIn, Link, Found, Create, Update, Delete, UpdateAdmin, Deactivate, Count,
                Activate, Refused, Clash
  <2>3. pc'[c] \in {"match", "insert", "save"} => arg'[c].op # "accept"
    <3>1. CASE Link(c) \/ Found(c) \/ Count(c)
      <4>1. \/ UNCHANGED arg
            \/ \E u, r : arg' = [arg EXCEPT ![c].user = u, ![c].row = r]
        BY <3>1 DEF Link, Found, Count
      <4>2. arg'[c].op = arg[c].op
        BY <4>1 DEF TypeOK, Arg
      <4>3. arg[c].op \in {"signIn", "deactivate"}
        BY <3>1 DEF Link, Found, Count, ArgOK, Fits
      <4> QED BY <4>2, <4>3
    <3>2. CASE ~(Link(c) \/ Found(c) \/ Count(c))
      <4>1. \/ \E o \in {"signIn", "create", "update", "delete", "updateAdmin", "deactivate",
                        "activate"} :
                  \E u, r, l : Begin(c, o, u, r, NoInvitation, l)
            \/ pc'[c] = "error"
        BY <1>4, <3>2 DEF SignIn, Create, Update, Delete, UpdateAdmin, Deactivate, Activate,
                          Refused, GoTo, TypeOK
      <4> QED BY <4>1 DEF Begin, TypeOK
    <3> QED BY <3>1, <3>2
  <2> QED BY <1>4, <2>1, <2>2, <2>3, NoneGranted DEF UserStep
<1>5. ASSUME NEW i \in Invitations, TimePasses(i) PROVE GrantInv'
  BY <1>5 DEF TimePasses, GrantInv, Grants, FirstToGrant, AcceptedOnce, history
<1>6. CASE UNCHANGED vars
  BY <1>6 DEF vars, invitations, history, GrantInv, Grants, FirstToGrant, AcceptedOnce
<1> QED BY <1>1, <1>2, <1>3, <1>4, <1>5, <1>6, GrantWrite, GrantMark, GrantFails
        DEF Next, InvitationStep, UserStep

\* An invitation makes two admins only if two calls accepted it beside each
\* other or one of them failed, whoever revokes or renews it meanwhile.
THEOREM AcceptedTwiceOnlyIfShared == Spec => []AcceptedOnce
<1>1. Init => GrantInv
  BY DEF Init, GrantInv, Grants, FirstToGrant, AcceptedOnce
<1>2. TableInv /\ GrantInv /\ [Next]_vars => TableInv' /\ GrantInv'
  BY TableStep, GrantStep
<1>3. GrantInv => AcceptedOnce
  BY DEF GrantInv
<1> QED BY <1>1, <1>2, <1>3, TableInit, PTL DEF Spec

-----------------------------------------------------------------------------
(* One organization per email.                                             *)

\* A sign-in that provisioned an organization is about to insert its user, has
\* one of its email in the table, or failed.
Founds(c) ==
    c \in founders =>
        /\ pc[c] \in {"insert", "done", "refused", "error"}
        /\ pc[c] = "insert" => arg[c].op = "signIn"
        /\ pc[c] \in {"done", "refused"} => WithEmail(arg[c].row.email) # {}

OrgInv == OneOrganization /\ \A c \in Calls : Founds(c)

\* No email leaves the table.
LEMMA EmailsStay ==
    ASSUME TableInv, NEW c \in Calls, Insert(c) \/ Save(c), NEW e, WithEmail(e) # {}
    PROVE  WithEmail(e)' # {}
<1> USE DEF TableInv
<1>1. PICK v \in Stored : user[v].email = e
  BY DEF WithEmail
<1>2. CASE Insert(c)
  <2>1. PICK u \in Users : user[u].status = "none" /\ user' = [user EXCEPT ![u] = arg[c].row]
    BY <1>2 DEF Insert
  <2>2. user'[v] = user[v]
    BY <1>1, <2>1 DEF Stored, TypeOK
  <2> QED BY <1>1, <2>2 DEF Stored, WithEmail
<1>3. CASE Save(c)
  <2> DEFINE u == arg[c].user
             r == Merged(user[u], arg[c].row)
  <2>1. user' = [user EXCEPT ![u] = r] /\ pc[c] = "save"
    BY <1>3 DEF Save
  <2>2. u \in Stored /\ arg[c].row.email = user[u].email /\ arg[c].row.status # "none"
    BY <2>1 DEF UserInv, ReadRight, ArgOK, Fits
  <2>3. user[u] \in Row /\ arg[c].row \in Copy
    BY <2>2 DEF TypeOK, Arg, Stored
  <2>4. r.status # "none" /\ r.email = user[u].email
    BY <2>2, <2>3, MergedType DEF Stored, Merged, Copy
  <2> HIDE DEF r
  <2>5. CASE v = u
    BY <1>1, <2>1, <2>2, <2>4, <2>5 DEF Stored, WithEmail, TypeOK
  <2>6. CASE v # u
    BY <1>1, <2>1, <2>6 DEF Stored, WithEmail, TypeOK
  <2> QED BY <2>5, <2>6
<1> QED BY <1>2, <1>3

\* A step of c, which is no founder, that writes no user and makes no founder.
LEMMA NoneFounded ==
    ASSUME TypeOK, OrgInv, NEW c \in Calls, InvitationStep(c) \/ UserStep(c),
           UNCHANGED <<user, founders, crowded>>,
           pc[c] \notin {"insert", "done", "refused", "error"}
    PROVE  OrgInv'
<1>1. \A d \in Calls \ {c} : pc'[d] = pc[d] /\ arg'[d] = arg[d]
  BY OneMoves
<1>2. \A e : WithEmail(e)' = WithEmail(e)
  BY DEF WithEmail, Stored
<1>3. founders \subseteq Calls \ {c}
  BY DEF OrgInv, Founds, TypeOK
<1>4. \A d \in Calls : Founds(d)'
  BY <1>1, <1>2, <1>3 DEF OrgInv, Founds
<1>5. OneOrganization'
  BY <1>1, <1>3 DEF OrgInv, OneOrganization
<1> QED BY <1>4, <1>5 DEF OrgInv

\* Provisioning an organization.
LEMMA OrgFound ==
    ASSUME TableInv, OrgInv, NEW c \in Calls, Found(c)
    PROVE  OrgInv'
<1> USE DEF TableInv
<1> DEFINE e == arg[c].row.email
<1>1. /\ pc[c] = "found" /\ pc' = [pc EXCEPT ![c] = "insert"]
      /\ founders' = founders \cup {c} /\ UNCHANGED <<user, arg>>
      /\ crowded' = crowded \cup InsertedTwice(c)
  BY DEF Found, Establish, GoTo
<1>2. arg[c].op = "signIn" /\ (e \notin crowded => WithEmail(e) = {})
  BY <1>1 DEF ArgOK, Fits, UserInv, ReadRight
<1>3. \A x : WithEmail(x)' = WithEmail(x)
  BY <1>1 DEF WithEmail, Stored
<1>4. ASSUME NEW d \in Calls PROVE Founds(d)'
  BY <1>1, <1>2, <1>3 DEF OrgInv, Founds, TypeOK
<1>5. ASSUME NEW d \in founders, d # c, pc[d] # "error", arg[d].row.email = e
      PROVE  e \in crowded'
  <2>1. CASE pc[d] = "insert"
    BY <1>1, <1>5, <2>1 DEF InsertedTwice, TypeOK
  <2>2. CASE pc[d] # "insert"
    BY <1>1, <1>2, <1>5, <2>2 DEF OrgInv, Founds, TypeOK
  <2> QED BY <2>1, <2>2
<1>6. OneOrganization'
  <2> SUFFICES ASSUME NEW a \in founders', NEW b \in founders', pc'[a] # "error",
                      pc'[b] # "error", arg'[a].row.email = arg'[b].row.email, a # b
               PROVE  arg'[a].row.email \in crowded'
    BY DEF OneOrganization
  <2>1. CASE a # c /\ b # c
    BY <1>1, <2>1 DEF OrgInv, OneOrganization, TypeOK
  <2>2. CASE a = c \/ b = c
    BY <1>1, <1>5, <2>2 DEF TypeOK
  <2> QED BY <2>1, <2>2
<1> QED BY <1>4, <1>6 DEF OrgInv

\* Storing the user of a founder, or of another call.
LEMMA OrgWrite ==
    ASSUME TableInv, OrgInv, NEW c \in Calls, Insert(c) \/ Save(c)
    PROVE  OrgInv'
<1> USE DEF TableInv
<1>1. /\ UNCHANGED <<arg, founders>> /\ pc[c] \in {"insert", "save"}
      /\ crowded \subseteq crowded'
  BY DEF Insert, Save, Written
<1>2. \A d \in Calls \ {c} : pc'[d] = pc[d]
  BY OneMoves DEF UserStep
<1>3. c \in founders => pc'[c] \in {"done", "refused"} /\ WithEmail(arg[c].row.email)' # {}
  <2> SUFFICES ASSUME c \in founders
               PROVE  pc'[c] \in {"done", "refused"} /\ WithEmail(arg[c].row.email)' # {}
    OBVIOUS
  <2>1. pc[c] = "insert" /\ arg[c].op = "signIn"
    BY <1>1 DEF OrgInv, Founds
  <2>2. Insert(c) /\ pc'[c] \in {"done", "refused"}
    BY <2>1 DEF Insert, Save, Written, GoTo, TypeOK
  <2>3. PICK u \in Users : user' = [user EXCEPT ![u] = arg[c].row]
    BY <2>2 DEF Insert
  <2>4. arg[c].row.status # "none"
    BY <2>1 DEF ArgOK, Fits
  <2>5. u \in WithEmail(arg[c].row.email)'
    BY <1>1, <2>3, <2>4 DEF WithEmail, Stored, TypeOK
  <2> QED BY <1>1, <2>2, <2>5
<1>4. ASSUME NEW d \in Calls PROVE Founds(d)'
  <2>1. CASE d = c
    BY <1>1, <1>3, <2>1 DEF Founds
  <2>2. CASE d # c
    <3>1. ASSUME d \in founders, pc[d] \in {"done", "refused"}
          PROVE  WithEmail(arg[d].row.email)' # {}
      <4>1. WithEmail(arg[d].row.email) # {}
        BY <3>1 DEF OrgInv, Founds
      <4> QED BY <1>1, <4>1, EmailsStay
    <3> QED BY <1>1, <1>2, <2>2, <3>1 DEF OrgInv, Founds
  <2> QED BY <2>1, <2>2
<1>5. \A d \in founders : pc'[d] # "error" => pc[d] # "error"
  BY <1>1, <1>2 DEF TypeOK
<1>6. OneOrganization'
  BY <1>1, <1>5 DEF OrgInv, OneOrganization
<1> QED BY <1>4, <1>6 DEF OrgInv

\* A sign-in that ends with an error.
LEMMA OrgEnds ==
    ASSUME TypeOK, OrgInv, NEW c \in Calls, Refused(c) \/ CallFails(c)
    PROVE  OrgInv'
<1>1. pc' = [pc EXCEPT ![c] = "error"] /\ UNCHANGED <<user, arg, founders, crowded>>
  BY DEF Refused, CallFails, GoTo, history
<1>2. \A e : WithEmail(e)' = WithEmail(e)
  BY <1>1 DEF WithEmail, Stored
<1>3. \A d \in Calls : Founds(d)'
  BY <1>1, <1>2 DEF OrgInv, Founds, TypeOK
<1>4. OneOrganization'
  BY <1>1 DEF OrgInv, OneOrganization, TypeOK
<1> QED BY <1>3, <1>4 DEF OrgInv

LEMMA OrgStep ==
    ASSUME TableInv, OrgInv, [Next]_vars PROVE OrgInv'
<1> USE DEF TableInv
<1>1. ASSUME NEW c \in Calls, InvitationStep(c) PROVE OrgInv'
  <2>1. UNCHANGED <<user, founders, crowded>>
    BY <1>1 DEF InvitationStep, Invite, Withdraw, Issue, Revoke, Cancel, Accept, Expire,
                Match, Mark, Begin, history
  <2>2. pc[c] \notin {"insert", "done", "refused", "error"}
    BY <1>1 DEF InvitationStep, Invite, Withdraw, Issue, Revoke, Cancel, Accept, Expire,
                Match, Mark
  <2> QED BY <1>1, <2>1, <2>2, NoneFounded
<1>2. ASSUME NEW c \in Calls,
             \/ SignIn(c) \/ Link(c) \/ Create(c) \/ Update(c) \/ Delete(c)
             \/ UpdateAdmin(c) \/ Deactivate(c) \/ Count(c) \/ Activate(c)
      PROVE  OrgInv'
  <2>1. UNCHANGED <<user, founders, crowded>>
    BY <1>2 DEF SignIn, Link, Create, Update, Delete, UpdateAdmin, Deactivate, Count,
                Activate, Begin, history
  <2>2. pc[c] \in {"new", "byEmail", "count"}
    BY <1>2 DEF SignIn, Link, Create, Update, Delete, UpdateAdmin, Deactivate, Count,
                Activate
  <2> QED BY <1>2, <2>1, <2>2, NoneFounded DEF UserStep
<1>3. ASSUME NEW i \in Invitations, TimePasses(i) PROVE OrgInv'
  BY <1>3 DEF TimePasses, OrgInv, Founds, OneOrganization, WithEmail, Stored, history
<1>4. CASE UNCHANGED vars
  BY <1>4 DEF vars, history, OrgInv, Founds, OneOrganization, WithEmail, Stored
<1> QED BY <1>1, <1>2, <1>3, <1>4, OrgFound, OrgWrite, OrgEnds DEF Next, UserStep

\* Two organizations are provisioned for an email only if two calls had looked
\* for a user of it before either stored one, or a sign-in failed between the
\* organization and the user, for any number of identities and sign-ins.
THEOREM TwoOrganizationsOnlyIfInsertedTwice == Spec => []OneOrganization
<1>1. Init => OrgInv
  BY DEF Init, OrgInv, Founds, OneOrganization
<1>2. TableInv /\ OrgInv /\ [Next]_vars => TableInv' /\ OrgInv'
  BY TableStep, OrgStep
<1>3. OrgInv => OneOrganization
  BY DEF OrgInv
<1> QED BY <1>1, <1>2, <1>3, TableInit, PTL DEF Spec
=============================================================================
