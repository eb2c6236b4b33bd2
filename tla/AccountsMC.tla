------------------------------ MODULE AccountsMC ------------------------------
(* Small instances of Accounts. *)
EXTENDS Accounts, TLC

CONSTANTS c1, c2, c3, x1, x2, e1, e2, E1

\* Two identities with one email, which is also written with capitals.
LowerCase == e1 :> e1 @@ e2 :> e2 @@ E1 :> e1
EmailsOf == x1 :> e1 @@ x2 :> e1

NoEmails == [x \in {} |-> e1]

SuperAt(e) == [status |-> "active", email |-> e, identity |-> Fresh,
               role |-> "super", admin |-> TRUE, org |-> FALSE]

\* One super admin.
OneSuper == [u \in Users |-> IF u = 1 THEN SuperAt(e2) ELSE NoRow]

Alike == Permutations({c1, c2, c3})
=============================================================================
