--------------------------- MODULE CredentialRow ---------------------------
(***************************************************************************)
(* What the stored credential of an account promises whoever reads it: its *)
(* version tells one content from every other, a renewal belongs to the    *)
(* sign-in that it renews, and no sign-in gives way to an older one.       *)
(***************************************************************************)
EXTENDS Integers

VARIABLE row    \* [exists, version, token, signIn, due]

Init == row.exists

Newer == row'.version > row.version /\ row'.token > row.token

\* A refreshed token takes the place of the one it was exchanged for.
Renew ==
    /\ row.exists /\ row'.exists
    /\ Newer /\ row'.signIn = row.signIn

\* The user signs in, or the deleted account is imported again.
SignIn == row'.exists /\ Newer /\ row'.signIn > row.signIn

Expire == row' = [row EXCEPT !.due = TRUE]

Delete == row.exists /\ row' = [row EXCEPT !.exists = FALSE]

Next == Renew \/ SignIn \/ Expire \/ Delete

Spec == Init /\ [][Next]_row
=============================================================================
