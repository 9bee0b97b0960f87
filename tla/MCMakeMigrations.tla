-------------------------- MODULE MCMakeMigrations --------------------------
EXTENDS MakeMigrations

CONSTANTS user, post, tag, name, author, d1, d2

\* Users and tags belong to one domain, posts to the other.
TwoDomains == <<d1, d2>>
Placed == (user :> d1) @@ (post :> d2) @@ (tag :> d1)
\* Posts are written by users.
Foreign == (name :> None) @@ (author :> user)
Alone == [fields |-> (name :> 1), options |-> 0]
Written == [fields |-> (author :> 1), options |-> 0]
AloneOrWritten == {Alone, Written}
JustAlone == {Alone}
=============================================================================
