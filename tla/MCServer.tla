------------------------------- MODULE MCServer -------------------------------
EXTENDS Server

CONSTANTS users, plain, profile

\* A router with a path of its own, one without, and a third.
MCPathOf == (users :> <<"users">>) @@ (plain :> << >>) @@ (profile :> <<"profile">>)
MCDomainRouters == <<users, plain>>
MCPrefix == <<"api">>
=============================================================================
