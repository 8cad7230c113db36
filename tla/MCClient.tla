------------------------------- MODULE MCClient -------------------------------
(* An instance of Client for TLC. *)
EXTENDS Client, TLC

\* Of two users one may see every page.
TwoRoles == "ann" :> "User" @@ "pat" :> "Platform Admin"
\* An address registered twice.
SameAddress == <<"ann@x", "ann@x">>
=============================================================================
