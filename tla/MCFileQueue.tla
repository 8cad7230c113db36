---------------------------- MODULE MCFileQueue ----------------------------
(* An instance of FileQueue for TLC. *)
EXTENDS FileQueue

CONSTANTS j1, r1, r2

OneJob == {j1}
TwoRequests == {r1, r2}

\* AddScoped: dependency injection builds one object per request.
ScopedInstances == Jobs \cup Requests
ScopedService == [x \in Jobs \cup Requests |-> x]
=============================================================================
