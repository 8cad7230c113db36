---------------------------- MODULE MCRateLimiter ----------------------------
(* An instance of RateLimiter for TLC. *)
EXTENDS RateLimiter, TLC

CONSTANTS q1, q2, q3, q4, a1, a2

FourRequests == {q1, q2, q3, q4}
TwoClients == {a1, a2}

\* Three requests of one client, which need not be told apart, and one of another.
Senders == q1 :> a1 @@ q2 :> a1 @@ q3 :> a1 @@ q4 :> a2
SameSender == Permutations({q1, q2, q3})
=============================================================================
