---------------------------- MODULE MCUserRequests ----------------------------
(* An instance of UserRequests for TLC. *)
EXTENDS UserRequests, TLC

CONSTANTS c1, c2, c3, c4, ann, bob, kim

FourCalls == {c1, c2, c3, c4}
ThreeUsers == {ann, bob, kim}
TwoAdmins == {ann, bob}

\* Neither the calls nor the two administrators need be told apart.
Alike == Permutations(FourCalls) \cup Permutations(TwoAdmins)
=============================================================================
