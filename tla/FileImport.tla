------------------------------ MODULE FileImport ------------------------------
(***************************************************************************)
(* What FileQueueService relies on when it hands a file to the import: a   *)
(* file is imported as a whole or fails without a trace, a cancellation    *)
(* that is in time makes it fail, and a committed file is reported as a    *)
(* success whether or not its rows could be saved.                         *)
(***************************************************************************)
CONSTANT Imports

VARIABLES phase,     \* "open", "committed", "succeeded" or "failed"
          cancelled, \* the import's token is cancelled
          stored     \* its rows are in the database

vars == <<phase, cancelled, stored>>

Init ==
  /\ phase = [i \in Imports |-> "open"]
  /\ cancelled = [i \in Imports |-> FALSE]
  /\ stored = [i \in Imports |-> FALSE]

Cancel(i) ==
  /\ cancelled' = [cancelled EXCEPT ![i] = TRUE]
  /\ UNCHANGED <<phase, stored>>

Commit(i) ==
  /\ phase[i] = "open"
  /\ ~cancelled[i]
  /\ phase' = [phase EXCEPT ![i] = "committed"]
  /\ UNCHANGED <<cancelled, stored>>

Fail(i) ==
  /\ phase[i] = "open"
  /\ phase' = [phase EXCEPT ![i] = "failed"]
  /\ UNCHANGED <<cancelled, stored>>

\* The rows are saved, or the error is swallowed.
Save(i) ==
  /\ phase[i] = "committed"
  /\ phase' = [phase EXCEPT ![i] = "succeeded"]
  /\ \E b \in BOOLEAN : stored' = [stored EXCEPT ![i] = b]
  /\ UNCHANGED cancelled

Next == \E i \in Imports : Cancel(i) \/ Commit(i) \/ Fail(i) \/ Save(i)

Spec == Init /\ [][Next]_vars
=============================================================================
