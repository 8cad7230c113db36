------------------------------ MODULE UploadJob ------------------------------
(***************************************************************************)
(* What a multi-file upload promises to the client that started it,        *)
(* whatever runs it: an accepted job is started, imports each file at most *)
(* once, and announces one verdict, which is "success" exactly when every  *)
(* file was imported.  A cancellation closes the job: at most the import   *)
(* that is already committed still goes through.                           *)
(***************************************************************************)
CONSTANTS Jobs, Files

VARIABLES phase,       \* how far the job has come
          total,       \* the files it was given
          imported,    \* the files imported so far
          verdict,     \* what was announced
          cancelled,   \* a cancellation has been accepted
          open         \* imports may still happen

vars == <<phase, total, imported, verdict, cancelled, open>>

Init ==
  /\ phase = [j \in Jobs |-> "none"]
  /\ total \in [Jobs -> SUBSET Files]
  /\ imported = [j \in Jobs |-> {}]
  /\ verdict = [j \in Jobs |-> "none"]
  /\ cancelled = [j \in Jobs |-> FALSE]
  /\ open = [j \in Jobs |-> TRUE]

Accept(j) ==
  /\ phase[j] = "none"
  /\ phase' = [phase EXCEPT ![j] = "accepted"]
  /\ \E S \in SUBSET Files : S # {} /\ total' = [total EXCEPT ![j] = S]
  /\ UNCHANGED <<imported, verdict, cancelled, open>>

Begin(j) ==
  /\ phase[j] = "accepted"
  /\ phase' = [phase EXCEPT ![j] = "running"]
  /\ UNCHANGED <<total, imported, verdict, cancelled, open>>

Import(j) ==
  /\ phase[j] = "running"
  /\ verdict[j] = "none"
  /\ open[j]
  /\ \E f \in total[j] \ imported[j] :
       imported' = [imported EXCEPT ![j] = @ \cup {f}]
  /\ open' = [open EXCEPT ![j] = ~cancelled[j]]
  /\ UNCHANGED <<phase, total, verdict, cancelled>>

Announce(j) ==
  /\ phase[j] = "running"
  /\ verdict[j] = "none"
  /\ verdict' = [verdict EXCEPT ![j] = IF imported[j] = total[j]
                                         THEN "success" ELSE "failure"]
  /\ UNCHANGED <<phase, total, imported, cancelled, open>>

End(j) ==
  /\ phase[j] = "running"
  /\ verdict[j] # "none"
  /\ phase' = [phase EXCEPT ![j] = "over"]
  /\ UNCHANGED <<total, imported, verdict, cancelled, open>>

Cancel(j) ==
  /\ phase[j] = "running"
  /\ cancelled' = [cancelled EXCEPT ![j] = TRUE]
  /\ \/ UNCHANGED open
     \/ open' = [open EXCEPT ![j] = FALSE]
  /\ UNCHANGED <<phase, total, imported, verdict>>

\* The server restarts: jobs that were not over are lost, all at once.
Lose ==
  /\ phase' = [j \in Jobs |-> IF phase[j] \in {"accepted", "running"}
                                THEN "lost" ELSE phase[j]]
  /\ open' \in [Jobs -> BOOLEAN]
  /\ \A j \in Jobs : open'[j] => open[j]
  /\ UNCHANGED <<total, imported, verdict, cancelled>>

Progress(j) == Begin(j) \/ Import(j) \/ Announce(j) \/ End(j)

Next == (\E j \in Jobs : Accept(j) \/ Progress(j) \/ Cancel(j)) \/ Lose

\* What never happens to a job, and that a job that can go on does.
Safety == Init /\ [][Next]_vars
Spec == Safety /\ \A j \in Jobs : WF_vars(Progress(j))
=============================================================================
