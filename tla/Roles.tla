-------------------------------- MODULE Roles --------------------------------
(***************************************************************************)
(* The page of roles as it works.  RoleNavigationController answers        *)
(* through EnsureUserAuthenticatedAsync, which wraps what is an answer     *)
(* already in another one, so that response.success is undefined in the    *)
(* client: its loads leave the list empty, filtered or not, and no card    *)
(* offers to rename or delete a role.  What is left is the form that       *)
(* creates one.  The server looks for the name and adds the row in two     *)
(* steps, the client is told of every creation that it failed.  A name     *)
(* stands for all that the server's comparison takes for the same.         *)
(***************************************************************************)
EXTENDS Naturals, FiniteSets

CONSTANTS RoleNames,    \* what may be typed as a name
          MaxInFlight,  \* bound: creations under way at once,
          MaxStarts,    \* ... ever started,
          MaxFaults     \* ... and lost by the page

NoName == "no name"

RolesAssumption ==
  NoName \notin RoleNames /\ {MaxInFlight, MaxStarts, MaxFaults} \subseteq Nat

VARIABLES
  roles,    \* the server: how many rows a name has
  form,     \* the page: the form, the name typed, whether it is being saved
  calls,    \* the creations under way: what each is at, and if the page waits
  starts,   \* how many were started
  faults    \* how often the page lost one, or was left

roleVars == <<roles, form, calls, starts, faults>>

Slots == 1 .. MaxInFlight
Idle  == [name |-> NoName, at |-> "idle", heard |-> FALSE]

Init ==
  /\ roles \in [RoleNames -> {0, 1}]
  /\ form = [open |-> FALSE, name |-> NoName, busy |-> FALSE]
  /\ calls = [k \in Slots |-> Idle]
  /\ starts = 0 /\ faults = 0

-----------------------------------------------------------------------------
\* The form.

OnlyForm == UNCHANGED <<roles, calls, starts, faults>>

CreateRole ==
  /\ ~form.open /\ form' = [form EXCEPT !.open = TRUE] /\ OnlyForm

TypeName(name) ==
  /\ form.open /\ ~form.busy
  /\ form' = [form EXCEPT !.name = name] /\ OnlyForm

\* Escape and the cross; a save that is under way stays so.
CloseForm ==
  /\ form.open
  /\ form' = [form EXCEPT !.open = FALSE, !.name = NoName] /\ OnlyForm

\* Mutant: the button stays enabled while the form is being saved.
SubmitOffered == form.open /\ form.name # NoName
SubmitEnabled == SubmitOffered /\ ~form.busy

handleRoleSubmit ==
  /\ SubmitEnabled /\ starts < MaxStarts
  /\ form' = [form EXCEPT !.busy = TRUE]
  /\ \E k \in Slots :
       /\ calls[k] = Idle
       /\ calls' = [calls EXCEPT ![k] =
                      [name |-> form.name, at |-> "sent", heard |-> TRUE]]
  /\ starts' = starts + 1
  /\ UNCHANGED <<roles, faults>>

\* No answer is a success to the page: it says so and offers the form again.
SaveAnswered(k) ==
  /\ calls[k].at = "answered"
  /\ calls' = [calls EXCEPT ![k] = Idle]
  /\ form' = [form EXCEPT !.busy = FALSE]
  /\ UNCHANGED <<roles, starts, faults>>

-----------------------------------------------------------------------------
\* The server.  Nothing locks the name between the look-up and the commit:
\* the transaction reads what is committed, and no index is unique.

\* A call's answer, which nobody hears once the page has lost it.
Answered(k) ==
  calls' = [calls EXCEPT ![k] = IF @.heard THEN [@ EXCEPT !.at = "answered"]
                                ELSE Idle]
OnlyCalls == UNCHANGED <<form, starts, faults>>

CheckName(k) ==
  /\ calls[k].at = "sent"
  /\ IF roles[calls[k].name] > 0 THEN Answered(k)
     ELSE calls' = [calls EXCEPT ![k].at = "checked"]
  /\ UNCHANGED roles /\ OnlyCalls

AddRole(k) ==
  /\ calls[k].at = "checked"
  /\ roles' = [roles EXCEPT ![calls[k].name] = @ + 1]
  /\ Answered(k) /\ OnlyCalls

\* The user is not signed in, or the database fails: nothing is added.
Fail(k) ==
  /\ calls[k].at \in {"sent", "checked"}
  /\ Answered(k) /\ UNCHANGED roles /\ OnlyCalls

-----------------------------------------------------------------------------
\* What the page loses: the server, which watches no token, goes on.

GoesOn(call) ==
  IF call.at \in {"sent", "checked"} THEN [call EXCEPT !.heard = FALSE] ELSE Idle

\* The request fails on its way, before or after the server has it: the catch
\* and finally clauses run.
Lost(k) ==
  /\ calls[k].heard /\ faults < MaxFaults
  /\ \/ calls' = [calls EXCEPT ![k] = GoesOn(@)]
     \/ calls[k].at = "sent" /\ calls' = [calls EXCEPT ![k] = Idle]
  /\ form' = [form EXCEPT !.busy = FALSE]
  /\ faults' = faults + 1
  /\ UNCHANGED <<roles, starts>>

\* The page is left or reloaded, and opened again.
Leave ==
  /\ faults < MaxFaults
  /\ calls' = [k \in Slots |-> GoesOn(calls[k])]
  /\ form' = [open |-> FALSE, name |-> NoName, busy |-> FALSE]
  /\ faults' = faults + 1
  /\ UNCHANGED <<roles, starts>>

Next ==
  \/ CreateRole \/ CloseForm \/ handleRoleSubmit \/ Leave
  \/ \E name \in RoleNames \cup {NoName} : TypeName(name)
  \/ \E k \in Slots : \/ SaveAnswered(k) \/ CheckName(k) \/ AddRole(k)
                      \/ Fail(k) \/ Lost(k)

Spec == Init /\ [][Next]_roleVars

-----------------------------------------------------------------------------

\* The form is busy exactly while its one save is under way: no sequence of
\* closing, reopening and submitting sends a second one.
OneSave ==
  Cardinality({k \in Slots : calls[k].heard}) = IF form.busy THEN 1 ELSE 0

\* The page creates a name once: for every further row of a name a request was
\* lost, or the page left, while the server was still creating it.
RoleOnce == \A name \in RoleNames : roles[name] <= 1 + faults
=============================================================================
