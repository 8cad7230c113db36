----------------------------- MODULE RequestsPage -----------------------------
(***************************************************************************)
(* The page of access requests: the list, which falls back on examples     *)
(* when it cannot be loaded, and the dialog that composes a request, which *)
(* adds a made-up row when the request cannot be sent.                     *)
(***************************************************************************)
EXTENDS Naturals, FiniteSets

CONSTANTS MaxRequests,   \* bound: requests created, and rows made up
          MaxFunctions   \* bound: functions running at once

\* What every instance has to satisfy.
RequestsPageAssumption == {MaxRequests, MaxFunctions} \subseteq Nat

\* toolCategories: what each category offers.
Tools ==
  [development   |-> {"github", "gitlab", "jira", "confluence"},
   database      |-> {"prod-db", "staging-db", "analytics-db"},
   cloud         |-> {"aws-console", "azure-portal", "gcp-console"},
   security      |-> {"vault", "okta-admin", "splunk"},
   monitoring    |-> {"grafana", "datadog", "newrelic"},
   collaboration |-> {"slack-channels", "teams-channels", "notion"}]
Categories == DOMAIN Tools

VARIABLES
  created,   \* the server: how many requests there are
  rows,      \* the page: rows loaded and rows made up
  loading,   \* the page: how the list is shown
  modal,     \* the page: the dialog
  running    \* the functions running, by slot

requestVars == <<created, rows, loading, modal, running>>

none     == "none"
NoModal  == [open |-> FALSE, category |-> none, tool |-> none, reason |-> FALSE]
Closed   == NoModal
Slots    == 1 .. MaxFunctions
Idle     == [fn |-> "idle", read |-> 0]
FreeSlot == {k \in Slots : running[k].fn = "idle"}
Start(fn) ==
  /\ FreeSlot # {}
  /\ running' = [running EXCEPT ![CHOOSE k \in FreeSlot : TRUE] =
                   [fn |-> fn, read |-> 0]]
Step(k, fn, read) ==
  running' = [running EXCEPT ![k] = [fn |-> fn, read |-> read]]

Init ==
  /\ created = 0
  /\ rows = [real |-> 0, madeUp |-> 0]
  /\ loading = TRUE
  /\ modal = NoModal
  /\ running = [k \in Slots |-> IF k = 1 THEN [fn |-> "fetch", read |-> 0]
                                ELSE Idle]

-----------------------------------------------------------------------------
\* The list.

Refresh ==
  /\ ~modal.open /\ ~loading
  /\ loading' = TRUE /\ Start("fetch")
  /\ UNCHANGED <<created, rows, modal>>

\* The server reads the requests for a load.
ServeFetch(k) ==
  /\ running[k].fn \in {"fetch", "refetch"}
  /\ Step(k, IF running[k].fn = "fetch" THEN "fetched" ELSE "refetched", created)
  /\ UNCHANGED <<created, rows, loading, modal>>

\* A load ends: with what was read, with the rows as they were (a refusal)
\* or with the two examples (a failure).
Examples == [real |-> 0, madeUp |-> 2]
fetchRequests(k) ==
  /\ running[k].fn \in {"fetch", "fetched", "refetch", "refetched"}
  /\ \/ /\ running[k].fn \in {"fetched", "refetched"}
        /\ rows' = [real |-> running[k].read, madeUp |-> 0]
     \/ UNCHANGED rows
     \/ rows' = Examples
  /\ loading' = FALSE
  /\ Step(k, "idle", 0)
  \* The load a submission waits for closes the dialog, whatever is in it.
  /\ modal' = IF running[k].fn \in {"refetch", "refetched"} THEN Closed
              ELSE modal
  /\ UNCHANGED created

-----------------------------------------------------------------------------
\* The dialog.

OnlyModal == UNCHANGED <<created, rows, loading, running>>

NewRequest ==
  /\ ~modal.open /\ modal' = [modal EXCEPT !.open = TRUE] /\ OnlyModal

\* The cross and the button keep what was chosen, Escape drops it.
Cancel == modal.open /\ modal' = [modal EXCEPT !.open = FALSE] /\ OnlyModal
Escape == modal.open /\ modal' = NoModal /\ OnlyModal

\* Mutant: another category keeps the tool.
ChooseCategoryOnly(c) ==
  /\ modal.open /\ modal' = [modal EXCEPT !.category = c] /\ OnlyModal

ChooseCategory(c) ==
  /\ modal.open
  /\ modal' = [modal EXCEPT !.category = c, !.tool = none]
  /\ OnlyModal

ChooseTool(t) ==
  /\ modal.open /\ modal.category # none /\ t \in Tools[modal.category]
  /\ modal' = [modal EXCEPT !.tool = t]
  /\ OnlyModal

\* The text may be typed at any time, and cleared.
TypeReason ==
  /\ modal.open
  /\ \E typed \in BOOLEAN : modal' = [modal EXCEPT !.reason = typed]
  /\ OnlyModal

-----------------------------------------------------------------------------
\* Submission: nothing keeps a second click from a second request.

SubmitEnabled == modal.open /\ modal.tool # none /\ modal.reason
toolFound == modal.category # none /\ modal.tool \in Tools[modal.category]

submitRequest ==
  /\ SubmitEnabled /\ toolFound
  /\ Start("create")
  /\ UNCHANGED <<created, rows, loading, modal>>

\* The server creates the request, and the list is loaded again.
RequestCreated(k) ==
  /\ running[k].fn = "create" /\ created < MaxRequests
  /\ created' = created + 1
  /\ Step(k, "refetch", 0)
  /\ loading' = TRUE
  /\ UNCHANGED <<rows, modal>>

RequestRefused(k) ==
  /\ running[k].fn = "create" /\ Step(k, "idle", 0)
  /\ UNCHANGED <<created, rows, loading, modal>>

\* A failure is shown as a success.
RequestFails(k) ==
  /\ running[k].fn = "create" /\ rows.madeUp < MaxRequests
  /\ rows' = [rows EXCEPT !.madeUp = @ + 1]
  /\ Step(k, "idle", 0)
  /\ modal' = Closed
  /\ UNCHANGED <<created, loading>>

Next ==
  \/ Refresh \/ NewRequest \/ Cancel \/ Escape \/ TypeReason \/ submitRequest
  \/ \E c \in Categories : ChooseCategory(c) \/ \E t \in Tools[c] : ChooseTool(t)
  \/ \E k \in Slots : \/ ServeFetch(k) \/ fetchRequests(k)
                      \/ RequestCreated(k) \/ RequestRefused(k)
                      \/ RequestFails(k)

Spec == Init /\ [][Next]_requestVars

-----------------------------------------------------------------------------

\* A submission the page allows is sent: the tool chosen is one of the
\* category chosen, however the dialog was left, reopened or closed by an
\* earlier submission that ended meanwhile.
SubmitSends == SubmitEnabled => toolFound
=============================================================================
