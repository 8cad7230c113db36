--------------------------- MODULE NotificationBell ---------------------------
(***************************************************************************)
(* The bell of the header.  The one notification the client makes follows  *)
(* the state of the migration; it can be read, dismissed, outlive the page *)
(* and grow old.  The migration is seen from here as whatever the          *)
(* provisioning page writes to the shared context.                         *)
(***************************************************************************)
EXTENDS Naturals, FiniteSets

CONSTANTS Jobs         \* the job ids of the server

none    == "none"
unknown == "unknown"   \* the id of a migration no job was named for yet

\* What every instance has to satisfy.
BellAssumption == none \notin Jobs /\ unknown \notin Jobs

VARIABLES
  migration,   \* migrationState, as the header sees it
  kept,        \* what local storage holds of it
  note,        \* the migration's entry among the notifications
  dismissed,   \* dismissedNotifications: the jobs whose entry was dismissed
  open,        \* the dropdown
  toBulkTab    \* shouldNavigateToBulkTab

bellVars == <<migration, kept, note, dismissed, open, toBulkTab>>

Ids      == Jobs \cup {unknown}
NoNote   == [job |-> none, status |-> "idle", read |-> TRUE]
NoState  == [job |-> unknown, status |-> "idle"]
Statuses == {"idle", "processing", "completed", "error"}

Init ==
  /\ migration = NoState /\ kept = NoState
  /\ note = NoNote /\ dismissed = {} /\ open = FALSE /\ toBulkTab = FALSE

-----------------------------------------------------------------------------
\* The effect that follows the migration.

\* Mutant: what was dismissed is not asked about.
FollowedAlways(m, d, n) ==
  IF m.status = "idle" THEN NoNote
  ELSE [job |-> m.job, status |-> m.status, read |-> n # NoNote /\ n.read]

\* The entry after n was shown, the migration being m and d dismissed.
Followed(m, d, n) ==
  CASE m.status = "idle" -> NoNote
    [] m.job \in d /\ m.status \in {"completed", "error"} -> n
    [] OTHER -> [job |-> m.job, status |-> m.status,
                 read |-> n # NoNote /\ n.read]

\* updateMigrationState: the page reports on a migration, begins another
\* under a job not known yet, or learns its job.
UpdateMigrationState(m) ==
  /\ migration' = m /\ kept' = m
  /\ note' = Followed(m, dismissed, note)
  /\ UNCHANGED <<dismissed, open, toBulkTab>>

ClearMigrationState ==
  /\ migration' = NoState /\ kept' = NoState /\ note' = NoNote
  /\ UNCHANGED <<dismissed, open, toBulkTab>>

-----------------------------------------------------------------------------
\* What the user does.

\* The header's button, or a click outside.
Toggle == open' = ~open /\ UNCHANGED <<migration, kept, note, dismissed, toBulkTab>>

\* What the bell counts; the entry, while the dropdown shows it; and whether
\* it has a cross and "Clear All" takes it.
Unread         == ~note.read
Listed         == open /\ note # NoNote
Dismissible(n) == n.status # "processing"

\* Hovering over the entry, or "Mark Read".
MarkAsRead ==
  /\ Listed /\ Unread
  /\ note' = [note EXCEPT !.read = TRUE]
  /\ UNCHANGED <<migration, kept, dismissed, open, toBulkTab>>

\* The cross and "Clear All".
RemoveNotification ==
  /\ Listed /\ Dismissible(note)
  /\ dismissed' = dismissed \cup {note.job}
  /\ note' = Followed(migration, dismissed', NoNote)
  /\ UNCHANGED <<migration, kept, open, toBulkTab>>

\* A click on the entry reads it first; "View Migration Details" does not.
NavigateToMigration(clicked) ==
  /\ Listed
  /\ note' = [note EXCEPT !.read = @ \/ clicked]
  /\ toBulkTab' = TRUE /\ open' = FALSE
  /\ UNCHANGED <<migration, kept, dismissed>>

-----------------------------------------------------------------------------
\* Time and reloads.

\* After seven days an entry is dropped unless its migration is processing;
\* the ids of dismissed migrations are kept.
Cleanup ==
  /\ note # NoNote /\ note.status # "processing"
  /\ note' = NoNote
  /\ UNCHANGED <<migration, kept, dismissed, open, toBulkTab>>

\* The bell reads its own storage, sees no migration yet, then what was
\* kept of it, if that is less than an hour old.
Reload ==
  /\ \E fresh \in BOOLEAN :
       /\ kept' = IF fresh THEN kept ELSE NoState
       /\ migration' = kept'
       /\ note' = Followed(kept', dismissed, Followed(NoState, dismissed, note))
  /\ open' = FALSE /\ toBulkTab' = FALSE
  /\ UNCHANGED dismissed

\* Leaving for a page without the header and coming back.
Remount ==
  /\ note' = Followed(migration, dismissed, note)
  /\ open' = FALSE
  /\ UNCHANGED <<migration, kept, dismissed, toBulkTab>>

\* What the provisioning page writes: the start of an upload, the job the
\* server names, and the end of the migration it knows.
Reports ==
  {m \in [job : Ids, status : Statuses \ {"idle"}] :
     \/ m.status = "processing"
     \/ m.job = migration.job /\ migration.status # "idle"}

Next ==
  \/ \E m \in Reports : UpdateMigrationState(m)
  \/ ClearMigrationState \/ Toggle \/ MarkAsRead \/ RemoveNotification
  \/ Cleanup \/ Reload \/ Remount
  \/ \E clicked \in BOOLEAN : NavigateToMigration(clicked)

Spec == Init /\ [][Next]_bellVars

-----------------------------------------------------------------------------

\* A migration whose end was dismissed is not announced as ended again: not
\* by another report, nor after a reload, nor when the header comes back.
DismissedStaysGone == note.job \in dismissed => note.status = "processing"
=============================================================================
