----------------------------- MODULE ClientProofs -----------------------------
(***************************************************************************)
(* Proofs about the pages of the client, for any number of items, slots,   *)
(* functions, jobs, links and pages of links.  Each page comes first, with *)
(* an invariant of its own under the names of its module; the last section *)
(* puts them together for the client.                                      *)
(***************************************************************************)
EXTENDS Client, FiniteSetTheorems, SequenceTheorems, TLAPS

-----------------------------------------------------------------------------
(* The bell.                                                               *)

\* An entry that was dismissed is about a migration, and shown only while that runs.
BellInv ==
  /\ migration \in [job : Bell!Ids, status : Bell!Statuses]
  /\ kept \in [job : Bell!Ids, status : Bell!Statuses]
  /\ note = Bell!NoNote \/ note \in [job : Bell!Ids, status : Bell!Statuses, read : BOOLEAN]
  /\ dismissed \subseteq Bell!Ids
  /\ note.job \in dismissed => note.status = "processing"

\* The entry that follows a migration is none, the one before or the migration's own,
\* and the last never announces an end that was dismissed.
LEMMA FollowedKinds ==
  ASSUME NEW m \in [job : Bell!Ids, status : Bell!Statuses], NEW d, NEW n
  PROVE  \/ Bell!Followed(m, d, n) = Bell!NoNote
         \/ Bell!Followed(m, d, n) = n
         \/ /\ Bell!Followed(m, d, n)
                 = [job |-> m.job, status |-> m.status, read |-> n # Bell!NoNote /\ n.read]
            /\ m.job \in d => m.status = "processing"
BY DEF Bell!Followed, Bell!Statuses

\* So following keeps the entry as it has to be.
LEMMA FollowedFits ==
  ASSUME Bell!BellAssumption, NEW m \in [job : Bell!Ids, status : Bell!Statuses],
         NEW d, d \subseteq Bell!Ids, NEW n,
         n = Bell!NoNote \/ n \in [job : Bell!Ids, status : Bell!Statuses, read : BOOLEAN],
         n.job \in d => n.status = "processing"
  PROVE  LET f == Bell!Followed(m, d, n)
         IN  /\ \/ f = Bell!NoNote
                \/ f \in [job : Bell!Ids, status : Bell!Statuses, read : BOOLEAN]
             /\ f.job \in d => f.status = "processing"
<1> DEFINE f == Bell!Followed(m, d, n)
           Notes == [job : Bell!Ids, status : Bell!Statuses, read : BOOLEAN]
<1>1. CASE f = Bell!NoNote
  <2>1. Bell!NoNote.job \notin d
    BY DEF Bell!BellAssumption, Bell!NoNote, Bell!Ids, Bell!none, Bell!unknown
  <2>2. QED
    BY <1>1, <2>1
<1>2. CASE f = n
  BY <1>2
<1>3. CASE /\ f = [job |-> m.job, status |-> m.status, read |-> n # Bell!NoNote /\ n.read]
           /\ m.job \in d => m.status = "processing"
  <2>1. (n # Bell!NoNote /\ n.read) \in BOOLEAN
    OBVIOUS
  <2>2. f \in Notes /\ f.job = m.job /\ f.status = m.status
    BY <1>3, <2>1
  <2>3. QED
    BY <1>3, <2>2
<1>4. QED
  BY <1>1, <1>2, <1>3, FollowedKinds

\* Every step of the bell keeps it so.
LEMMA BellStep ==
  Bell!BellAssumption /\ BellInv /\ [Bell!Next]_(Bell!bellVars) => BellInv'
<1> SUFFICES ASSUME Bell!BellAssumption, BellInv, [Bell!Next]_(Bell!bellVars) PROVE BellInv'
  OBVIOUS
<1> DEFINE States == [job : Bell!Ids, status : Bell!Statuses]
           Notes == [job : Bell!Ids, status : Bell!Statuses, read : BOOLEAN]
<1>t. /\ migration \in States /\ kept \in States /\ (note = Bell!NoNote \/ note \in Notes)
      /\ dismissed \subseteq Bell!Ids /\ (note.job \in dismissed => note.status = "processing")
  BY DEF BellInv
<1>n. /\ Bell!NoState \in States /\ Bell!NoState.status = "idle"
      /\ Bell!NoNote.job \notin Bell!Ids
  BY DEF Bell!NoState, Bell!Ids, Bell!Statuses, Bell!NoNote, Bell!BellAssumption, Bell!none,
    Bell!unknown
<1>u. ASSUME note' \in Notes, note'.job = note.job, note'.status = note.status,
             UNCHANGED <<migration, kept, dismissed>>
      PROVE  BellInv'
  BY <1>u, <1>t DEF BellInv
<1>d. ASSUME NEW d, d \subseteq Bell!Ids, NEW m \in States, NEW n, n = Bell!NoNote \/ n \in Notes,
             n.job \in d => n.status = "processing",
             migration' \in States, kept' \in States, dismissed' = d,
             note' = Bell!Followed(m, d, n)
      PROVE  BellInv'
  <2>1. /\ note' = Bell!NoNote \/ note' \in Notes
        /\ note'.job \in d => note'.status = "processing"
    BY <1>d, FollowedFits
  <2>2. QED
    BY <1>d, <2>1 DEF BellInv
<1>1. ASSUME NEW m \in Bell!Reports, Bell!UpdateMigrationState(m) PROVE BellInv'
  <2>1. m \in States
    BY <1>1 DEF Bell!Reports, Bell!Statuses
  <2>2. QED
    BY <1>1, <1>t, <2>1, <1>d DEF Bell!UpdateMigrationState
<1>2. CASE Bell!ClearMigrationState
  BY <1>2, <1>t, <1>n DEF BellInv, Bell!ClearMigrationState
<1>3. CASE Bell!Toggle
  BY <1>3, <1>t DEF BellInv, Bell!Toggle
<1>4. CASE Bell!MarkAsRead
  <2>1. note \in Notes /\ note' = [note EXCEPT !.read = TRUE]
    BY <1>4, <1>t DEF Bell!MarkAsRead, Bell!Listed
  <2>2. QED
    BY <1>4, <2>1, <1>u DEF Bell!MarkAsRead
<1>5. CASE Bell!RemoveNotification
  <2>1. note \in Notes
    BY <1>5, <1>t DEF Bell!RemoveNotification, Bell!Listed
  <2>2. Bell!NoNote.job \notin dismissed'
    BY <1>5, <1>t, <1>n, <2>1 DEF Bell!RemoveNotification
  <2>3. /\ dismissed' \subseteq Bell!Ids /\ UNCHANGED <<migration, kept>>
        /\ note' = Bell!Followed(migration, dismissed', Bell!NoNote)
    BY <1>5, <1>t, <2>1 DEF Bell!RemoveNotification
  <2>4. QED
    BY <1>t, <2>2, <2>3, <1>d
<1>6. ASSUME NEW clicked \in BOOLEAN, Bell!NavigateToMigration(clicked) PROVE BellInv'
  <2>1. note \in Notes /\ note' = [note EXCEPT !.read = @ \/ clicked]
    BY <1>6, <1>t DEF Bell!NavigateToMigration, Bell!Listed
  <2>2. (note.read \/ clicked) \in BOOLEAN
    OBVIOUS
  <2>3. QED
    BY <1>6, <2>1, <2>2, <1>u DEF Bell!NavigateToMigration
<1>7. CASE Bell!Cleanup
  BY <1>7, <1>t, <1>n DEF BellInv, Bell!Cleanup
<1>8. CASE Bell!Reload
  <2>1. PICK fresh \in BOOLEAN :
          /\ kept' = IF fresh THEN kept ELSE Bell!NoState
          /\ migration' = kept'
          /\ note' = Bell!Followed(kept', dismissed,
                                   Bell!Followed(Bell!NoState, dismissed, note))
    BY <1>8 DEF Bell!Reload
  <2>2. kept' \in States /\ migration' \in States /\ dismissed' = dismissed
    BY <1>8, <2>1, <1>t, <1>n DEF Bell!Reload
  <2>3. Bell!Followed(Bell!NoState, dismissed, note) = Bell!NoNote
    BY <1>n DEF Bell!Followed
  <2>4. Bell!NoNote.job \notin dismissed
    BY <1>n, <1>t
  <2>5. QED
    BY <2>1, <2>2, <2>3, <2>4, <1>t, <1>d
<1>9. CASE Bell!Remount
  BY <1>9, <1>t, <1>d DEF Bell!Remount
<1>10. CASE UNCHANGED Bell!bellVars
  BY <1>10 DEF BellInv, Bell!bellVars
<1>11. QED
  BY <1>1, <1>2, <1>3, <1>4, <1>5, <1>6, <1>7, <1>8, <1>9, <1>10 DEF Bell!Next

\* The bell begins so.
LEMMA BellBegins ==
  Bell!Init => BellInv
<1>1. Bell!NoNote.job \notin {}
  OBVIOUS
<1>2. Bell!NoState \in [job : Bell!Ids, status : Bell!Statuses]
  BY DEF Bell!NoState, Bell!Ids, Bell!Statuses
<1>3. QED
  BY <1>1, <1>2 DEF Bell!Init, BellInv

\* So an end that was dismissed is not announced.
LEMMA BellDismisses ==
  BellInv => Bell!DismissedStaysGone
BY DEF BellInv, Bell!DismissedStaysGone

-----------------------------------------------------------------------------
(* The page of access requests.                                            *)

\* A tool is chosen only in a category, of those it offers.
DialogInv ==
  modal.tool # RequestsPage!none =>
    /\ modal.category \in RequestsPage!Categories
    /\ modal.tool \in RequestsPage!Tools[modal.category]
DialogShape ==
  /\ modal = [open |-> modal.open, category |-> modal.category, tool |-> modal.tool,
              reason |-> modal.reason]
  /\ modal.category \in {RequestsPage!none} \cup RequestsPage!Categories

\* No category and no tool is called "none".
LEMMA NamedTools ==
  /\ RequestsPage!none \notin RequestsPage!Categories
  /\ \A c \in RequestsPage!Categories : \A t \in RequestsPage!Tools[c] :
       t # RequestsPage!none
<1> DEFINE Names == {"development", "database", "cloud", "security", "monitoring",
                      "collaboration"}
<1>1. RequestsPage!Categories = Names
  BY DEF RequestsPage!Categories, RequestsPage!Tools
<1>2. ASSUME NEW c \in Names, NEW t \in RequestsPage!Tools[c]
      PROVE  t # "none"
  BY <1>2 DEF RequestsPage!Tools
<1>3. QED
  BY <1>1, <1>2 DEF RequestsPage!none

\* The page begins with no tool chosen.
LEMMA RequestsBegin ==
  RequestsPage!Init => DialogInv /\ DialogShape
<1>1. RequestsPage!NoModal.tool = RequestsPage!none
  BY DEF RequestsPage!NoModal
<1>2. QED
  BY <1>1 DEF RequestsPage!Init, DialogInv, DialogShape, RequestsPage!NoModal

\* Every step of the page keeps the tool chosen one of its category.
LEMMA RequestsStep ==
  DialogInv /\ DialogShape /\ [RequestsPage!Next]_(RequestsPage!requestVars)
        => (DialogInv /\ DialogShape)'
<1> SUFFICES ASSUME DialogInv, DialogShape, [RequestsPage!Next]_(RequestsPage!requestVars)
             PROVE  DialogInv' /\ DialogShape'
  OBVIOUS
<1>1. CASE modal' = modal
  BY <1>1 DEF DialogInv, DialogShape
<1>2. CASE modal' = RequestsPage!NoModal
  <2>1. RequestsPage!NoModal.tool = RequestsPage!none
    BY DEF RequestsPage!NoModal
  <2>2. QED
    BY <1>2, <2>1 DEF DialogInv, DialogShape, RequestsPage!NoModal
<1>3. ASSUME NEW b \in BOOLEAN, modal' = [modal EXCEPT !.open = b]
      PROVE  DialogInv' /\ DialogShape'
  BY <1>3 DEF DialogInv, DialogShape
<1>4. CASE RequestsPage!TypeReason
  BY <1>4 DEF DialogInv, DialogShape, RequestsPage!TypeReason
<1>5. ASSUME NEW c \in RequestsPage!Categories, RequestsPage!ChooseCategory(c)
      PROVE  DialogInv' /\ DialogShape'
  BY <1>5 DEF DialogInv, DialogShape, RequestsPage!ChooseCategory
<1>6. ASSUME NEW t, RequestsPage!ChooseTool(t)
      PROVE  DialogInv' /\ DialogShape'
  <2>1. /\ modal.category \in RequestsPage!Categories
        /\ t \in RequestsPage!Tools[modal.category]
        /\ modal' = [modal EXCEPT !.tool = t]
    BY <1>6 DEF RequestsPage!ChooseTool, DialogShape
  <2>2. QED
    BY <2>1 DEF DialogInv, DialogShape
<1>7. modal' = modal \/ modal' = RequestsPage!NoModal
      \/ (\E b \in BOOLEAN : modal' = [modal EXCEPT !.open = b])
      \/ RequestsPage!TypeReason
      \/ (\E c \in RequestsPage!Categories : RequestsPage!ChooseCategory(c))
      \/ (\E t : RequestsPage!ChooseTool(t))
  BY DEF RequestsPage!Next, RequestsPage!requestVars, RequestsPage!Refresh,
    RequestsPage!NewRequest, RequestsPage!Cancel, RequestsPage!Escape,
    RequestsPage!submitRequest, RequestsPage!ServeFetch, RequestsPage!fetchRequests,
    RequestsPage!RequestCreated, RequestsPage!RequestRefused, RequestsPage!RequestFails,
    RequestsPage!Closed
<1>8. QED
  BY <1>1, <1>2, <1>3, <1>4, <1>5, <1>6, <1>7

\* So a submission that the page allows finds its tool.
LEMMA RequestsSent ==
  DialogInv /\ DialogShape => RequestsPage!SubmitSends
BY NamedTools DEF DialogInv, DialogShape, RequestsPage!SubmitSends,
  RequestsPage!SubmitEnabled, RequestsPage!toolFound

-----------------------------------------------------------------------------
(* The page of applications: the slots of the functions running.           *)

PageSlots     == 1 .. MaxInFlight
IsCall(c) == c = [fn |-> c.fn, page |-> c.page, size |-> c.size, id |-> c.id,
                  got |-> c.got, wide |-> c.wide]
IsForm(f) == /\ f = [open |-> f.open, editing |-> f.editing, busy |-> f.busy,
                     done |-> f.done]
             /\ f.busy \in BOOLEAN
IsList(l) == l = [data |-> l.data, page |-> l.page, size |-> l.size, all |-> l.all,
                  loading |-> l.loading]

\* Every slot holds a function, running or idle.
SlotInv == calls = [k \in PageSlots |-> calls[k]] /\ \A k \in PageSlots : IsCall(calls[k])

\* Slot k now holds c, and the others what they held.
Takes(k, c) == calls' = [calls EXCEPT ![k] = c]

\* The functions that save, and that a form is busy exactly while there is one.
Saving  == {k \in PageSlots : calls[k].fn = "save"}
SaveInv == \/ form.busy = FALSE /\ Saving = {}
           \/ form.busy = TRUE /\ \E k \in PageSlots : Saving = {k}

\* A function of fns runs; with no fault, what such a function was answered is no refusal.
Loads(fns) == \E k \in PageSlots : calls[k].fn \in fns
RepliesOk(fns) ==
  faults = 0 => \A k \in PageSlots :
    calls[k].fn \in fns /\ calls[k].got # <<>> => calls[k].got[1].ok

\* A function keeps its shape when it is answered ...
LEMMA CallServed ==
  ASSUME NEW c, IsCall(c), NEW g, NEW z, z = [c EXCEPT !.got = g]
  PROVE  IsCall(z) /\ z.fn = c.fn /\ z.got = g
<1>1. z = [fn |-> c.fn, page |-> c.page, size |-> c.size, id |-> c.id,
           got |-> g, wide |-> c.wide]
  BY DEF IsCall
<1>2. QED
  BY <1>1 DEF IsCall

\* ... and when it goes on to another request.
LEMMA CallRenamed ==
  ASSUME NEW c, IsCall(c), NEW f, NEW z, z = [c EXCEPT !.fn = f]
  PROVE  IsCall(z) /\ z.fn = f
<1>1. z = [fn |-> f, page |-> c.page, size |-> c.size, id |-> c.id,
           got |-> c.got, wide |-> c.wide]
  BY DEF IsCall
<1>2. QED
  BY <1>1 DEF IsCall

\* So is a function that now works on another item.
LEMMA CallRedirected ==
  ASSUME NEW c, IsCall(c), NEW i, NEW z, z = [c EXCEPT !.id = i]
  PROVE  IsCall(z) /\ z.fn = c.fn
<1>1. z = [fn |-> c.fn, page |-> c.page, size |-> c.size, id |-> i,
           got |-> c.got, wide |-> c.wide]
  BY DEF IsCall
<1>2. QED
  BY <1>1 DEF IsCall

\* Taking a slot leaves the other slots as they are.
LEMMA SlotTaken ==
  ASSUME SlotInv, NEW k \in PageSlots, NEW c, IsCall(c), Takes(k, c)
  PROVE  SlotInv' /\ calls'[k] = c /\ \A j \in PageSlots \ {k} : calls'[j] = calls[j]
<1>1. calls'[k] = c /\ \A j \in PageSlots \ {k} : calls'[j] = calls[j]
  BY DEF SlotInv, Takes
<1>2. calls' = [j \in PageSlots |-> calls'[j]]
  BY DEF SlotInv, Takes
<1>3. QED
  BY <1>1, <1>2 DEF SlotInv

\* No answer is a refusal while none was given.
LEMMA RepliesKept ==
  ASSUME SlotInv, NEW k \in PageSlots, NEW c, IsCall(c), Takes(k, c),
         NEW fns, RepliesOk(fns), faults' = 0 => faults = 0,
         faults' = 0 /\ c.fn \in fns /\ c.got # <<>> => c.got[1].ok
  PROVE  RepliesOk(fns)'
BY SlotTaken DEF RepliesOk

\* A load runs as long as no slot is taken from it.
LEMMA LoadsKept ==
  ASSUME SlotInv, NEW k \in PageSlots, NEW c, IsCall(c), Takes(k, c), NEW fns,
         c.fn \in fns \/ (calls[k].fn \notin fns /\ Loads(fns))
  PROVE  Loads(fns)'
BY SlotTaken DEF Loads

\* A form that is not busy sends a save and becomes so, one that is busy waits for its
\* save to end, and no other step touches either.
LEMMA SavesKept ==
  ASSUME SlotInv, SaveInv, NEW k \in PageSlots, NEW c, IsCall(c), Takes(k, c),
         \/ form'.busy = form.busy /\ (calls[k].fn = "save" <=> c.fn = "save")
         \/ form'.busy = TRUE /\ form.busy = FALSE /\ c.fn = "save"
         \/ form'.busy = FALSE /\ calls[k].fn = "save" /\ c.fn # "save"
  PROVE  SaveInv'
<1>0. /\ calls'[k] = c /\ (\A j \in PageSlots \ {k} : calls'[j] = calls[j])
      /\ Saving' = {j \in PageSlots : calls'[j].fn = "save"}
  BY SlotTaken DEF Saving
<1>1. CASE form'.busy = form.busy /\ (calls[k].fn = "save" <=> c.fn = "save")
  <2>1. Saving' = Saving
    BY <1>0, <1>1 DEF Saving
  <2>2. QED
    BY <1>1, <2>1 DEF SaveInv
<1>2. CASE form'.busy = TRUE /\ form.busy = FALSE /\ c.fn = "save"
  <2>1. Saving = {}
    BY <1>2 DEF SaveInv
  <2>2. Saving' = {k}
    BY <1>0, <1>2, <2>1 DEF Saving
  <2>3. QED
    BY <1>2, <2>2 DEF SaveInv
<1>3. CASE form'.busy = FALSE /\ calls[k].fn = "save" /\ c.fn # "save"
  <2>1. PICK j \in PageSlots : Saving = {j}
    BY <1>3 DEF SaveInv, Saving
  <2>2. Saving' = {}
    BY <1>0, <1>3, <2>1 DEF Saving
  <2>3. QED
    BY <1>3, <2>2 DEF SaveInv
<1>4. QED
  BY <1>1, <1>2, <1>3

\* So as many functions save as the form is busy with.
LEMMA SavesCounted ==
  ASSUME SaveInv PROVE Cardinality(Saving) = IF form.busy THEN 1 ELSE 0
<1>1. CASE form.busy = FALSE /\ Saving = {}
  BY <1>1, FS_EmptySet
<1>2. CASE form.busy = TRUE /\ \E k \in PageSlots : Saving = {k}
  BY <1>2, FS_Singleton
<1>3. QED
  BY <1>1, <1>2 DEF SaveInv

\* What the page keeps.
LoadingInv == faults = 0 /\ list.loading => Loads({"fetch", "probe"})
AppInv ==
  /\ SlotInv /\ IsForm(form) /\ IsList(list) /\ faults \in Nat
  /\ SaveInv /\ RepliesOk({"fetch", "probe", "all"}) /\ LoadingInv

\* What the steps of the page put into a slot.
LEMMA ApplicationCalls ==
  /\ Applications!Slots = PageSlots
  /\ IsCall(Applications!Idle) /\ Applications!Idle.fn = "idle" /\ Applications!Idle.got = <<>>
  /\ \A fn, page, size, id :
       /\ IsCall(Applications!Call(fn, page, size, id))
       /\ Applications!Call(fn, page, size, id).fn = fn
       /\ Applications!Call(fn, page, size, id).got = <<>>
BY DEF Applications!Slots, PageSlots, IsCall, Applications!Call, Applications!Idle

\* Starting a function takes an idle slot.
LEMMA ApplicationStarts ==
  ASSUME SlotInv, NEW c, Applications!Start(c)
  PROVE  \E k \in PageSlots : calls[k].fn = "idle" /\ Takes(k, c)
<1>1. Applications!NewSlot \in Applications!Free
  BY DEF Applications!Start, Applications!NewSlot
<1>2. /\ Applications!NewSlot \in PageSlots
      /\ calls[Applications!NewSlot].fn = "idle"
  BY <1>1, ApplicationCalls DEF Applications!Free
<1>3. Takes(Applications!NewSlot, c)
  BY DEF Applications!Start, Takes
<1>4. QED
  BY <1>2, <1>3

\* A step that takes no slot keeps the invariant if form and list keep what it is about.
LEMMA ApplicationRests ==
  ASSUME AppInv, UNCHANGED calls, faults' = faults, IsForm(form'), form'.busy = form.busy,
         IsList(list'), list'.loading => list.loading
  PROVE  AppInv'
BY DEF AppInv, SlotInv, SaveInv, Saving, RepliesOk, LoadingInv, Loads

\* One that takes a slot keeps it as the functions and the form go together.
LEMMA ApplicationMoves ==
  ASSUME AppInv, NEW k \in PageSlots, NEW c, IsCall(c), Takes(k, c),
         IsForm(form'), IsList(list'),
         faults' = faults \/ faults' = faults + 1,
         \/ form'.busy = form.busy /\ (calls[k].fn = "save" <=> c.fn = "save")
         \/ form'.busy = TRUE /\ form.busy = FALSE /\ c.fn = "save"
         \/ form'.busy = FALSE /\ calls[k].fn = "save" /\ c.fn # "save",
         \/ faults' = faults + 1
         \/ c.got = <<>> \/ c.fn \notin {"fetch", "probe", "all"} \/ c.got[1].ok,
         \/ faults' = faults + 1
         \/ ~list'.loading
         \/ c.fn \in {"fetch", "probe"}
         \/ (list'.loading => list.loading) /\ calls[k].fn \notin {"fetch", "probe"}
  PROVE  AppInv'
<1>1. /\ SlotInv /\ SaveInv /\ RepliesOk({"fetch", "probe", "all"}) /\ LoadingInv
      /\ faults \in Nat
  BY DEF AppInv
<1>2. faults' \in Nat /\ (faults' = 0 => faults = 0 /\ faults' # faults + 1)
  BY <1>1
<1>3. SlotInv' /\ SaveInv'
  BY <1>1, SlotTaken, SavesKept
<1>4. RepliesOk({"fetch", "probe", "all"})'
  BY <1>1, <1>2, RepliesKept
<1>5. LoadingInv'
  BY <1>1, <1>2, LoadsKept DEF LoadingInv
<1>6. QED
  BY <1>2, <1>3, <1>4, <1>5 DEF AppInv

\* The steps that take no slot.
LEMMA ApplicationWaits ==
  ASSUME AppInv,
         \/ \E id : Applications!EditApplication(id) \/ Applications!confirmDeleteApplication(id)
         \/ Applications!AddApplication \/ Applications!CloseForm
         \/ Applications!TimerFires \/ Applications!CloseResult
         \/ Applications!CancelDelete \/ Applications!CloseDialog
         \/ UNCHANGED Applications!applicationVars
  PROVE  AppInv'
<1>1. IsForm(form) /\ IsList(list)
  BY DEF AppInv
<1>2. UNCHANGED <<calls, list, faults>>
  BY DEF Applications!EditApplication, Applications!confirmDeleteApplication,
    Applications!AddApplication, Applications!CloseForm, Applications!TimerFires,
    Applications!CloseResult, Applications!CancelDelete, Applications!CloseDialog,
    Applications!applicationVars, Applications!listVars, Applications!NoCalls,
    Applications!OnlyForm, Applications!OnlyTest, Applications!OnlyDialog
<1>3. \/ form' = form
      \/ form' = [Applications!NoForm EXCEPT !.open = TRUE, !.busy = form.busy]
      \/ form' = [Applications!NoForm EXCEPT !.busy = form.busy]
      \/ \E id : form' = [form EXCEPT !.open = TRUE, !.editing = id]
  BY DEF Applications!EditApplication, Applications!confirmDeleteApplication,
    Applications!AddApplication, Applications!CloseForm, Applications!TimerFires,
    Applications!CloseResult, Applications!CancelDelete, Applications!CloseDialog,
    Applications!applicationVars, Applications!listVars,
    Applications!OnlyForm, Applications!OnlyTest, Applications!OnlyDialog
<1>4. IsForm(form') /\ form'.busy = form.busy
  BY <1>1, <1>3 DEF IsForm, Applications!NoForm
<1>5. QED
  BY <1>1, <1>2, <1>4, ApplicationRests

\* The steps that start a function.
LEMMA ApplicationBegins ==
  ASSUME AppInv,
         \/ \E on \in BOOLEAN : Applications!SetFilter(on) \/ Applications!SetSortOrder(on)
         \/ \E page, size : Applications!Turn(page, size)
         \/ Applications!handleApplicationSubmit \/ Applications!testConnection
         \/ Applications!deleteApplication
  PROVE  AppInv'
<1>1. SlotInv /\ IsForm(form) /\ IsList(list)
  BY DEF AppInv
<1>2. ASSUME NEW on \in BOOLEAN, Applications!SetFilter(on) \/ Applications!SetSortOrder(on)
      PROVE  AppInv'
  <2>1. /\ form' = form /\ faults' = faults /\ list' = [list EXCEPT !.page = 1]
        /\ \/ UNCHANGED calls
           \/ Applications!Start(Applications!fetchAllApplications)
    BY <1>2 DEF Applications!SetFilter, Applications!SetSortOrder, Applications!Effect,
      Applications!NoCalls
  <2>2. IsList(list') /\ list'.loading = list.loading
    BY <1>1, <2>1 DEF IsList
  <2>3. CASE UNCHANGED calls
    BY <1>1, <2>1, <2>2, <2>3, ApplicationRests
  <2>4. CASE Applications!Start(Applications!fetchAllApplications)
    <3>1. PICK k \in PageSlots :
            calls[k].fn = "idle" /\ Takes(k, Applications!fetchAllApplications)
      BY <1>1, <2>4, ApplicationStarts
    <3>2. /\ IsCall(Applications!fetchAllApplications)
          /\ Applications!fetchAllApplications.fn = "all"
          /\ Applications!fetchAllApplications.got = <<>>
      BY ApplicationCalls DEF Applications!fetchAllApplications
    <3>3. QED
      BY <1>1, <2>1, <2>2, <3>1, <3>2, ApplicationMoves
  <2>5. QED
    BY <2>1, <2>3, <2>4
<1>3. ASSUME NEW page, NEW size, Applications!Turn(page, size) PROVE AppInv'
  <2>1. form' = form /\ faults' = faults
    BY <1>3 DEF Applications!Turn, Applications!OnlyList
  <2>2. CASE /\ list' = [list EXCEPT !.page = page, !.size = size]
             /\ UNCHANGED calls
    <3>1. IsList(list') /\ list'.loading = list.loading
      BY <1>1, <2>2 DEF IsList
    <3>2. QED
      BY <1>1, <2>1, <2>2, <3>1, ApplicationRests
  <2>3. CASE /\ list' = [list EXCEPT !.page = page, !.size = size, !.loading = TRUE]
             /\ Applications!Start(Applications!Call("fetch", page, size, 0))
    <3>1. IsList(list')
      BY <1>1, <2>3 DEF IsList
    <3>2. PICK c : c = Applications!Call("fetch", page, size, 0)
      OBVIOUS
    <3>3. IsCall(c) /\ c.fn = "fetch" /\ c.got = <<>>
      BY <3>2, ApplicationCalls
    <3>4. PICK k \in PageSlots : calls[k].fn = "idle" /\ Takes(k, c)
      BY <1>1, <2>3, <3>2, ApplicationStarts
    <3>5. QED
      BY <1>1, <2>1, <3>1, <3>3, <3>4, ApplicationMoves
  <2>4. QED
    BY <1>3, <2>2, <2>3 DEF Applications!Turn, Applications!NoCalls
<1>4. CASE Applications!handleApplicationSubmit
  <2>1. /\ form' = [form EXCEPT !.busy = TRUE] /\ form.busy = FALSE
        /\ UNCHANGED <<list, faults>>
    BY <1>4, <1>1 DEF Applications!handleApplicationSubmit, Applications!OnlyForm,
      Applications!SubmitEnabled, IsForm
  <2>b. PICK b : b = Applications!Filtered
    OBVIOUS
  <2>2. PICK c : /\ c = [Applications!Call("save", list.page, list.size, form.editing) EXCEPT
                           !.wide = b]
                 /\ Applications!Start(c)
    BY <1>4, <2>b DEF Applications!handleApplicationSubmit
  <2>3. IsCall(c) /\ c.fn = "save" /\ c.got = <<>>
    BY <2>2 DEF IsCall, Applications!Call
  <2>4. PICK k \in PageSlots : calls[k].fn = "idle" /\ Takes(k, c)
    BY <1>1, <2>2, ApplicationStarts
  <2>5. IsForm(form') /\ form'.busy = TRUE
    BY <1>1, <2>1 DEF IsForm
  <2>6. QED
    BY <1>1, <2>1, <2>3, <2>4, <2>5, ApplicationMoves
<1>5. CASE Applications!testConnection
  <2>1. UNCHANGED <<form, list, faults>>
    BY <1>5 DEF Applications!testConnection, Applications!OnlyTest
  <2>2. PICK c : c = Applications!Call("test", 0, 0, 0) /\ Applications!Start(c)
    BY <1>5 DEF Applications!testConnection
  <2>3. IsCall(c) /\ c.fn = "test" /\ c.got = <<>>
    BY <2>2, ApplicationCalls
  <2>4. PICK k \in PageSlots : calls[k].fn = "idle" /\ Takes(k, c)
    BY <1>1, <2>2, ApplicationStarts
  <2>5. QED
    BY <1>1, <2>1, <2>3, <2>4, ApplicationMoves
<1>6. CASE Applications!deleteApplication
  <2>1. UNCHANGED <<form, list, faults>>
    BY <1>6 DEF Applications!deleteApplication, Applications!OnlyDialog
  <2>b. PICK b : b = Applications!Filtered
    OBVIOUS
  <2>2. PICK c : /\ c = [Applications!Call("delete", list.page, list.size, dialog.id) EXCEPT
                           !.wide = b]
                 /\ Applications!Start(c)
    BY <1>6, <2>b DEF Applications!deleteApplication
  <2>3. IsCall(c) /\ c.fn = "delete" /\ c.got = <<>>
    BY <2>2 DEF IsCall, Applications!Call
  <2>4. PICK k \in PageSlots : calls[k].fn = "idle" /\ Takes(k, c)
    BY <1>1, <2>2, ApplicationStarts
  <2>5. QED
    BY <1>1, <2>1, <2>3, <2>4, ApplicationMoves
<1>7. QED
  BY <1>2, <1>3, <1>4, <1>5, <1>6

\* The steps in which the server answers a function.
LEMMA ApplicationServed ==
  ASSUME AppInv, NEW k \in PageSlots,
         \/ Applications!ServeTest(k) \/ Applications!ServeRead(k)
         \/ Applications!ServeRefusal(k) \/ Applications!ServeSave(k)
         \/ Applications!ServeDelete(k)
  PROVE  AppInv'
<1>1. SlotInv /\ IsForm(form) /\ IsList(list)
  BY DEF AppInv
<1>2. /\ UNCHANGED <<form, list>> /\ (faults' = faults \/ faults' = faults + 1)
      /\ \E a : /\ Applications!Serve(k, a)
                /\ \/ faults' = faults + 1
                   \/ a.ok \/ calls[k].fn \notin {"fetch", "probe", "all"}
  <2>1. CASE Applications!ServeTest(k)
    BY <2>1 DEF Applications!ServeTest, Applications!OnlyTest
  <2>2. CASE Applications!ServeRead(k)
    <3>1. Applications!Answer(calls[k].page, calls[k].size).ok
      BY DEF Applications!Answer
    <3>2. QED
      BY <2>2, <3>1 DEF Applications!ServeRead
  <2>3. CASE Applications!ServeRefusal(k)
    BY <2>3 DEF Applications!ServeRefusal
  <2>4. CASE Applications!ServeSave(k)
    BY <2>4 DEF Applications!ServeSave
  <2>5. CASE Applications!ServeDelete(k)
    BY <2>5 DEF Applications!ServeDelete
  <2>6. QED
    BY <2>1, <2>2, <2>3, <2>4, <2>5
<1>3. PICK a : /\ Applications!Serve(k, a)
               /\ \/ faults' = faults + 1
                  \/ a.ok \/ calls[k].fn \notin {"fetch", "probe", "all"}
  BY <1>2
<1>4. PICK g : g = <<a>>
  OBVIOUS
<1>5. PICK c : c = [calls[k] EXCEPT !.got = g]
  OBVIOUS
<1>6. IsCall(c) /\ c.fn = calls[k].fn /\ c.got[1] = a
  BY <1>1, <1>4, <1>5, CallServed DEF SlotInv
<1>7. Takes(k, c)
  BY <1>3, <1>4, <1>5 DEF Applications!Serve, Takes
<1>8. QED
  BY <1>1, <1>2, <1>3, <1>6, <1>7, ApplicationMoves

\* Ending a function, or going on to the load of all, starts no page load and no save.
LEMMA ApplicationEnds ==
  ASSUME NEW k, Applications!End(k) \/ Applications!ThenAll(k)
  PROVE  \E c : /\ IsCall(c) /\ c.fn \in {"idle", "all"} /\ c.got = <<>>
                /\ Takes(k, c)
<1>1. Takes(k, Applications!Idle) \/ Takes(k, Applications!fetchAllApplications)
  BY DEF Applications!End, Applications!ThenAll, Applications!Continue, Takes
<1>2. /\ IsCall(Applications!fetchAllApplications)
      /\ Applications!fetchAllApplications.fn = "all"
      /\ Applications!fetchAllApplications.got = <<>>
  BY ApplicationCalls DEF Applications!fetchAllApplications
<1>3. QED
  BY <1>1, <1>2, ApplicationCalls

\* The steps in which the page takes an answer, or a request is lost.
LEMMA ApplicationAnswered ==
  ASSUME AppInv, NEW k \in PageSlots,
         \/ Applications!FetchAnswered(k) \/ Applications!AllAnswered(k)
         \/ Applications!refetchApplications(k) \/ Applications!SaveAnswered(k)
         \/ Applications!DeleteAnswered(k) \/ Applications!TestAnswered(k)
         \/ Applications!Lost(k)
  PROVE  AppInv'
<1>1. SlotInv /\ IsForm(form) /\ IsList(list) /\ faults \in Nat /\ IsCall(calls[k])
  BY DEF AppInv, SlotInv
<1>2. CASE Applications!FetchAnswered(k)
  <2>1. /\ UNCHANGED <<form, faults>> /\ calls[k].fn = "fetch" /\ Applications!ThenAll(k)
        /\ \/ list' = [list EXCEPT !.loading = FALSE]
           \/ list' = [list EXCEPT !.data = Applications!Reply(k),
                                   !.page = Applications!Reply(k).page,
                                   !.size = Applications!Reply(k).size, !.loading = FALSE]
    BY <1>2 DEF Applications!FetchAnswered, Applications!Arrived, Applications!OnlyList
  <2>2. IsList(list') /\ ~list'.loading
    BY <1>1, <2>1 DEF IsList
  <2>3. QED
    BY <1>1, <2>1, <2>2, ApplicationEnds, ApplicationMoves
<1>3. CASE Applications!AllAnswered(k)
  <2>1. /\ UNCHANGED <<form, faults>> /\ calls[k].fn = "all" /\ Applications!End(k)
        /\ \/ list' = list
           \/ list' = [list EXCEPT !.all =
                         Applications!ToSet(Applications!Reply(k).rows)]
    BY <1>3 DEF Applications!AllAnswered, Applications!Arrived, Applications!OnlyList
  <2>2. IsList(list') /\ list'.loading = list.loading
    BY <1>1, <2>1 DEF IsList
  <2>3. QED
    BY <1>1, <2>1, <2>2, ApplicationEnds, ApplicationMoves
<1>4. CASE Applications!refetchApplications(k)
  <2>1. UNCHANGED <<form, faults>> /\ calls[k].fn = "probe" /\ calls[k].got # <<>>
    BY <1>4 DEF Applications!refetchApplications, Applications!Arrived, Applications!OnlyList
  <2>2. faults = 0 => Applications!Reply(k).ok
    BY <2>1 DEF AppInv, RepliesOk, Applications!Reply
  <2>3. CASE /\ ~Applications!Reply(k).ok /\ list' = list /\ Applications!ThenAll(k)
    <3>1. faults # 0
      BY <2>2, <2>3
    <3>2. PICK c : /\ IsCall(c) /\ c.fn \in {"idle", "all"} /\ c.got = <<>>
                   /\ Takes(k, c)
      BY <2>3, ApplicationEnds
    <3>3. SlotInv' /\ SaveInv'
      BY <1>1, <2>1, <3>2, SlotTaken, SavesKept DEF AppInv
    <3>4. QED
      BY <1>1, <2>1, <2>3, <3>1, <3>3 DEF AppInv, RepliesOk, LoadingInv
  <2>4. CASE /\ \/ \E a : list' = [list EXCEPT !.data = a, !.page = 1, !.all = {},
                                               !.loading = FALSE]
                \/ \E a : list' = [list EXCEPT !.data = a, !.loading = FALSE]
             /\ Applications!ThenAll(k)
    <3>1. IsList(list') /\ ~list'.loading
      BY <1>1, <2>4 DEF IsList
    <3>2. QED
      BY <1>1, <2>1, <2>4, <3>1, ApplicationEnds, ApplicationMoves
  <2>5. ASSUME NEW n, list' = [list EXCEPT !.loading = TRUE], Applications!FetchLast(k, n)
        PROVE  AppInv'
    <3>1. PICK c : /\ c = [Applications!Call("fetch", n, calls[k].size, 0) EXCEPT
                             !.wide = calls[k].wide]
                   /\ Takes(k, c)
      BY <2>5 DEF Applications!FetchLast, Applications!Continue, Takes
    <3>2. IsCall(c) /\ c.fn = "fetch" /\ c.got = <<>>
      BY <3>1 DEF IsCall, Applications!Call
    <3>3. IsList(list')
      BY <1>1, <2>5 DEF IsList
    <3>4. QED
      BY <1>1, <2>1, <3>1, <3>2, <3>3, ApplicationMoves
  <2>6. QED
    BY <1>4, <2>3, <2>4, <2>5 DEF Applications!refetchApplications
<1>5. CASE Applications!SaveAnswered(k)
  <2>1. /\ form' = [form EXCEPT !.busy = FALSE, !.done = @ \/ Applications!Reply(k).ok]
        /\ faults' = faults /\ calls[k].fn = "save"
    BY <1>5 DEF Applications!SaveAnswered, Applications!Arrived
  <2>2. IsForm(form') /\ form'.busy = FALSE
    BY <1>1, <2>1 DEF IsForm
  <2>3. CASE Applications!End(k) /\ list' = list
    BY <1>1, <2>1, <2>2, <2>3, ApplicationEnds, ApplicationMoves
  <2>4. ASSUME NEW n, NEW m, NEW w, list' = [list EXCEPT !.loading = TRUE],
               Applications!Continue(k, [Applications!Call("fetch", n, m, 0) EXCEPT
                                           !.wide = w])
        PROVE  AppInv'
    <3>1. PICK c : /\ c = [Applications!Call("fetch", n, m, 0) EXCEPT !.wide = w]
                   /\ Takes(k, c)
      BY <2>4 DEF Applications!Continue, Takes
    <3>2. IsCall(c) /\ c.fn = "fetch" /\ c.got = <<>>
      BY <3>1 DEF IsCall, Applications!Call
    <3>3. IsList(list')
      BY <1>1, <2>4 DEF IsList
    <3>4. QED
      BY <1>1, <2>1, <2>2, <3>1, <3>2, <3>3, ApplicationMoves
  <2>5. QED
    BY <1>5, <2>3, <2>4 DEF Applications!SaveAnswered
<1>6. CASE Applications!DeleteAnswered(k)
  <2>1. UNCHANGED <<form, faults>> /\ calls[k].fn = "delete"
    BY <1>6 DEF Applications!DeleteAnswered, Applications!Arrived
  <2>2. CASE Applications!End(k) /\ list' = list
    BY <1>1, <2>1, <2>2, ApplicationEnds, ApplicationMoves
  <2>3. CASE /\ list' = [list EXCEPT !.loading = TRUE]
             /\ Applications!Continue(k, [calls[k] EXCEPT !.fn = "probe", !.id = 0,
                                                          !.got = <<>>])
    <3>1. PICK c : /\ c = [calls[k] EXCEPT !.fn = "probe", !.id = 0, !.got = <<>>]
                   /\ Takes(k, c)
      BY <2>3 DEF Applications!Continue, Takes
    <3>2. PICK d : d = [calls[k] EXCEPT !.fn = "probe"]
      OBVIOUS
    <3>3. PICK e : e = [d EXCEPT !.id = 0]
      OBVIOUS
    <3>4. IsCall(c) /\ c.fn = "probe" /\ c.got = <<>>
      <4>1. c = [e EXCEPT !.got = <<>>]
        BY <3>1, <3>2, <3>3
      <4>2. IsCall(d) /\ d.fn = "probe"
        BY <1>1, <3>2, CallRenamed
      <4>3. IsCall(e) /\ e.fn = "probe"
        BY <4>2, <3>3, CallRedirected
      <4>4. QED
        BY <4>1, <4>3, CallServed
    <3>5. IsList(list')
      BY <1>1, <2>3 DEF IsList
    <3>6. QED
      BY <1>1, <2>1, <3>1, <3>4, <3>5, ApplicationMoves
  <2>4. QED
    BY <1>6, <2>2, <2>3 DEF Applications!DeleteAnswered
<1>7. CASE Applications!TestAnswered(k)
  <2>1. UNCHANGED <<form, list, faults>> /\ calls[k].fn = "test" /\ Applications!End(k)
    BY <1>7 DEF Applications!TestAnswered, Applications!Arrived, Applications!OnlyTest
  <2>2. QED
    BY <1>1, <2>1, ApplicationEnds, ApplicationMoves
<1>8. CASE Applications!Lost(k)
  <2>1. /\ faults' = faults + 1
        /\ Applications!End(k) \/ Applications!ThenAll(k)
        /\ list' = list \/ list' = [list EXCEPT !.loading = FALSE]
        /\ \/ calls[k].fn # "save" /\ form' = form
           \/ calls[k].fn = "save" /\ form' = [form EXCEPT !.busy = FALSE]
    BY <1>8 DEF Applications!Lost
  <2>2. IsList(list') /\ IsForm(form')
    BY <1>1, <2>1 DEF IsList, IsForm
  <2>3. \/ calls[k].fn # "save" /\ form'.busy = form.busy
        \/ calls[k].fn = "save" /\ form'.busy = FALSE
    BY <1>1, <2>1 DEF IsForm
  <2>4. QED
    BY <1>1, <2>1, <2>2, <2>3, ApplicationEnds, ApplicationMoves
<1>9. QED
  BY <1>2, <1>3, <1>4, <1>5, <1>6, <1>7, <1>8

\* The page of applications begins so.
LEMMA ApplicationsBegin ==
  ASSUME Applications!PagedListAssumption
  PROVE  Applications!Init => AppInv
<1> SUFFICES ASSUME Applications!Init PROVE AppInv
  OBVIOUS
<1>1. 1 \in PageSlots
  BY DEF PageSlots, Applications!PagedListAssumption
<1>2. PICK c : c = Applications!Call("fetch", 1, FirstSize, 0)
  OBVIOUS
<1>3. IsCall(c) /\ c.fn = "fetch" /\ c.got = <<>>
  BY <1>2, ApplicationCalls
<1>4. calls = [k \in PageSlots |-> IF k = 1 THEN c ELSE Applications!Idle]
  BY <1>2, ApplicationCalls DEF Applications!Init
<1>5. /\ SlotInv /\ Saving = {} /\ Loads({"fetch", "probe"})
      /\ RepliesOk({"fetch", "probe", "all"})
  BY <1>1, <1>3, <1>4, ApplicationCalls DEF SlotInv, Saving, Loads, RepliesOk
<1>6. IsForm(form) /\ IsList(list) /\ faults \in Nat /\ form.busy = FALSE
  BY DEF Applications!Init, Applications!ListInit, Applications!NoForm, IsForm, IsList
<1>7. QED
  BY <1>5, <1>6 DEF AppInv, SaveInv, LoadingInv

\* Every step of the page of applications keeps its invariant.
LEMMA ApplicationsStep ==
  AppInv /\ [Applications!Next]_(Applications!applicationVars) => AppInv'
BY ApplicationWaits, ApplicationBegins, ApplicationServed, ApplicationAnswered,
  ApplicationCalls DEF Applications!Next, Applications!ChoosePageSize, Applications!ClickPage

\* The page counts as this module does.
LEMMA ApplicationCount == \A S : Applications!Cardinality(S) = Cardinality(S)
BY DEF Applications!Cardinality, Cardinality

\* So a form of applications is saved once at a time.
LEMMA ApplicationsSave ==
  AppInv => Applications!OneSave
<1>1. Saving = {k \in Applications!Slots : calls[k].fn = "save"}
  BY ApplicationCalls DEF Saving
<1>2. AppInv => Cardinality(Saving) = IF form.busy THEN 1 ELSE 0
  BY SavesCounted DEF AppInv
<1>3. QED
  BY <1>1, <1>2, ApplicationCount DEF Applications!OneSave

\* So, with no fault, the page of applications does not stay loading.
LEMMA ApplicationsLoad ==
  AppInv => Applications!LoadingEnds
BY ApplicationCalls DEF AppInv, LoadingInv, Loads, Applications!LoadingEnds,
  Applications!Quiet, Applications!Free

-----------------------------------------------------------------------------
(* The page of roles.                                                      *)

RoleCalls == [name : RoleNames \cup {Roles!NoName},
              at : {"idle", "sent", "checked", "answered"}, heard : BOOLEAN]

\* A creation under way has a name, one that is answered is waited for.
IsCreation(c) ==
  /\ c \in RoleCalls
  /\ c.at # "idle" => c.name \in RoleNames
  /\ c.at = "idle" => ~c.heard
  /\ c.at = "answered" => c.heard

RoleShape ==
  /\ calls \in [PageSlots -> RoleCalls] /\ \A k \in PageSlots : IsCreation(calls[k])
  /\ roles \in [RoleNames -> Nat] /\ faults \in Nat
  /\ form \in [open : BOOLEAN, name : RoleNames \cup {Roles!NoName}, busy : BOOLEAN]

\* The creations the page waits for, those it has lost, and those that found no row of
\* their name.
Awaited       == {k \in PageSlots : calls[k].heard}
Strays        == {k \in PageSlots : calls[k].at # "idle" /\ ~calls[k].heard}
Adding(name)  == {k \in PageSlots : calls[k].at = "checked" /\ calls[k].name = name}

\* The form is busy exactly while one is awaited; each stray is owed to a fault; and
\* so is each row, made or about to be made, beyond the first.
RoleWaits == \/ form.busy = FALSE /\ Awaited = {}
             \/ form.busy = TRUE /\ \E k \in PageSlots : Awaited = {k}
RowsOwed  == /\ Cardinality(Strays) <= faults
             /\ \A name \in RoleNames :
                  roles[name] + Cardinality(Adding(name)) <= 1 + faults
RolesInv  == RoleShape /\ RoleWaits /\ RowsOwed

\* A set that gains one element at most counts at most one more.
LEMMA OneMore ==
  ASSUME NEW S, IsFiniteSet(S), NEW x, NEW T, T \subseteq S \cup {x}
  PROVE  Cardinality(T) \in Nat /\ Cardinality(T) <= Cardinality(S) + 1
<1>1. /\ IsFiniteSet(S \cup {x}) /\ Cardinality(S) \in Nat
      /\ Cardinality(S \cup {x}) = IF x \in S THEN Cardinality(S) ELSE Cardinality(S) + 1
  BY FS_AddElement, FS_CardinalityType
<1>2. Cardinality(T) \in Nat /\ Cardinality(T) <= Cardinality(S \cup {x})
  BY <1>1, FS_Subset, FS_CardinalityType
<1>3. QED
  BY <1>1, <1>2

\* The sets of slots are finite.
LEMMA SlotsFinite ==
  ASSUME InstanceAssumption, NEW S, S \subseteq PageSlots
  PROVE  IsFiniteSet(S) /\ Cardinality(S) \in Nat
<1>1. IsFiniteSet(PageSlots)
  BY FS_Interval DEF PageSlots, InstanceAssumption, Roles!RolesAssumption
<1>2. QED
  BY <1>1, FS_Subset, FS_CardinalityType

\* Taking a slot leaves the others as they are.
LEMMA CreationTaken ==
  ASSUME RoleShape, NEW k \in PageSlots, NEW c, IsCreation(c), Takes(k, c)
  PROVE  /\ calls' \in [PageSlots -> RoleCalls]
         /\ \A j \in PageSlots : IsCreation(calls'[j])
         /\ calls'[k] = c /\ \A j \in PageSlots \ {k} : calls'[j] = calls[j]
<1>1. calls'[k] = c /\ \A j \in PageSlots \ {k} : calls'[j] = calls[j]
  BY DEF RoleShape, Takes
<1>2. calls' \in [PageSlots -> RoleCalls]
  BY DEF RoleShape, Takes, IsCreation
<1>3. QED
  BY <1>1, <1>2 DEF RoleShape

\* What is owed stays so as long as nothing comes to be added, and a stray is paid for.
LEMMA OwedStill ==
  ASSUME InstanceAssumption, RolesInv, faults' \in Nat,
         \/ Strays' \subseteq Strays /\ faults' \in {faults, faults + 1}
         \/ (\E x : Strays' \subseteq Strays \cup {x}) /\ faults' = faults + 1,
         UNCHANGED roles,
         \A name \in RoleNames : Adding(name)' \subseteq Adding(name)
  PROVE  RowsOwed'
<1>1. Strays \subseteq PageSlots /\ Strays' \subseteq PageSlots
  BY DEF Strays
<1>2. faults \in Nat /\ Cardinality(Strays) <= faults
  BY DEF RolesInv, RoleShape, RowsOwed
<1>3. Cardinality(Strays') <= faults'
  <2>1. CASE Strays' \subseteq Strays /\ faults' \in {faults, faults + 1}
    <3>1. /\ Cardinality(Strays') \in Nat /\ Cardinality(Strays) \in Nat
          /\ Cardinality(Strays') <= Cardinality(Strays)
      BY <1>1, <2>1, SlotsFinite, FS_Subset
    <3>2. QED
      BY <1>2, <2>1, <3>1
  <2>2. CASE (\E x : Strays' \subseteq Strays \cup {x}) /\ faults' = faults + 1
    <3>1. PICK x : Strays' \subseteq Strays \cup {x}
      BY <2>2
    <3>2. /\ Cardinality(Strays') \in Nat /\ Cardinality(Strays) \in Nat
          /\ Cardinality(Strays') <= Cardinality(Strays) + 1
      BY <1>1, <3>1, SlotsFinite, OneMore
    <3>3. QED
      BY <1>2, <2>2, <3>2
  <2>3. QED
    BY <2>1, <2>2
<1>4. ASSUME NEW name \in RoleNames
      PROVE  roles'[name] + Cardinality(Adding(name)') <= 1 + faults'
  <2>1. Adding(name) \subseteq PageSlots
    BY DEF Adding
  <2>2. /\ Cardinality(Adding(name)') \in Nat /\ Cardinality(Adding(name)) \in Nat
        /\ Cardinality(Adding(name)') <= Cardinality(Adding(name))
    BY <2>1, SlotsFinite, FS_Subset
  <2>3. roles[name] \in Nat /\ roles[name] + Cardinality(Adding(name)) <= 1 + faults
    BY DEF RolesInv, RoleShape, RowsOwed
  <2>4. QED
    BY <1>2, <2>2, <2>3
<1>5. QED
  BY <1>3, <1>4 DEF RowsOwed

\* An answer ends what the server does for a creation.
LEMMA CreationAnswered ==
  ASSUME RolesInv, NEW k \in PageSlots, calls[k].at \in {"sent", "checked"},
         Roles!Answered(k), form' = form
  PROVE  /\ calls' \in [PageSlots -> RoleCalls]
         /\ \A j \in PageSlots : IsCreation(calls'[j])
         /\ RoleWaits' /\ Strays' \subseteq Strays
         /\ \A name \in RoleNames : Adding(name)' = Adding(name) \ {k}
<1>1. RoleShape /\ RoleWaits /\ IsCreation(calls[k])
  BY DEF RolesInv, RoleShape
<1>2. PICK c : /\ Takes(k, c) /\ IsCreation(c) /\ c.heard = calls[k].heard
               /\ c.at \in {"idle", "answered"}
  <2>1. CASE calls[k].heard
    <3>1. PICK c : c = [calls[k] EXCEPT !.at = "answered"]
      OBVIOUS
    <3>2. Takes(k, c)
      BY <1>1, <2>1, <3>1 DEF Roles!Answered, Takes, RoleShape
    <3>3. IsCreation(c) /\ c.heard = calls[k].heard /\ c.at = "answered"
      BY <1>1, <2>1, <3>1 DEF IsCreation, RoleCalls
    <3>4. QED
      BY <3>2, <3>3
  <2>2. CASE ~calls[k].heard
    <3>1. Takes(k, Roles!Idle)
      BY <1>1, <2>2 DEF Roles!Answered, Takes, RoleShape
    <3>2. IsCreation(Roles!Idle) /\ Roles!Idle.at = "idle" /\ Roles!Idle.heard = FALSE
      BY DEF IsCreation, RoleCalls, Roles!Idle
    <3>3. calls[k].heard = FALSE
      BY <1>1, <2>2 DEF IsCreation, RoleCalls
    <3>4. QED
      BY <3>1, <3>2, <3>3
  <2>3. QED
    BY <2>1, <2>2
<1>3. /\ calls' \in [PageSlots -> RoleCalls]
      /\ \A j \in PageSlots : IsCreation(calls'[j])
      /\ calls'[k] = c /\ \A j \in PageSlots \ {k} : calls'[j] = calls[j]
  BY <1>1, <1>2, CreationTaken
<1>4. \A j \in PageSlots : calls'[j].heard = calls[j].heard
  BY <1>2, <1>3
<1>5. Awaited' = Awaited
  BY <1>4 DEF Awaited
<1>6. RoleWaits'
  BY <1>1, <1>5 DEF RoleWaits
<1>7. Strays' \subseteq Strays
  BY <1>2, <1>3 DEF Strays, IsCreation
<1>8. \A name \in RoleNames : Adding(name)' = Adding(name) \ {k}
  BY <1>2, <1>3 DEF Adding
<1>9. QED
  BY <1>3, <1>6, <1>7, <1>8

\* Nothing is under way when the page opens, and no name is there twice.
LEMMA RolesBegin ==
  ASSUME InstanceAssumption, Roles!Init
  PROVE  RolesInv
<1>1. calls = [k \in PageSlots |-> Roles!Idle]
  BY DEF Roles!Init, Roles!Slots, PageSlots
<1>2. IsCreation(Roles!Idle) /\ Roles!Idle.at = "idle" /\ ~Roles!Idle.heard
  BY DEF IsCreation, RoleCalls, Roles!Idle
<1>3. RoleShape
  BY <1>1, <1>2 DEF RoleShape, IsCreation, Roles!Init
<1>4. Awaited = {} /\ Strays = {} /\ \A name : Adding(name) = {}
  BY <1>1, <1>2 DEF Awaited, Strays, Adding
<1>5. RoleWaits
  BY <1>4 DEF RoleWaits, Roles!Init
<1>6. RowsOwed
  <2>1. \A name \in RoleNames : roles[name] \in {0, 1}
    BY DEF Roles!Init
  <2>2. faults = 0
    BY DEF Roles!Init
  <2>3. QED
    BY <1>4, <2>1, <2>2, FS_EmptySet DEF RowsOwed
<1>7. QED
  BY <1>3, <1>5, <1>6 DEF RolesInv

\* The form is opened, filled in and closed.
LEMMA RoleFormKept ==
  ASSUME RolesInv,
         \/ Roles!CreateRole \/ Roles!CloseForm
         \/ \E name \in RoleNames \cup {Roles!NoName} : Roles!TypeName(name)
         \/ UNCHANGED Roles!roleVars
  PROVE  RolesInv'
<1>1. /\ UNCHANGED <<roles, calls, faults>>
      /\ form' \in [open : BOOLEAN, name : RoleNames \cup {Roles!NoName}, busy : BOOLEAN]
      /\ form'.busy = form.busy
  BY DEF RolesInv, RoleShape, Roles!CreateRole, Roles!CloseForm, Roles!TypeName,
    Roles!OnlyForm, Roles!roleVars
<1>2. RoleShape'
  BY <1>1 DEF RolesInv, RoleShape
<1>3. UNCHANGED <<Awaited, Strays>> /\ \A name \in RoleNames : Adding(name)' = Adding(name)
  BY <1>1 DEF Awaited, Strays, Adding
<1>4. RoleWaits'
  BY <1>1, <1>3 DEF RolesInv, RoleWaits
<1>5. RowsOwed'
  BY <1>1, <1>3 DEF RolesInv, RowsOwed
<1>6. QED
  BY <1>2, <1>4, <1>5 DEF RolesInv

\* Only a form that is not busy is submitted, and then it is.
LEMMA RoleSubmitted ==
  ASSUME InstanceAssumption, RolesInv, Roles!handleRoleSubmit
  PROVE  RolesInv'
<1>1. RoleShape /\ RoleWaits
  BY DEF RolesInv
<1> DEFINE call == [name |-> form.name, at |-> "sent", heard |-> TRUE]
<1>2. PICK k \in PageSlots : calls[k] = Roles!Idle /\ Takes(k, call)
  BY DEF Roles!handleRoleSubmit, Roles!Slots, PageSlots, Takes
<1>3. PICK c : c = call
  OBVIOUS
<1>4. IsCreation(c) /\ c.at = "sent" /\ c.heard /\ Takes(k, c)
  BY <1>1, <1>2, <1>3 DEF IsCreation, RoleCalls, RoleShape, Roles!handleRoleSubmit,
    Roles!SubmitEnabled, Roles!SubmitOffered
<1>5. /\ calls' \in [PageSlots -> RoleCalls]
      /\ \A j \in PageSlots : IsCreation(calls'[j])
      /\ calls'[k] = c /\ \A j \in PageSlots \ {k} : calls'[j] = calls[j]
  BY <1>1, <1>4, CreationTaken
<1>6. /\ UNCHANGED <<roles, faults>> /\ form.busy = FALSE /\ form'.busy = TRUE
      /\ form' \in [open : BOOLEAN, name : RoleNames \cup {Roles!NoName}, busy : BOOLEAN]
  BY <1>1 DEF RoleShape, Roles!handleRoleSubmit, Roles!SubmitEnabled
<1>7. Awaited = {}
  BY <1>1, <1>6 DEF RoleWaits
<1>8. Awaited' = {k}
  BY <1>4, <1>5, <1>7 DEF Awaited
<1>9. Strays' \subseteq Strays /\ \A name \in RoleNames : Adding(name)' \subseteq Adding(name)
  BY <1>4, <1>5 DEF Strays, Adding
<1>10. RoleShape' /\ RoleWaits'
  BY <1>1, <1>5, <1>6, <1>8 DEF RoleShape, RoleWaits
<1>11. RowsOwed'
  BY <1>1, <1>6, <1>9, OwedStill DEF RoleShape
<1>12. QED
  BY <1>10, <1>11 DEF RolesInv

\* The one creation that is awaited ends for the page when it is answered ...
LEMMA RoleSaved ==
  ASSUME InstanceAssumption, RolesInv, NEW k \in PageSlots, Roles!SaveAnswered(k)
  PROVE  RolesInv'
<1>1. RoleShape /\ RoleWaits /\ calls[k].heard
  BY DEF RolesInv, RoleShape, IsCreation, Roles!SaveAnswered
<1>2. Awaited = {k}
  BY <1>1 DEF RoleWaits, Awaited
<1>3. IsCreation(Roles!Idle) /\ Roles!Idle.at = "idle" /\ ~Roles!Idle.heard
  BY DEF IsCreation, RoleCalls, Roles!Idle
<1>4. Takes(k, Roles!Idle)
  BY DEF Roles!SaveAnswered, Takes
<1>5. /\ calls' \in [PageSlots -> RoleCalls]
      /\ \A j \in PageSlots : IsCreation(calls'[j])
      /\ calls'[k] = Roles!Idle /\ \A j \in PageSlots \ {k} : calls'[j] = calls[j]
  BY <1>1, <1>3, <1>4, CreationTaken
<1>6. Awaited' = {}
  BY <1>2, <1>3, <1>5 DEF Awaited
<1>7. Strays' \subseteq Strays /\ \A name \in RoleNames : Adding(name)' \subseteq Adding(name)
  BY <1>3, <1>5 DEF Strays, Adding
<1>8. /\ UNCHANGED <<roles, faults>> /\ form'.busy = FALSE
      /\ form' \in [open : BOOLEAN, name : RoleNames \cup {Roles!NoName}, busy : BOOLEAN]
  BY <1>1 DEF RoleShape, Roles!SaveAnswered
<1>9. RoleShape' /\ RoleWaits'
  BY <1>1, <1>5, <1>6, <1>8 DEF RoleShape, RoleWaits
<1>10. RowsOwed'
  BY <1>1, <1>7, <1>8, OwedStill DEF RoleShape
<1>11. QED
  BY <1>9, <1>10 DEF RolesInv

\* ... or lost; then the server may go on with it.
LEMMA RoleLost ==
  ASSUME InstanceAssumption, RolesInv, NEW k \in PageSlots, Roles!Lost(k)
  PROVE  RolesInv'
<1>1. RoleShape /\ RoleWaits /\ calls[k].heard /\ IsCreation(calls[k])
  BY DEF RolesInv, RoleShape, Roles!Lost
<1>2. Awaited = {k}
  BY <1>1 DEF RoleWaits, Awaited
<1>3. PICK c : /\ Takes(k, c) /\ IsCreation(c) /\ ~c.heard
               /\ c.at = "checked" => calls[k].at = "checked" /\ c.name = calls[k].name
  <2>1. IsCreation(Roles!Idle) /\ Roles!Idle.at = "idle" /\ ~Roles!Idle.heard
    BY DEF IsCreation, RoleCalls, Roles!Idle
  <2>2. CASE Takes(k, Roles!Idle)
    BY <2>1, <2>2
  <2>3. CASE /\ calls[k].at \in {"sent", "checked"}
             /\ Takes(k, [calls[k] EXCEPT !.heard = FALSE])
    <3>1. PICK c : c = [calls[k] EXCEPT !.heard = FALSE]
      OBVIOUS
    <3>2. IsCreation(c) /\ ~c.heard /\ c.at = calls[k].at /\ c.name = calls[k].name
      BY <1>1, <2>3, <3>1 DEF IsCreation, RoleCalls
    <3>3. QED
      BY <2>3, <3>1, <3>2
  <2>4. QED
    BY <1>1, <2>2, <2>3 DEF Roles!Lost, Roles!GoesOn, Takes, RoleShape
<1>4. /\ calls' \in [PageSlots -> RoleCalls]
      /\ \A j \in PageSlots : IsCreation(calls'[j])
      /\ calls'[k] = c /\ \A j \in PageSlots \ {k} : calls'[j] = calls[j]
  BY <1>1, <1>3, CreationTaken
<1>5. Awaited' = {}
  BY <1>2, <1>3, <1>4 DEF Awaited
<1>6. Strays' \subseteq Strays \cup {k}
  BY <1>4 DEF Strays
<1>7. \A name \in RoleNames : Adding(name)' \subseteq Adding(name)
  BY <1>3, <1>4 DEF Adding
<1>8. /\ roles' = roles /\ faults' = faults + 1 /\ faults' \in Nat /\ form'.busy = FALSE
      /\ form' \in [open : BOOLEAN, name : RoleNames \cup {Roles!NoName}, busy : BOOLEAN]
  <2>1. /\ roles' = roles /\ faults' = faults + 1 /\ faults \in Nat
        /\ form' = [form EXCEPT !.busy = FALSE]
    BY <1>1 DEF RoleShape, Roles!Lost
  <2>2. faults' \in Nat
    BY <2>1
  <2>3. /\ form'.busy = FALSE
        /\ form' \in [open : BOOLEAN, name : RoleNames \cup {Roles!NoName}, busy : BOOLEAN]
    BY <1>1, <2>1 DEF RoleShape
  <2>4. QED
    BY <2>1, <2>2, <2>3
<1>9. RoleShape' /\ RoleWaits'
  BY <1>1, <1>4, <1>5, <1>8 DEF RoleShape, RoleWaits
<1>10. RowsOwed'
  BY <1>6, <1>7, <1>8, OwedStill
<1>11. QED
  BY <1>9, <1>10 DEF RolesInv

\* Leaving the page loses the one that is awaited, if there is one.
LEMMA RolesLeft ==
  ASSUME InstanceAssumption, RolesInv, Roles!Leave
  PROVE  RolesInv'
<1>1. RoleShape /\ RoleWaits
  BY DEF RolesInv
<1>2. calls' = [k \in PageSlots |-> Roles!GoesOn(calls[k])]
  BY DEF Roles!Leave, Roles!Slots, PageSlots
<1>3. ASSUME NEW k \in PageSlots
      PROVE  /\ IsCreation(calls'[k]) /\ ~calls'[k].heard
             /\ calls'[k].at # "idle" => /\ calls'[k].at = calls[k].at
                                         /\ calls'[k].name = calls[k].name
  <2>1. IsCreation(calls[k]) /\ calls'[k] = Roles!GoesOn(calls[k])
    BY <1>1, <1>2 DEF RoleShape
  <2>2. CASE calls[k].at \in {"sent", "checked"}
    <3>1. calls'[k] = [calls[k] EXCEPT !.heard = FALSE]
      BY <2>1, <2>2 DEF Roles!GoesOn
    <3>2. QED
      BY <2>1, <2>2, <3>1 DEF IsCreation, RoleCalls
  <2>3. CASE calls[k].at \notin {"sent", "checked"}
    <3>1. calls'[k] = Roles!Idle
      BY <2>1, <2>3 DEF Roles!GoesOn
    <3>2. QED
      BY <3>1 DEF IsCreation, RoleCalls, Roles!Idle
  <2>4. QED
    BY <2>2, <2>3
<1>4. calls' \in [PageSlots -> RoleCalls]
  <2>1. \A k \in PageSlots : calls'[k] \in RoleCalls
    BY <1>3 DEF IsCreation
  <2>2. QED
    BY <1>2, <2>1
<1>5. Awaited' = {}
  BY <1>3 DEF Awaited
<1>6. Strays' \subseteq Strays \cup Awaited
  BY <1>3 DEF Strays, Awaited
<1>7. Strays' \subseteq Strays \/ \E x : Strays' \subseteq Strays \cup {x}
  BY <1>1, <1>6 DEF RoleWaits
<1>8. \A name \in RoleNames : Adding(name)' \subseteq Adding(name)
  BY <1>3 DEF Adding
<1>9. /\ roles' = roles /\ faults' = faults + 1 /\ faults' \in Nat
      /\ form' = [open |-> FALSE, name |-> Roles!NoName, busy |-> FALSE]
  BY <1>1 DEF RoleShape, Roles!Leave
<1>10. RoleShape' /\ RoleWaits'
  BY <1>1, <1>3, <1>4, <1>5, <1>9 DEF RoleShape, RoleWaits
<1>11. RowsOwed'
  BY <1>7, <1>8, <1>9, OwedStill
<1>12. QED
  BY <1>10, <1>11 DEF RolesInv

\* A look-up that finds no row lets a creation go on: those that may add the name by now
\* are strays, or the one that is awaited.
LEMMA NameChecked ==
  ASSUME InstanceAssumption, RolesInv, NEW k \in PageSlots, Roles!CheckName(k)
  PROVE  RolesInv'
<1>1. RoleShape /\ RoleWaits /\ RowsOwed /\ IsCreation(calls[k]) /\ calls[k].at = "sent"
  BY DEF RolesInv, RoleShape, Roles!CheckName
<1>2. UNCHANGED <<roles, form, faults>> /\ faults \in Nat
  BY <1>1 DEF RoleShape, Roles!CheckName, Roles!OnlyCalls
<1>3. CASE Roles!Answered(k)
  <2>1. /\ calls' \in [PageSlots -> RoleCalls] /\ RoleWaits'
        /\ \A j \in PageSlots : IsCreation(calls'[j])
        /\ Strays' \subseteq Strays
        /\ \A name \in RoleNames : Adding(name)' \subseteq Adding(name)
    BY <1>1, <1>2, <1>3, CreationAnswered
  <2>2. RowsOwed'
    BY <1>2, <2>1, OwedStill
  <2>3. RoleShape'
    BY <1>1, <1>2, <2>1 DEF RoleShape
  <2>4. QED
    BY <2>1, <2>2, <2>3 DEF RolesInv
<1>4. CASE /\ roles[calls[k].name] <= 0
           /\ calls' = [calls EXCEPT ![k].at = "checked"]
  <2>1. PICK c : c = [calls[k] EXCEPT !.at = "checked"]
    OBVIOUS
  <2>2. /\ IsCreation(c) /\ c.heard = calls[k].heard /\ c.at = "checked"
        /\ c.name = calls[k].name
    BY <1>1, <2>1 DEF IsCreation, RoleCalls
  <2>3. Takes(k, c)
    BY <1>1, <1>4, <2>1 DEF Takes, RoleShape
  <2>4. /\ calls' \in [PageSlots -> RoleCalls]
        /\ \A j \in PageSlots : IsCreation(calls'[j])
        /\ calls'[k] = c /\ \A j \in PageSlots \ {k} : calls'[j] = calls[j]
    BY <1>1, <2>2, <2>3, CreationTaken
  <2>5. Awaited' = Awaited /\ Strays' = Strays
    BY <1>1, <2>2, <2>4 DEF Awaited, Strays
  <2>6. RoleShape' /\ RoleWaits'
    BY <1>1, <1>2, <2>4, <2>5 DEF RoleShape, RoleWaits
  <2>7. ASSUME NEW name \in RoleNames
        PROVE  roles[name] + Cardinality(Adding(name)') <= 1 + faults
    <3>1. CASE name = calls[k].name
      <4>1. Adding(name)' \subseteq Strays \cup Awaited
        BY <1>1, <2>5, <2>4 DEF Adding, Strays, Awaited
      <4>2. \E x : Adding(name)' \subseteq Strays \cup {x}
        BY <1>1, <4>1 DEF RoleWaits
      <4>3. Strays \subseteq PageSlots
        BY DEF Strays
      <4>4. /\ Cardinality(Adding(name)') \in Nat /\ Cardinality(Strays) \in Nat
            /\ Cardinality(Adding(name)') <= Cardinality(Strays) + 1
        BY <4>2, <4>3, SlotsFinite, OneMore
      <4>5. roles[name] = 0 /\ Cardinality(Strays) <= faults
        BY <1>1, <1>4, <3>1 DEF RoleShape, RowsOwed
      <4>6. QED
        BY <1>2, <4>4, <4>5
    <3>2. CASE name # calls[k].name
      <4>1. Adding(name)' = Adding(name)
        BY <1>1, <2>2, <2>4, <3>2 DEF Adding
      <4>2. QED
        BY <1>1, <4>1 DEF RowsOwed
    <3>3. QED
      BY <3>1, <3>2
  <2>8. RowsOwed'
    BY <1>1, <1>2, <2>5, <2>7 DEF RowsOwed
  <2>9. QED
    BY <2>6, <2>8 DEF RolesInv
<1>5. roles[calls[k].name] > 0 \/ roles[calls[k].name] <= 0
  BY <1>1 DEF RoleShape, IsCreation
<1>6. QED
  BY <1>3, <1>4, <1>5 DEF Roles!CheckName

\* A row that is added was about to be; a creation that fails adds none.
LEMMA RoleAdded ==
  ASSUME InstanceAssumption, RolesInv, NEW k \in PageSlots,
         Roles!AddRole(k) \/ Roles!Fail(k)
  PROVE  RolesInv'
<1>1. /\ RoleShape /\ RowsOwed /\ calls[k].at \in {"sent", "checked"} /\ Roles!Answered(k)
      /\ UNCHANGED <<form, faults>> /\ IsCreation(calls[k])
  BY DEF RolesInv, RoleShape, Roles!AddRole, Roles!Fail, Roles!OnlyCalls
<1>2. /\ calls' \in [PageSlots -> RoleCalls] /\ RoleWaits'
      /\ \A j \in PageSlots : IsCreation(calls'[j])
      /\ Strays' \subseteq Strays
      /\ \A name \in RoleNames : Adding(name)' = Adding(name) \ {k}
  BY <1>1, CreationAnswered
<1>3. CASE Roles!Fail(k)
  <2>1. UNCHANGED roles
    BY <1>3 DEF Roles!Fail
  <2>2. RowsOwed'
    BY <1>1, <1>2, <2>1, OwedStill DEF RoleShape
  <2>3. RoleShape'
    BY <1>1, <1>2, <2>1 DEF RoleShape
  <2>4. QED
    BY <1>2, <2>2, <2>3 DEF RolesInv
<1>4. CASE Roles!AddRole(k)
  <2>1. PICK name \in RoleNames : name = calls[k].name
    BY <1>1 DEF IsCreation
  <2>2. /\ roles' = [roles EXCEPT ![name] = roles[name] + 1] /\ calls[k].at = "checked"
        /\ roles \in [RoleNames -> Nat]
    BY <1>1, <1>4, <2>1 DEF Roles!AddRole, RoleShape
  <2>3. RoleShape'
    BY <1>1, <1>2, <2>2 DEF RoleShape
  <2>4. Strays \subseteq PageSlots /\ faults \in Nat /\ Cardinality(Strays) <= faults
    BY <1>1 DEF Strays, RoleShape, RowsOwed
  <2>5. Cardinality(Strays') <= faults
    <3>1. /\ Cardinality(Strays') \in Nat /\ Cardinality(Strays) \in Nat
          /\ Cardinality(Strays') <= Cardinality(Strays)
      BY <1>2, <2>4, SlotsFinite, FS_Subset
    <3>2. QED
      BY <2>4, <3>1
  <2>6. ASSUME NEW n \in RoleNames
        PROVE  roles'[n] + Cardinality(Adding(n)') <= 1 + faults
    <3>1. Adding(n) \subseteq PageSlots /\ Adding(n)' = Adding(n) \ {k}
      BY <1>2 DEF Adding
    <3>2. /\ IsFiniteSet(Adding(n)) /\ Cardinality(Adding(n)) \in Nat
          /\ Cardinality(Adding(n)') = IF k \in Adding(n) THEN Cardinality(Adding(n)) - 1
                                       ELSE Cardinality(Adding(n))
      BY <3>1, SlotsFinite, FS_RemoveElement
    <3>3. k \in Adding(n) <=> n = name
      BY <2>1, <2>2 DEF Adding
    <3>4. /\ roles[n] \in Nat /\ roles[n] + Cardinality(Adding(n)) <= 1 + faults
          /\ roles'[n] = IF n = name THEN roles[n] + 1 ELSE roles[n]
      BY <1>1, <2>2 DEF RowsOwed
    <3>5. QED
      BY <2>4, <3>2, <3>3, <3>4
  <2>7. RowsOwed'
    BY <1>1, <2>5, <2>6 DEF RowsOwed
  <2>8. QED
    BY <1>2, <2>3, <2>7 DEF RolesInv
<1>5. QED
  BY <1>3, <1>4

\* Every step of the page and of the server keeps it.
LEMMA RolesStep ==
  ASSUME InstanceAssumption, RolesInv, [Roles!Next]_(Roles!roleVars)
  PROVE  RolesInv'
<1>1. Roles!Slots = PageSlots
  BY DEF Roles!Slots, PageSlots
<1>2. QED
  BY <1>1, RoleFormKept, RoleSubmitted, RoleSaved, RoleLost, RolesLeft, NameChecked,
    RoleAdded DEF Roles!Next

\* The page counts as this module does.
LEMMA RoleCount == \A S : Roles!Cardinality(S) = Cardinality(S)
BY DEF Roles!Cardinality, Cardinality

\* So a role is created once at a time ...
LEMMA RolesSave ==
  RolesInv => Roles!OneSave
<1>1. Awaited = {k \in Roles!Slots : calls[k].heard}
  BY DEF Awaited, Roles!Slots, PageSlots
<1>2. CASE form.busy = FALSE /\ Awaited = {}
  BY <1>1, <1>2, RoleCount, FS_EmptySet DEF Roles!OneSave
<1>3. CASE form.busy = TRUE /\ \E k \in PageSlots : Awaited = {k}
  BY <1>1, <1>3, RoleCount, FS_Singleton DEF Roles!OneSave
<1>4. QED
  BY <1>2, <1>3 DEF RolesInv, RoleWaits

\* ... and its rows beyond the first are owed to faults.
LEMMA RolesOwed ==
  ASSUME InstanceAssumption, RolesInv
  PROVE  Roles!RoleOnce
<1>1. ASSUME NEW name \in RoleNames PROVE roles[name] <= 1 + faults
  <2>1. Adding(name) \subseteq PageSlots
    BY DEF Adding
  <2>2. Cardinality(Adding(name)) \in Nat
    BY <2>1, SlotsFinite
  <2>3. /\ roles[name] \in Nat /\ faults \in Nat
        /\ roles[name] + Cardinality(Adding(name)) <= 1 + faults
    BY DEF RolesInv, RoleShape, RowsOwed
  <2>4. QED
    BY <2>2, <2>3
<1>2. QED
  BY <1>1 DEF Roles!RoleOnce

-----------------------------------------------------------------------------
(* The selection of files and the preview of their rows.                   *)

IsSeq(s) == \E S : s \in Seq(S)

\* As long as nothing was removed, rows and what overlapping calls will write are
\* sequences, and the page of the preview is one of those there are.
PreviewInv ==
  /\ previewSize \in Nat \ {0} /\ removals \in Nat
  /\ removals = 0 =>
       /\ IsSeq(rows) /\ \A c \in calls : IsSeq(c.all)
       /\ previewPage \in Nat \ {0}
       /\ rows # <<>> => previewPage <= FileSelection!TotalPages

\* How many pages there are: at least one for any rows, the last of them not empty.
LEMMA PagesCounted ==
  ASSUME NEW n \in Nat, NEW s \in Nat \ {0}
  PROVE  LET t == (n + s - 1) \div s
         IN  t \in Nat /\ t * s <= n + s - 1 /\ (n # 0 => 1 <= t)
OBVIOUS

\* So every page up to the last begins within the rows.
LEMMA PageBegins ==
  ASSUME NEW n \in Nat, NEW s \in Nat \ {0}, NEW p \in Nat \ {0}, NEW t \in Nat,
         p <= t, t * s <= n + s - 1
  PROVE  /\ (p - 1) * s \in Nat /\ p * s \in Nat
         /\ (p - 1) * s + 1 <= n /\ (p - 1) * s + 1 <= p * s
OBVIOUS

\* The lesser of two numbers, as the set operator finds it.
LEMMA LeastOfTwo ==
  ASSUME NEW a \in Nat, NEW b \in Nat
  PROVE  FileSelection!Min({a, b}) = IF a <= b THEN a ELSE b
BY DEF FileSelection!Min

\* The page count of the preview.
LEMMA PreviewPages ==
  ASSUME IsSeq(rows), previewSize \in Nat \ {0}
  PROVE  /\ Len(rows) \in Nat /\ FileSelection!TotalPages \in Nat
         /\ FileSelection!TotalPages * previewSize <= Len(rows) + previewSize - 1
         /\ rows # <<>> => Len(rows) # 0 /\ 1 <= FileSelection!TotalPages
<1>1. PICK S : rows \in Seq(S)
  BY DEF IsSeq
<1>2. Len(rows) \in Nat /\ (rows # <<>> => Len(rows) # 0)
  BY <1>1, EmptySeq, LenProperties
<1>3. PICK n \in Nat : n = Len(rows)
  BY <1>2
<1>4. FileSelection!TotalPages = (n + previewSize - 1) \div previewSize
  BY <1>3 DEF FileSelection!TotalPages
<1>5. QED
  BY <1>2, <1>3, <1>4, PagesCounted

\* A page that exists has rows.
LEMMA PreviewHasRows ==
  ASSUME IsSeq(rows), rows # <<>>, previewSize \in Nat \ {0}, previewPage \in Nat \ {0},
         previewPage <= FileSelection!TotalPages
  PROVE  FileSelection!PageRows # <<>>
<1>1. PICK n \in Nat : n = Len(rows)
  BY PreviewPages
<1>2. PICK t \in Nat : t = FileSelection!TotalPages
  BY PreviewPages
<1>3. t * previewSize <= n + previewSize - 1 /\ previewPage <= t
  BY <1>1, <1>2, PreviewPages
<1>4. PICK a : a = (previewPage - 1) * previewSize + 1
  OBVIOUS
<1>5. PICK e : e = previewPage * previewSize
  OBVIOUS
<1>6. a \in Nat /\ e \in Nat /\ 1 <= a /\ a <= n /\ a <= e
  BY <1>3, <1>4, <1>5, PageBegins
<1>7. PICK m : m = FileSelection!Min({e, n})
  OBVIOUS
<1>8. m \in Nat /\ a <= m /\ m <= n
  BY <1>6, <1>7, LeastOfTwo
<1>9. FileSelection!PageRows = SubSeq(rows, a, m)
  BY <1>1, <1>4, <1>5, <1>7 DEF FileSelection!PageRows
<1>10. PICK S : rows \in Seq(S)
  BY DEF IsSeq
<1>11. \A i \in a .. m : rows[i] \in S
  BY <1>1, <1>6, <1>8, <1>10, ElementOfSeq
<1>12. Len(SubSeq(rows, a, m)) = m - a + 1
  BY <1>6, <1>8, <1>11, SubSeqProperties
<1>13. QED
  BY <1>6, <1>8, <1>9, <1>12

\* The rows of one more file are added to a sequence.
LEMMA RowsAdded ==
  ASSUME NEW s, IsSeq(s), NEW f, NEW n \in Nat
  PROVE  IsSeq(s \o FileSelection!RowsOf(f, n))
<1>1. PICK S : s \in Seq(S)
  BY DEF IsSeq
<1>2. FileSelection!RowsOf(f, n) \in Seq(S \cup {f}) /\ s \in Seq(S \cup {f})
  BY <1>1 DEF FileSelection!RowsOf
<1>3. s \o FileSelection!RowsOf(f, n) \in Seq(S \cup {f})
  BY <1>2
<1>4. QED
  BY <1>3 DEF IsSeq

\* A step that leaves rows and preview alone.
LEMMA PreviewRests ==
  ASSUME PreviewInv, UNCHANGED <<rows, previewPage, previewSize, removals>>,
         removals = 0 => \A c \in calls' : c \in calls \/ IsSeq(c.all)
  PROVE  PreviewInv'
<1>1. FileSelection!TotalPages' = FileSelection!TotalPages
  BY DEF FileSelection!TotalPages
<1>2. QED
  BY <1>1 DEF PreviewInv

\* A step that shows the first page.
LEMMA PreviewAnew ==
  ASSUME PreviewInv, previewPage' = 1, previewSize' \in Nat \ {0}, removals' = removals,
         removals = 0 => IsSeq(rows') /\ \A c \in calls' : c \in calls \/ IsSeq(c.all)
  PROVE  PreviewInv'
<1>1. ASSUME removals = 0 PROVE rows' # <<>> => 1 <= FileSelection!TotalPages'
  <2>1. PICK r : r = rows'
    OBVIOUS
  <2>2. PICK S : r \in Seq(S)
    BY <1>1, <2>1 DEF IsSeq
  <2>3. PICK n \in Nat : n = Len(r) /\ (r # <<>> => n # 0)
    BY <2>2, EmptySeq, LenProperties
  <2>4. PICK z \in Nat \ {0} : z = previewSize'
    OBVIOUS
  <2>5. FileSelection!TotalPages' = (n + z - 1) \div z
    BY <2>1, <2>3, <2>4 DEF FileSelection!TotalPages
  <2>6. QED
    BY <2>1, <2>3, <2>5, PagesCounted
<1>2. QED
  BY <1>1 DEF PreviewInv

\* A call goes on with the rows of one more file, or writes them and shows the first page.
LEMMA PreviewParses ==
  ASSUME FileSelection!SelectionAssumption, PreviewInv, NEW c \in calls,
         FileSelection!Parse(c)
  PROVE  PreviewInv'
<1>1. PICK n \in FileSelection!ParseFile(Head(c.todo)) : FileSelection!ParseNext(c, n)
  BY DEF FileSelection!Parse
<1>2. n \in Nat
  BY DEF FileSelection!SelectionAssumption, FileSelection!ParseFile, FileSelection!ParseCSV,
    FileSelection!ParseJSON, FileSelection!ParseXML, FileSelection!ParseXLSX,
    FileSelection!Refused
<1>3. UNCHANGED <<previewSize, removals>> /\ previewSize \in Nat \ {0}
  BY DEF FileSelection!Parse, PreviewInv
<1>4. PICK f : f = Head(c.todo)
  OBVIOUS
<1>5. PICK all : all = IF n = FileSelection!Refused THEN c.all
                       ELSE c.all \o FileSelection!RowsOf(f, n)
  OBVIOUS
<1>6. removals = 0 => IsSeq(all)
  BY <1>2, <1>5, RowsAdded DEF PreviewInv
<1>7. \/ /\ UNCHANGED <<rows, previewPage>>
         /\ \E d : d.all = all /\ calls' = (calls \ {c}) \cup {d}
      \/ rows' = all /\ previewPage' = 1 /\ calls' = calls \ {c}
  BY <1>1, <1>4, <1>5 DEF FileSelection!ParseNext
<1>8. QED
  BY <1>3, <1>6, <1>7, PreviewRests, PreviewAnew

\* The steps that leave rows and preview alone; a new call starts from the rows there are.
LEMMA PreviewKept ==
  ASSUME PreviewInv,
         \/ FileSelection!ChooseFiles \/ FileSelection!HandleDrop
         \/ FileSelection!HandleDragLeave
         \/ \E hasFiles \in BOOLEAN : FileSelection!HandleDragEnter(hasFiles)
         \/ FileSelection!StartMigration \/ UNCHANGED FileSelection!vars
  PROVE  PreviewInv'
<1>1. UNCHANGED <<rows, previewPage, previewSize, removals>>
  BY DEF FileSelection!ChooseFiles, FileSelection!HandleDrop,
    FileSelection!HandleDragLeave, FileSelection!HandleDragEnter,
    FileSelection!StartMigration, FileSelection!vars, FileSelection!data,
    FileSelection!preview
<1>2. UNCHANGED calls \/ \E chosen : FileSelection!ProcessFiles(chosen)
  BY DEF FileSelection!ChooseFiles, FileSelection!HandleDrop,
    FileSelection!HandleDragLeave, FileSelection!HandleDragEnter,
    FileSelection!StartMigration, FileSelection!vars
<1>3. ASSUME NEW chosen, FileSelection!ProcessFiles(chosen)
      PROVE  UNCHANGED calls \/ \E d : d.all = rows /\ calls' = calls \cup {d}
  BY <1>3 DEF FileSelection!ProcessFiles
<1>4. removals = 0 => \A c \in calls' : c \in calls \/ IsSeq(c.all)
  BY <1>2, <1>3 DEF PreviewInv
<1>5. QED
  BY <1>1, <1>4, PreviewRests

\* Pages are turned among those there are.
LEMMA PreviewTurned ==
  ASSUME PreviewInv, FileSelection!TurnPage
  PROVE  PreviewInv'
<1>1. /\ UNCHANGED <<rows, previewSize, calls, removals>> /\ rows # <<>>
      /\ \/ previewPage # 1 /\ previewPage' \in {1, previewPage - 1}
         \/ /\ previewPage # FileSelection!TotalPages
            /\ previewPage' \in {previewPage + 1, FileSelection!TotalPages}
  BY DEF FileSelection!TurnPage, FileSelection!PreviewPanel, FileSelection!data
<1>2. FileSelection!TotalPages' = FileSelection!TotalPages
  BY <1>1 DEF FileSelection!TotalPages
<1>3. ASSUME removals = 0
      PROVE  previewPage' \in Nat \ {0} /\ previewPage' <= FileSelection!TotalPages
  <2>1. /\ previewPage \in Nat \ {0} /\ previewPage <= FileSelection!TotalPages
        /\ FileSelection!TotalPages \in Nat
    BY <1>1, <1>3, PreviewPages DEF PreviewInv
  <2>2. QED
    BY <1>1, <2>1
<1>4. QED
  BY <1>1, <1>2, <1>3 DEF PreviewInv

\* The preview begins so.
LEMMA PreviewBegins ==
  ASSUME FileSelection!SelectionAssumption
  PROVE  FileSelection!Init => PreviewInv
<1>1. IsSeq(<<>>)
  BY EmptySeq DEF IsSeq
<1>2. FileSelection!Init => /\ rows = <<>> /\ previewPage = 1 /\ calls = {}
                            /\ removals = 0 /\ previewSize \in Nat \ {0}
  BY DEF FileSelection!Init, FileSelection!SelectionAssumption
<1>3. QED
  BY <1>1, <1>2 DEF PreviewInv

\* Every step of the selection keeps it so.
LEMMA PreviewStep ==
  ASSUME FileSelection!SelectionAssumption
  PROVE  PreviewInv /\ [FileSelection!Next]_(FileSelection!vars) => PreviewInv'
<1> SUFFICES ASSUME PreviewInv, [FileSelection!Next]_(FileSelection!vars)
             PROVE  PreviewInv'
  OBVIOUS
<1>1. ASSUME NEW i, FileSelection!RemoveFile(i) PROVE PreviewInv'
  BY <1>1 DEF PreviewInv, FileSelection!RemoveFile
<1>2. CASE FileSelection!ResetMigration
  BY <1>2 DEF PreviewInv, FileSelection!ResetMigration
<1>3. ASSUME NEW n \in PageSizes, FileSelection!SetPageSize(n) PROVE PreviewInv'
  <2>1. /\ UNCHANGED <<rows, calls, removals>> /\ previewPage' = 1
        /\ previewSize' \in Nat \ {0}
    BY <1>3 DEF FileSelection!SetPageSize, FileSelection!SelectionAssumption,
      FileSelection!data
  <2>2. removals = 0 => IsSeq(rows') /\ \A c \in calls' : c \in calls \/ IsSeq(c.all)
    BY <2>1 DEF PreviewInv
  <2>3. QED
    BY <2>1, <2>2, PreviewAnew
<1>4. QED
  BY <1>1, <1>2, <1>3, PreviewParses, PreviewKept, PreviewTurned DEF FileSelection!Next

\* So the preview shows a page that exists.
LEMMA PreviewShows ==
  PreviewInv => FileSelection!PreviewPageExists
BY PreviewHasRows DEF PreviewInv, FileSelection!PreviewPageExists,
  FileSelection!PreviewPanel

-----------------------------------------------------------------------------
(* The parsed files and their rows: what the selection joins and counts,   *)
(* by induction over the pieces that are joined, and then its steps.       *)

\* Induction over the natural numbers, for a set of them.
LEMMA NatInductive ==
  ASSUME NEW T, 0 \in T, \A n \in Nat : n \in T => n + 1 \in T
  PROVE  Nat \subseteq T
<1> SUFFICES ASSUME Nat \ T # {} PROVE FALSE
  OBVIOUS
<1>1. PICK n \in Nat \ T : \A m \in Nat \ T : ~ (<<m, n>> \in OpToRel(<, Nat))
  BY NatLessThanWellFounded, WFMin, Zenon
<1>2. n # 0 /\ n - 1 \in Nat /\ n - 1 < n /\ n = (n - 1) + 1
  OBVIOUS
<1>3. n - 1 \in T
  BY <1>1, <1>2 DEF OpToRel
<1>4. QED
  BY <1>2, <1>3

\* How often e occurs in s.
Places(s, e) == {i \in DOMAIN s : s[i] = e}
Count(s, e)  == Cardinality(Places(s, e))

\* What is counted is finite, and it is 0 exactly of what does not occur.
LEMMA Counted ==
  ASSUME NEW S, NEW s \in Seq(S), NEW e
  PROVE  /\ IsFiniteSet(Places(s, e)) /\ Count(s, e) \in Nat
         /\ Count(s, e) = 0 <=> \A i \in DOMAIN s : s[i] # e
<1>1. Len(s) \in Nat /\ DOMAIN s = 1 .. Len(s)
  BY LenProperties
<1>2. IsFiniteSet(1 .. Len(s)) /\ Places(s, e) \in SUBSET (1 .. Len(s))
  BY <1>1, FS_Interval DEF Places
<1>3. IsFiniteSet(Places(s, e))
  BY <1>2, FS_Subset
<1>4. Count(s, e) \in Nat /\ (Count(s, e) = 0 <=> Places(s, e) = {})
  BY <1>3, FS_CardinalityType, FS_EmptySet DEF Count
<1>5. QED
  BY <1>3, <1>4 DEF Places

\* The occurrences in two sequences add up in the one that joins them.
LEMMA CountJoined ==
  ASSUME NEW S, NEW s \in Seq(S), NEW t \in Seq(S), NEW e
  PROVE  s \o t \in Seq(S) /\ Count(s \o t, e) = Count(s, e) + Count(t, e)
<1>1. PICK m \in Nat : m = Len(s) /\ DOMAIN s = 1 .. m
  BY LenProperties
<1>2. PICK n \in Nat : n = Len(t) /\ DOMAIN t = 1 .. n
  BY LenProperties
<1>3. PICK j \in Seq(S) : j = s \o t
  BY ConcatProperties
<1>4. DOMAIN j = 1 .. m + n
  BY <1>1, <1>2, <1>3, ConcatProperties, LenProperties
<1>5. \A i \in 1 .. m + n : j[i] = IF i <= m THEN s[i] ELSE t[i - m]
  BY <1>1, <1>2, <1>3, ConcatProperties
<1> DEFINE A == Places(s, e)
           B == Places(t, e)
           C == {i \in (m + 1) .. (m + n) : t[i - m] = e}
           shift == [i \in B |-> i + m]
<1>6. IsFiniteSet(A) /\ IsFiniteSet(B)
  BY Counted
<1>7. shift \in Bijection(B, C)
  <2>1. \A i \in B : i + m \in C
    BY <1>2 DEF Places
  <2>2. \A k \in C : k - m \in B /\ (k - m) + m = k
    BY <1>2 DEF Places
  <2>3. \A i, k \in B : i + m = k + m => i = k
    BY <1>2 DEF Places
  <2>4. shift \in Injection(B, C)
    BY <2>1, <2>3 DEF Injection, IsInjective
  <2>5. shift \in Surjection(B, C)
    BY <2>1, <2>2 DEF Surjection
  <2>6. QED
    BY <2>4, <2>5 DEF Bijection
<1>8. IsFiniteSet(C) /\ Cardinality(C) = Cardinality(B)
  BY <1>6, <1>7, FS_Bijection DEF ExistsBijection
<1>9. Places(j, e) = A \cup C
  BY <1>1, <1>4, <1>5 DEF Places
<1>10. A \cap C = {}
  BY <1>1 DEF Places
<1>11. Cardinality(A \cup C) = Cardinality(A) + Cardinality(C) - Cardinality(A \cap C)
  BY <1>6, <1>8, FS_Union
<1>12. PICK a \in Nat : a = Cardinality(A)
  BY <1>6, FS_CardinalityType
<1>13. PICK c \in Nat : c = Cardinality(C)
  BY <1>8, FS_CardinalityType
<1>14. Cardinality(A \cap C) = 0
  BY <1>10, FS_EmptySet
<1>15. Cardinality(A \cup C) = a + c
  BY <1>11, <1>12, <1>13, <1>14
<1>16. Count(j, e) = a + c /\ Count(s, e) = a /\ Count(t, e) = c
  BY <1>8, <1>9, <1>12, <1>13, <1>15 DEF Count
<1>17. QED
  BY <1>3, <1>16

\* The pieces of a sequence can be joined one after the other.
LEMMA JoinedUpTo ==
  ASSUME NEW ss, NEW n \in Nat
  PROVE  \E f : f = [i \in 1 .. n |-> IF i = 1 THEN ss[i] ELSE f[i - 1] \o ss[i]]
<1> DEFINE T == {m \in Nat :
       \E f : f = [i \in 1 .. m |-> IF i = 1 THEN ss[i] ELSE f[i - 1] \o ss[i]]}
<1>1. 0 \in T
  <2>1. PICK f : f = [i \in 1 .. 0 |-> ss[i]]
    OBVIOUS
  <2>2. f = [i \in 1 .. 0 |-> IF i = 1 THEN ss[i] ELSE f[i - 1] \o ss[i]]
    BY <2>1
  <2>3. QED
    BY <2>2
<1>2. ASSUME NEW m \in Nat, m \in T PROVE m + 1 \in T
  <2>1. PICK f : f = [i \in 1 .. m |-> IF i = 1 THEN ss[i] ELSE f[i - 1] \o ss[i]]
    BY <1>2
  <2>2. PICK x : x = IF m = 0 THEN ss[m + 1] ELSE f[m] \o ss[m + 1]
    OBVIOUS
  <2>3. PICK g : g = [i \in 1 .. m + 1 |-> IF i = m + 1 THEN x ELSE f[i]]
    OBVIOUS
  <2>4. \A i \in 1 .. m + 1 : g[i] = IF i = 1 THEN ss[i] ELSE g[i - 1] \o ss[i]
    <3>1. ASSUME NEW i \in 1 .. m
          PROVE  g[i] = IF i = 1 THEN ss[i] ELSE g[i - 1] \o ss[i]
      <4>1. g[i] = f[i] /\ (i # 1 => g[i - 1] = f[i - 1])
        BY <2>3
      <4>2. f[i] = IF i = 1 THEN ss[i] ELSE f[i - 1] \o ss[i]
        BY <2>1
      <4>3. QED
        BY <4>1, <4>2
    <3>2. g[m + 1] = x /\ (m # 0 => g[m] = f[m])
      BY <2>3
    <3>3. QED
      BY <2>2, <3>1, <3>2
  <2>5. g = [i \in 1 .. m + 1 |-> IF i = 1 THEN ss[i] ELSE g[i - 1] \o ss[i]]
    BY <2>3, <2>4
  <2>6. m + 1 \in Nat
    OBVIOUS
  <2>7. \E h : h = [i \in 1 .. m + 1 |-> IF i = 1 THEN ss[i] ELSE h[i - 1] \o ss[i]]
    BY <2>5
  <2>8. QED
    BY <2>6, <2>7
<1>3. n \in T
  <2> HIDE DEF T
  <2>1. QED
    BY <1>1, <1>2, NatInductive
<1>4. QED
  BY <1>3

\* What FlattenSeq computes: it joins all the pieces.
LEMMA Flattened ==
  ASSUME NEW ss, Len(ss) \in Nat, Len(ss) # 0
  PROVE  \E f : /\ f = [i \in 1 .. Len(ss) |->
                          IF i = 1 THEN ss[i] ELSE f[i - 1] \o ss[i]]
                /\ FileSelection!FlattenSeq(ss) = f[Len(ss)]
BY JoinedUpTo DEF FileSelection!FlattenSeq

\* An e that occurs in one piece at most occurs in the whole as often as there.
LEMMA FlattenCounts ==
  ASSUME NEW S, NEW ss \in Seq(Seq(S)), NEW e, NEW k \in Nat \ {0},
         \A j \in 1 .. Len(ss) : j # k => Count(ss[j], e) = 0
  PROVE  /\ FileSelection!FlattenSeq(ss) \in Seq(S)
         /\ Count(FileSelection!FlattenSeq(ss), e)
              = IF k <= Len(ss) THEN Count(ss[k], e) ELSE 0
<1>1. PICK n \in Nat : n = Len(ss)
  BY LenProperties
<1>2. \A j \in 1 .. n : ss[j] \in Seq(S) /\ Count(ss[j], e) \in Nat
  BY <1>1, ElementOfSeq, Counted
<1>3. CASE n = 0
  <2>1. ss = <<>>
    BY <1>1, <1>3, EmptySeq
  <2>2. FileSelection!FlattenSeq(ss) = <<>>
    BY <1>1, <1>3, <2>1 DEF FileSelection!FlattenSeq
  <2>3. PICK z \in Seq(S) : z = <<>> /\ \A i \in DOMAIN z : z[i] # e
    <3>1. <<>> \in Seq(S) /\ DOMAIN <<>> = {}
      BY EmptySeq
    <3>2. QED
      BY <3>1
  <2>4. Count(z, e) = 0
    BY <2>3, Counted
  <2>5. QED
    BY <1>1, <1>3, <2>2, <2>3, <2>4
<1>4. CASE n # 0
  <2>1. PICK f : /\ f = [i \in 1 .. n |-> IF i = 1 THEN ss[i] ELSE f[i - 1] \o ss[i]]
                 /\ FileSelection!FlattenSeq(ss) = f[n]
    BY <1>1, <1>4, Flattened
  <2> DEFINE Right(m) == /\ f[m] \in Seq(S)
                         /\ Count(f[m], e) = IF k <= m THEN Count(ss[k], e) ELSE 0
             T == {m \in Nat : 1 <= m /\ m <= n => Right(m)}
  <2>2. 0 \in T
    OBVIOUS
  <2>3. ASSUME NEW m \in Nat, m \in T PROVE m + 1 \in T
    <3> SUFFICES ASSUME m + 1 <= n PROVE Right(m + 1)
      OBVIOUS
    <3>1. ss[m + 1] \in Seq(S) /\ (m + 1 # k => Count(ss[m + 1], e) = 0)
      BY <1>1, <1>2
    <3>2. CASE m = 0
      <4>1. f[1] = ss[1]
        BY <1>4, <2>1
      <4>2. QED
        BY <3>1, <3>2, <4>1
    <3>3. CASE m # 0
      <4>0. m + 1 \in 1 .. n /\ m + 1 # 1 /\ (m + 1) - 1 = m
        BY <3>3
      <4>1. f[m + 1] = f[m] \o ss[m + 1]
        <5>1. \A i \in 1 .. n : f[i] = IF i = 1 THEN ss[i] ELSE f[i - 1] \o ss[i]
          BY <2>1
        <5>2. f[m + 1] = f[(m + 1) - 1] \o ss[m + 1]
          BY <4>0, <5>1
        <5>3. QED
          BY <4>0, <5>2
      <4>2. Right(m)
        BY <2>3, <3>3
      <4>3. /\ f[m + 1] \in Seq(S)
            /\ Count(f[m + 1], e) = Count(f[m], e) + Count(ss[m + 1], e)
        BY <3>1, <4>1, <4>2, CountJoined
      <4>4. k <= m => Count(ss[k], e) \in Nat
        BY <1>2
      <4>5. CASE k = m + 1
        <5>1. ~ (k <= m) /\ Count(ss[k], e) \in Nat
          BY <1>2, <4>5
        <5>2. QED
          BY <4>2, <4>3, <4>5, <5>1
      <4>6. CASE k # m + 1
        <5>1. (k <= m + 1) <=> (k <= m)
          BY <4>6
        <5>2. QED
          BY <3>1, <4>2, <4>3, <4>4, <4>6, <5>1
      <4>7. QED
        BY <4>5, <4>6
    <3>4. QED
      BY <3>2, <3>3
  <2>4. n \in T
    <3> HIDE DEF T
    <3>1. QED
      BY <2>2, <2>3, NatInductive
  <2>5. QED
    BY <1>1, <1>4, <2>1, <2>4
<1>5. QED
  BY <1>3, <1>4

\* The rows of a file name that file, and no other.
LEMMA RowsCounted ==
  ASSUME NEW S, NEW f \in S, NEW n \in Nat, NEW e
  PROVE  /\ FileSelection!RowsOf(f, n) \in Seq(S)
         /\ Count(FileSelection!RowsOf(f, n), e) = IF e = f THEN n ELSE 0
<1>1. PICK r : r = [i \in 1 .. n |-> f]
  OBVIOUS
<1>2. r = FileSelection!RowsOf(f, n) /\ r \in Seq(S) /\ DOMAIN r = 1 .. n
  BY <1>1 DEF FileSelection!RowsOf
<1>3. CASE e = f
  <2>1. Places(r, e) = 1 .. n
    BY <1>1, <1>3 DEF Places
  <2>2. Cardinality(1 .. n) = n
    <3>1. 1 \in Int /\ n \in Int /\ Cardinality(1 .. n) = IF 1 > n THEN 0 ELSE n - 1 + 1
      BY FS_Interval
    <3>2. QED
      BY <3>1
  <2>3. QED
    BY <1>2, <1>3, <2>1, <2>2 DEF Count
<1>4. CASE e # f
  <2>1. \A i \in DOMAIN r : r[i] # e
    BY <1>1, <1>4
  <2>2. Count(r, e) = 0
    BY <1>2, <2>1, Counted
  <2>3. QED
    BY <1>2, <1>4, <2>2
<1>5. QED
  BY <1>3, <1>4

\* The rows r are num[i] rows of each file q[i], one file after the other.
Joins(q, num, r) ==
  r = FileSelection!FlattenSeq(
        [i \in 1 .. Len(q) |-> FileSelection!RowsOf(q[i], num[i])])

\* Joining num[i] rows of each q[i], files that differ, gives each its number of rows.
LEMMA JoinedRows ==
  ASSUME NEW S, NEW q \in Seq(S), NEW num \in [1 .. Len(q) -> Nat],
         \A i, j \in 1 .. Len(q) : q[i] = q[j] => i = j,
         NEW r, Joins(q, num, r)
  PROVE  /\ r \in Seq(S)
         /\ \A k \in 1 .. Len(q) : Count(r, q[k]) = num[k]
         /\ \A e : (\A i \in 1 .. Len(q) : q[i] # e) => Count(r, e) = 0
<1>1. PICK m \in Nat : m = Len(q)
  BY LenProperties
<1>2. PICK ss : ss = [i \in 1 .. m |-> FileSelection!RowsOf(q[i], num[i])]
  OBVIOUS
<1>3. \A i \in 1 .. m : q[i] \in S /\ num[i] \in Nat
  BY <1>1, ElementOfSeq
<1>4. \A i \in 1 .. m : ss[i] \in Seq(S)
  BY <1>2, <1>3, RowsCounted
<1>5. ss \in Seq(Seq(S)) /\ Len(ss) = m
  <2>1. ss \in [1 .. m -> Seq(S)]
    BY <1>2, <1>4
  <2>2. QED
    BY <2>1
<1>6. \A i \in 1 .. m : \A e : Count(ss[i], e) = IF e = q[i] THEN num[i] ELSE 0
  BY <1>2, <1>3, RowsCounted
<1>7. r = FileSelection!FlattenSeq(ss)
  BY <1>1, <1>2 DEF Joins
<1>8. ASSUME NEW k \in 1 .. m PROVE r \in Seq(S) /\ Count(r, q[k]) = num[k]
  <2>1. \A j \in 1 .. m : j # k => Count(ss[j], q[k]) = 0
    BY <1>1, <1>6
  <2>2. k \in Nat \ {0} /\ k <= m
    OBVIOUS
  <2>3. r \in Seq(S) /\ Count(r, q[k]) = Count(ss[k], q[k])
    BY <1>5, <1>7, <2>1, <2>2, FlattenCounts
  <2>4. QED
    BY <1>6, <2>3
<1>9. ASSUME NEW e, \A i \in 1 .. m : q[i] # e PROVE r \in Seq(S) /\ Count(r, e) = 0
  <2>1. PICK k \in Nat \ {0} : k = m + 1
    OBVIOUS
  <2>2. ~ (k <= m)
    BY <2>1
  <2>3. \A j \in 1 .. m : Count(ss[j], e) = 0
    BY <1>6, <1>9
  <2>4. QED
    BY <1>5, <1>7, <2>2, <2>3, FlattenCounts
<1>10. r \in Seq(S)
  <2>1. m = 0 \/ 1 \in 1 .. m
    OBVIOUS
  <2>2. m = 0 => \A i \in 1 .. m : q[i] # S
    OBVIOUS
  <2>3. QED
    BY <1>8, <1>9, <2>1, <2>2
<1>11. QED
  BY <1>1, <1>8, <1>9, <1>10

\* Whether e is an element of s.
Occurs(s, e) == \E i \in DOMAIN s : s[i] = e

\* What occurs once at most occurs at one place only.
LEMMA OnePlace ==
  ASSUME NEW S, NEW s \in Seq(S), NEW i \in DOMAIN s, NEW j \in DOMAIN s,
         s[i] = s[j], Count(s, s[i]) <= 1
  PROVE  i = j
<1> SUFFICES ASSUME i # j PROVE FALSE
  OBVIOUS
<1>1. PICK e : e = s[i]
  OBVIOUS
<1>2. IsFiniteSet(Places(s, e)) /\ Cardinality(Places(s, e)) <= 1
  BY <1>1, Counted DEF Count
<1>3. {i} \cup {j} \in SUBSET Places(s, e)
  BY <1>1 DEF Places
<1>4. PICK n \in Nat : n = Cardinality({i} \cup {j})
  BY <1>2, <1>3, FS_Subset, FS_CardinalityType
<1>5. PICK one : one = {i} /\ IsFiniteSet(one) /\ Cardinality(one) = 1 /\ j \notin one
  BY FS_Singleton
<1>6. Cardinality({i} \cup {j}) = 2
  <2>1. Cardinality(one \cup {j}) = Cardinality(one) + 1
    BY <1>5, FS_AddElement
  <2>2. one \cup {j} = {i} \cup {j}
    BY <1>5
  <2>3. QED
    BY <1>5, <2>1, <2>2
<1>7. PICK p \in Nat : p = Cardinality(Places(s, e))
  BY <1>2, FS_CardinalityType
<1>8. n <= p
  BY <1>2, <1>3, <1>4, <1>7, FS_Subset
<1>9. p <= 1 /\ n = 2
  BY <1>2, <1>4, <1>6, <1>7
<1>10. QED
  BY <1>8, <1>9

\* The library's count of a set is the same in the selection's module.
LEMMA SelectionCardinality == ASSUME NEW S PROVE FileSelection!Cardinality(S) = Cardinality(S)
BY DEF FileSelection!Cardinality, Cardinality

\* A finite set is listed as a sequence with each of its elements once.
LEMMA Listed ==
  ASSUME NEW D, IsFiniteSet(D), NEW S, D \subseteq S
  PROVE  LET q == FileSelection!SetToSeq(D)
         IN  /\ q \in Seq(S)
             /\ \A i, j \in 1 .. Len(q) : q[i] = q[j] => i = j
             /\ \A e : e \in D <=> \E i \in 1 .. Len(q) : q[i] = e
<1>1. PICK n \in Nat : n = Cardinality(D)
  BY FS_CardinalityType
<1>2. PICK b \in Bijection(1 .. n, D) : TRUE
  BY <1>1, FS_CardinalityType DEF ExistsBijection
<1>3. b \in [1 .. n -> D] /\ FileSelection!IsInjective(b)
  BY <1>2 DEF Bijection, Injection, IsInjective, FileSelection!IsInjective
<1>4. PICK q : q = FileSelection!SetToSeq(D)
  OBVIOUS
<1>5. q = CHOOSE f \in [1 .. n -> D] : FileSelection!IsInjective(f)
  BY <1>1, <1>4, SelectionCardinality DEF FileSelection!SetToSeq
<1>6. q \in [1 .. n -> D] /\ FileSelection!IsInjective(q)
  BY <1>3, <1>5
<1>7. q \in Injection(1 .. n, D)
  BY <1>6 DEF Injection, IsInjective, FileSelection!IsInjective
<1>8. IsFiniteSet(1 .. n) /\ Cardinality(1 .. n) = n
  <2>1. /\ 1 \in Int /\ n \in Int /\ IsFiniteSet(1 .. n)
        /\ Cardinality(1 .. n) = IF 1 > n THEN 0 ELSE n - 1 + 1
    BY FS_Interval
  <2>2. QED
    BY <2>1
<1>9. q \in Surjection(1 .. n, D)
  BY <1>1, <1>7, <1>8, FS_Injection
<1>10. q \in Seq(S) /\ Len(q) = n
  <2>1. q \in [1 .. n -> S]
    BY <1>6
  <2>2. QED
    BY <2>1
<1>11. \A i, j \in 1 .. n : q[i] = q[j] => i = j
  BY <1>6 DEF FileSelection!IsInjective
<1>12. \A e : e \in D <=> \E i \in 1 .. n : q[i] = e
  BY <1>6, <1>9 DEF Surjection
<1>13. QED
  BY <1>4, <1>10, <1>11, <1>12

\* The rows r are those of the parsed data d, once each.
Matches(d, r) ==
  /\ r \in Seq(Files) /\ DOMAIN d \subseteq Files
  /\ \A f \in DOMAIN d : d[f] \in Nat
  /\ \A f \in Files : Count(r, f) = IF f \in DOMAIN d THEN d[f] ELSE 0

\* Putting the rows together again from parsed data gives the rows of that data.
LEMMA RowsMatch ==
  ASSUME FileSelection!SelectionAssumption, NEW d, DOMAIN d \subseteq Files,
         \A f \in DOMAIN d : d[f] \in Nat
  PROVE  Matches(d, FileSelection!Rows(d))
<1>1. IsFiniteSet(DOMAIN d)
  <2>1. \A T, x : IsFiniteSet(T) => IsFiniteSet(T \cup {x})
    BY FS_AddElement
  <2>2. IsFiniteSet({"csv"} \cup {"json"} \cup {"xml"})
    BY <2>1, FS_Singleton
  <2>3. PICK T : T = {"csv", "json", "xml"} /\ IsFiniteSet(T)
    <3>1. {"csv", "json", "xml"} = {"csv"} \cup {"json"} \cup {"xml"}
      OBVIOUS
    <3>2. QED
      BY <2>2, <3>1
  <2>4. IsFiniteSet(((T \cup {"xlsx"}) \cup {"xls"}) \cup {"txt"})
    BY <2>1, <2>3
  <2>5. DOMAIN d \in SUBSET (((T \cup {"xlsx"}) \cup {"xls"}) \cup {"txt"})
    BY <2>3 DEF FileSelection!SelectionAssumption
  <2>6. QED
    BY <2>4, <2>5, FS_Subset
<1>2. PICK q : q = FileSelection!SetToSeq(DOMAIN d)
  OBVIOUS
<1>3. /\ q \in Seq(Files)
      /\ \A i, j \in 1 .. Len(q) : q[i] = q[j] => i = j
      /\ \A e : e \in DOMAIN d <=> \E i \in 1 .. Len(q) : q[i] = e
  BY <1>1, <1>2, Listed
<1>4. PICK num : num = [i \in 1 .. Len(q) |-> d[q[i]]]
  OBVIOUS
<1>5. num \in [1 .. Len(q) -> Nat]
  BY <1>3, <1>4
<1>6. PICK r : Joins(q, num, r)
  BY DEF Joins
<1>7. /\ r \in Seq(Files)
      /\ \A k \in 1 .. Len(q) : Count(r, q[k]) = num[k]
      /\ \A e : (\A i \in 1 .. Len(q) : q[i] # e) => Count(r, e) = 0
  BY <1>3, <1>5, <1>6, JoinedRows
<1>8. FileSelection!Rows(d) = r
  <2>1. DOMAIN q = 1 .. Len(q)
    BY <1>3, LenProperties
  <2>2. [i \in DOMAIN q |-> FileSelection!RowsOf(q[i], d[q[i]])]
          = [i \in 1 .. Len(q) |-> FileSelection!RowsOf(q[i], num[i])]
    BY <1>4, <2>1
  <2>3. QED
    BY <1>2, <1>6, <2>2 DEF FileSelection!Rows, Joins
<1>9. \A f \in Files : Count(r, f) = IF f \in DOMAIN d THEN d[f] ELSE 0
  BY <1>3, <1>4, <1>7
<1>10. QED
  BY <1>7, <1>8, <1>9 DEF Matches

\* What is chosen and valid is listed once, and was not listed before.
LEMMA ValidOnce ==
  ASSUME NEW chosen \in FileSelection!Selections
  PROVE  LET v == FileSelection!ValidFiles(chosen)
         IN  /\ v \in Seq(Files)
             /\ \A i, j \in DOMAIN v : v[i] = v[j] => i = j
             /\ \A f : Occurs(v, f) => ~ Occurs(uploaded, f)
<1> DEFINE Valid(f) == f \in FileSelection!supportedFormats \ FileSelection!ToSet(uploaded)
<1>1. PICK m \in Nat : chosen \in [1 .. m -> Files]
  <2>1. chosen \in UNION {[1 .. k -> Files] : k \in 0 .. 2}
    BY DEF FileSelection!Selections, FileSelection!SeqOf
  <2>2. PICK m \in 0 .. 2 : chosen \in [1 .. m -> Files]
    BY <2>1, Zenon
  <2>3. m \in Nat
    OBVIOUS
  <2>4. QED
    BY <2>2, <2>3
<1>2. chosen \in Seq(Files)
  BY <1>1
<1>3. \A i, j \in 1 .. Len(chosen) : chosen[i] = chosen[j] => i = j
  BY <1>2, LenProperties DEF FileSelection!Selections, FileSelection!IsInjective
<1>4. PICK num : num = [i \in 1 .. Len(chosen) |-> IF Valid(chosen[i]) THEN 1 ELSE 0]
  OBVIOUS
<1>5. num \in [1 .. Len(chosen) -> Nat]
  BY <1>4
<1>6. PICK v : Joins(chosen, num, v)
  BY DEF Joins
<1>7. /\ v \in Seq(Files)
      /\ \A k \in 1 .. Len(chosen) : Count(v, chosen[k]) = num[k]
      /\ \A e : (\A i \in 1 .. Len(chosen) : chosen[i] # e) => Count(v, e) = 0
  BY <1>2, <1>3, <1>5, <1>6, JoinedRows
<1>8. FileSelection!ValidFiles(chosen) = v
  <2>1. \A i \in 1 .. Len(chosen) :
          FileSelection!RowsOf(chosen[i], num[i])
            = IF Valid(chosen[i]) THEN <<chosen[i]>> ELSE <<>>
    <3>1. \A x : FileSelection!RowsOf(x, 1) = <<x>>
      BY DEF FileSelection!RowsOf
    <3>2. \A x : FileSelection!RowsOf(x, 0) = <<>>
      BY DEF FileSelection!RowsOf
    <3>3. QED
      BY <1>4, <3>1, <3>2
  <2>2. [i \in DOMAIN chosen |-> IF Valid(chosen[i]) THEN <<chosen[i]>> ELSE <<>>]
          = [i \in 1 .. Len(chosen) |-> FileSelection!RowsOf(chosen[i], num[i])]
    BY <1>2, <2>1, LenProperties
  <2>3. QED
    BY <1>6, <2>2 DEF FileSelection!ValidFiles, Joins
<1>9. \A e : Count(v, e) \in {0, 1} /\ (Count(v, e) = 1 => Valid(e))
  BY <1>4, <1>7
<1>10. \A i, j \in DOMAIN v : v[i] = v[j] => i = j
  <2>1. \A e : Count(v, e) <= 1
    BY <1>9
  <2>2. QED
    BY <1>7, <2>1, OnePlace
<1>11. ASSUME NEW f, Occurs(v, f) PROVE ~ Occurs(uploaded, f)
  <2>1. Count(v, f) # 0
    BY <1>7, <1>11, Counted DEF Occurs
  <2>2. Valid(f)
    BY <1>9, <2>1
  <2>3. QED
    BY <2>2 DEF Occurs, FileSelection!ToSet
<1>12. QED
  BY <1>7, <1>8, <1>10, <1>11

\* The rows of one more file match the parsed data with that file.
LEMMA MatchesMore ==
  ASSUME NEW d, NEW r, Matches(d, r), NEW f \in Files, f \notin DOMAIN d, NEW n \in Nat,
         NEW e, DOMAIN e = DOMAIN d \cup {f}, e[f] = n, \A x \in DOMAIN d : e[x] = d[x]
  PROVE  Matches(e, r \o FileSelection!RowsOf(f, n))
<1>1. PICK s : s = FileSelection!RowsOf(f, n)
  OBVIOUS
<1>2. s \in Seq(Files) /\ \A x : Count(s, x) = IF x = f THEN n ELSE 0
  BY <1>1, RowsCounted
<1>3. r \in Seq(Files)
  BY DEF Matches
<1>4. r \o s \in Seq(Files) /\ \A x : Count(r \o s, x) = Count(r, x) + Count(s, x)
  BY <1>2, <1>3, CountJoined
<1>5. ASSUME NEW x \in Files
      PROVE  Count(r \o s, x) = IF x \in DOMAIN e THEN e[x] ELSE 0
  <2>1. /\ Count(r, x) = IF x \in DOMAIN d THEN d[x] ELSE 0
        /\ x \in DOMAIN d => d[x] \in Nat
    BY DEF Matches
  <2>2. Count(r \o s, x) = Count(r, x) + Count(s, x)
    BY <1>4
  <2>3. CASE x = f
    <3>1. Count(s, x) = n /\ Count(r, x) = 0
      BY <1>2, <2>1, <2>3
    <3>2. QED
      BY <2>2, <2>3, <3>1
  <2>4. CASE x # f
    <3>1. Count(s, x) = 0 /\ (x \in DOMAIN e <=> x \in DOMAIN d)
      BY <1>2, <2>4
    <3>2. QED
      BY <2>1, <2>2, <3>1
  <2>5. QED
    BY <2>3, <2>4
<1>6. DOMAIN e \subseteq Files /\ \A x \in DOMAIN e : e[x] \in Nat
  BY DEF Matches
<1>7. QED
  BY <1>1, <1>4, <1>5, <1>6 DEF Matches

\* Every parsed file of the data d is listed.
AllListed(d) == \A f \in DOMAIN d : Occurs(uploaded, f)

\* Call c still has to parse files that are listed and that its data lacks.
Parsing(c) ==
  /\ c.todo \in Seq(Files) /\ c.todo # <<>>
  /\ \A i, j \in DOMAIN c.todo : c.todo[i] = c.todo[j] => i = j
  /\ \A f : Occurs(c.todo, f) => Occurs(uploaded, f) /\ f \notin DOMAIN c.data

\* As long as no call met data that had changed, there is one call at most, and either the
\* page or that call, which will write it, has the rows of the parsed files.
DataInv ==
  /\ uploaded \in Seq(Files)
  /\ ~overlapped =>
       \/ calls = {} /\ Matches(fileData, rows) /\ AllListed(fileData)
       \/ \E c : calls = {c} /\ Matches(c.data, c.all) /\ AllListed(c.data) /\ Parsing(c)

\* A call goes on with the data and the rows of one more file, or writes them.
LEMMA DataParses ==
  ASSUME FileSelection!SelectionAssumption, DataInv, NEW c \in calls,
         FileSelection!Parse(c)
  PROVE  DataInv'
<1>1. PICK n \in FileSelection!ParseFile(Head(c.todo)) : FileSelection!ParseNext(c, n)
  BY DEF FileSelection!Parse
<1>2. n \in Nat
  BY DEF FileSelection!SelectionAssumption, FileSelection!ParseFile, FileSelection!ParseCSV,
    FileSelection!ParseJSON, FileSelection!ParseXML, FileSelection!ParseXLSX,
    FileSelection!Refused
<1>3. UNCHANGED <<uploaded, overlapped>>
  BY <1>1 DEF FileSelection!Parse, FileSelection!ParseNext
<1>4. SUFFICES ASSUME ~overlapped
      PROVE  \/ calls' = {} /\ Matches(fileData, rows)' /\ AllListed(fileData)'
             \/ \E d : calls' = {d} /\ Matches(d.data, d.all)' /\ AllListed(d.data)' /\ Parsing(d)'
  BY <1>3 DEF DataInv
<1>5. calls = {c} /\ Matches(c.data, c.all) /\ AllListed(c.data) /\ Parsing(c)
  BY <1>4 DEF DataInv
<1>6. PICK f : f = Head(c.todo)
  OBVIOUS
<1>7. PICK rest : rest = Tail(c.todo)
  OBVIOUS
<1>8. c.todo \in Seq(Files) /\ c.todo # <<>>
  BY <1>5 DEF Parsing
<1>9. /\ Len(c.todo) \in Nat /\ 1 \in DOMAIN c.todo /\ f = c.todo[1]
      /\ rest \in Seq(Files) /\ f \in Files
      /\ \A i \in DOMAIN rest : i + 1 \in DOMAIN c.todo /\ rest[i] = c.todo[i + 1]
  BY <1>6, <1>7, <1>8, HeadTailProperties, LenProperties, EmptySeq
<1>10. Occurs(uploaded, f) /\ f \notin DOMAIN c.data
  <2>1. Occurs(c.todo, f)
    BY <1>9 DEF Occurs
  <2>2. QED
    BY <1>5, <2>1 DEF Parsing
<1>11. PICK e : e = IF n = FileSelection!Refused THEN c.data
                    ELSE [g \in DOMAIN c.data \cup {f} |-> IF g = f THEN n ELSE c.data[g]]
  OBVIOUS
<1>12. PICK all : all = IF n = FileSelection!Refused THEN c.all
                        ELSE c.all \o FileSelection!RowsOf(f, n)
  OBVIOUS
<1>13. DOMAIN e \subseteq DOMAIN c.data \cup {f}
  BY <1>11
<1>14. Matches(e, all)
  <2>1. CASE n = FileSelection!Refused
    BY <1>5, <1>11, <1>12, <2>1
  <2>2. CASE n # FileSelection!Refused
    <3>1. DOMAIN e = DOMAIN c.data \cup {f} /\ e[f] = n
          /\ \A x \in DOMAIN c.data : e[x] = c.data[x]
      BY <1>10, <1>11, <2>2
    <3>2. QED
      BY <1>2, <1>5, <1>9, <1>10, <1>12, <2>2, <3>1, MatchesMore
  <2>3. QED
    BY <2>1, <2>2
<1>15. AllListed(e)'
  BY <1>3, <1>5, <1>10, <1>13 DEF AllListed, Occurs
<1>16. CASE rest = <<>>
  <2>1. calls' = calls \ {c} /\ fileData' = e /\ rows' = all
    BY <1>1, <1>6, <1>7, <1>11, <1>12, <1>16 DEF FileSelection!ParseNext
  <2>2. Matches(fileData, rows)' /\ AllListed(fileData)'
    BY <1>14, <1>15, <2>1 DEF Matches, AllListed
  <2>3. QED
    BY <1>5, <2>1, <2>2
<1>17. CASE rest # <<>>
  <2>1. PICK d : /\ d = [todo |-> rest, failed |-> c.failed \/ n = FileSelection!Refused,
                          data |-> e, all |-> all]
                 /\ calls' = (calls \ {c}) \cup {d}
    BY <1>1, <1>6, <1>7, <1>11, <1>12, <1>17 DEF FileSelection!ParseNext
  <2>2. \A i, j \in DOMAIN rest : rest[i] = rest[j] => i = j
    <3>1. ASSUME NEW i \in DOMAIN rest, NEW j \in DOMAIN rest, rest[i] = rest[j]
          PROVE  i = j
      <4>1. i + 1 = j + 1
        BY <1>5, <1>9, <3>1 DEF Parsing
      <4>2. i \in Nat /\ j \in Nat
        BY <1>9, LenProperties
      <4>3. QED
        BY <4>1, <4>2
    <3>2. QED
      BY <3>1
  <2>3. ASSUME NEW x, Occurs(rest, x) PROVE Occurs(uploaded, x) /\ x \notin DOMAIN e
    <3>1. PICK i \in DOMAIN rest : rest[i] = x
      BY <2>3 DEF Occurs
    <3>2. i \in Nat /\ i # 0 /\ i + 1 # 1
      BY <1>9, LenProperties
    <3>3. i + 1 \in DOMAIN c.todo /\ c.todo[i + 1] = x /\ x # f
      BY <1>5, <1>9, <3>1, <3>2 DEF Parsing
    <3>4. Occurs(uploaded, x) /\ x \notin DOMAIN c.data
      BY <1>5, <3>3 DEF Parsing, Occurs
    <3>5. QED
      BY <1>13, <3>3, <3>4
  <2>4. Parsing(d)'
    BY <1>3, <1>9, <1>17, <2>1, <2>2, <2>3 DEF Parsing, Occurs
  <2>5. Matches(d.data, d.all)' /\ AllListed(d.data)'
    BY <1>14, <1>15, <2>1 DEF Matches
  <2>6. QED
    BY <1>5, <2>1, <2>4, <2>5
<1>18. QED
  BY <1>16, <1>17

\* What occurs in one of two sequences occurs in the one that joins them.
LEMMA OccursJoined ==
  ASSUME NEW S, NEW s \in Seq(S), NEW t \in Seq(S), NEW e, Occurs(s, e) \/ Occurs(t, e)
  PROVE  Occurs(s \o t, e)
<1>1. Len(s) \in Nat /\ Len(t) \in Nat /\ Len(s \o t) = Len(s) + Len(t)
  BY LenProperties, ConcatProperties
<1>2. DOMAIN s = 1 .. Len(s) /\ DOMAIN t = 1 .. Len(t) /\ DOMAIN (s \o t) = 1 .. Len(s) + Len(t)
  BY <1>1, LenProperties, ConcatProperties
<1>3. \A i \in 1 .. Len(s) + Len(t) :
        (s \o t)[i] = IF i <= Len(s) THEN s[i] ELSE t[i - Len(s)]
  BY ConcatProperties
<1>4. ASSUME NEW i \in 1 .. Len(s), s[i] = e
      PROVE  i \in DOMAIN (s \o t) /\ (s \o t)[i] = e
  BY <1>1, <1>2, <1>3, <1>4
<1>5. ASSUME NEW i \in 1 .. Len(t), t[i] = e
      PROVE  Len(s) + i \in DOMAIN (s \o t) /\ (s \o t)[Len(s) + i] = e
  <2>1. /\ Len(s) + i \in 1 .. Len(s) + Len(t) /\ ~ (Len(s) + i <= Len(s))
        /\ (Len(s) + i) - Len(s) = i
    BY <1>1
  <2>2. QED
    BY <1>2, <1>3, <1>5, <2>1
<1>6. QED
  BY <1>2, <1>4, <1>5 DEF Occurs

\* Removing one place of a sequence leaves the other elements.
LEMMA OneRemoved ==
  ASSUME NEW S, NEW s \in Seq(S), NEW i \in DOMAIN s
  PROVE  /\ FileSelection!RemoveAt(s, i) \in Seq(S)
         /\ \A e : Occurs(s, e) /\ e # s[i] => Occurs(FileSelection!RemoveAt(s, i), e)
<1>1. PICK n \in Nat : n = Len(s) /\ DOMAIN s = 1 .. n
  BY LenProperties
<1>2. i \in 1 .. n
  BY <1>1
<1>3. PICK a : a = SubSeq(s, 1, i - 1)
  OBVIOUS
<1>4. PICK b : b = SubSeq(s, i + 1, n)
  OBVIOUS
<1>5. \A k \in 1 .. n : s[k] \in S
  BY <1>1, ElementOfSeq
<1>6. a \in Seq(S) /\ Len(a) = i - 1 /\ \A k \in 1 .. i - 1 : a[k] = s[k]
  <2>1. i - 1 \in Int /\ 1 \in Int /\ \A k \in 1 .. i - 1 : s[k] \in S
    BY <1>2, <1>5
  <2>2. /\ a \in Seq(S) /\ Len(a) = IF 1 <= i - 1 THEN (i - 1) - 1 + 1 ELSE 0
        /\ \A k \in 1 .. (i - 1) - 1 + 1 : a[k] = s[1 + k - 1]
    BY <1>3, <2>1, SubSeqProperties
  <2>3. \A k \in 1 .. i - 1 : k \in 1 .. (i - 1) - 1 + 1 /\ 1 + k - 1 = k
    BY <1>2
  <2>4. QED
    BY <1>2, <2>2, <2>3
<1>7. b \in Seq(S) /\ Len(b) = n - i /\ \A k \in 1 .. n - i : b[k] = s[i + k]
  <2>1. i + 1 \in Int /\ n \in Int /\ \A k \in i + 1 .. n : s[k] \in S
    BY <1>2, <1>5
  <2>2. /\ b \in Seq(S) /\ Len(b) = IF i + 1 <= n THEN n - (i + 1) + 1 ELSE 0
        /\ \A k \in 1 .. n - (i + 1) + 1 : b[k] = s[(i + 1) + k - 1]
    BY <1>4, <2>1, SubSeqProperties
  <2>3. \A k \in 1 .. n - i : k \in 1 .. n - (i + 1) + 1 /\ (i + 1) + k - 1 = i + k
    BY <1>2
  <2>4. QED
    BY <1>2, <2>2, <2>3
<1>8. FileSelection!RemoveAt(s, i) = a \o b
  BY <1>1, <1>3, <1>4 DEF FileSelection!RemoveAt
<1>9. ASSUME NEW k \in 1 .. n, k # i PROVE Occurs(a, s[k]) \/ Occurs(b, s[k])
  <2>1. CASE k < i
    <3>1. k \in 1 .. i - 1 /\ DOMAIN a = 1 .. i - 1
      BY <1>2, <1>6, <2>1, LenProperties
    <3>2. QED
      BY <1>6, <3>1 DEF Occurs
  <2>2. CASE i < k
    <3>1. k - i \in 1 .. n - i /\ DOMAIN b = 1 .. n - i /\ i + (k - i) = k
      BY <1>2, <1>7, <2>2, LenProperties
    <3>2. QED
      BY <1>7, <3>1 DEF Occurs
  <2>3. QED
    BY <1>2, <1>9, <2>1, <2>2
<1>10. a \o b \in Seq(S)
  BY <1>6, <1>7, ConcatProperties
<1>11. ASSUME NEW e, Occurs(s, e), e # s[i] PROVE Occurs(a \o b, e)
  <2>1. PICK k \in 1 .. n : s[k] = e
    BY <1>1, <1>11 DEF Occurs
  <2>2. Occurs(a, e) \/ Occurs(b, e)
    BY <1>9, <1>11, <2>1
  <2>3. QED
    BY <1>6, <1>7, <2>2, OccursJoined
<1>12. QED
  BY <1>8, <1>10, <1>11

\* Files chosen are listed, and a call starts from the data and the rows there are.
LEMMA DataChosen ==
  ASSUME DataInv, NEW chosen \in FileSelection!Selections,
         FileSelection!ProcessFiles(chosen), UNCHANGED <<fileData, rows>>
  PROVE  DataInv'
<1>1. PICK v : v = FileSelection!ValidFiles(chosen)
  OBVIOUS
<1>2. /\ v \in Seq(Files) /\ uploaded \in Seq(Files)
      /\ \A i, j \in DOMAIN v : v[i] = v[j] => i = j
      /\ \A f : Occurs(v, f) => ~ Occurs(uploaded, f)
  BY <1>1, ValidOnce DEF DataInv
<1>3. uploaded' = uploaded \o v
  BY <1>1 DEF FileSelection!ProcessFiles
<1>4. uploaded' \in Seq(Files)
  BY <1>2, <1>3, ConcatProperties
<1>5. \A f : Occurs(uploaded, f) \/ Occurs(v, f) => Occurs(uploaded, f)'
  <2>1. PICK w : w = uploaded \o v
    OBVIOUS
  <2>2. \A f : Occurs(uploaded, f) \/ Occurs(v, f) => Occurs(w, f)
    BY <1>2, <2>1, OccursJoined
  <2>3. QED
    BY <1>3, <2>1, <2>2 DEF Occurs
<1>6. \A d : AllListed(d) => AllListed(d)'
  BY <1>5 DEF AllListed
<1>7. CASE v = <<>>
  <2>1. UNCHANGED <<calls, overlapped>>
    BY <1>1, <1>7 DEF FileSelection!ProcessFiles
  <2>2. Matches(fileData, rows)' <=> Matches(fileData, rows)
    BY DEF Matches
  <2>3. AllListed(fileData) => AllListed(fileData)'
    BY <1>5 DEF AllListed
  <2>4. \A c : Parsing(c) => Parsing(c)'
    BY <1>5 DEF Parsing, Occurs
  <2>5. QED
    BY <1>4, <1>6, <2>1, <2>2, <2>3, <2>4 DEF DataInv, Matches
<1>8. CASE v # <<>>
  <2>1. PICK c : /\ c.todo = v /\ c.data = fileData /\ c.all = rows
                 /\ calls' = calls \cup {c}
                 /\ overlapped' = (overlapped \/ calls # {})
    BY <1>1, <1>8 DEF FileSelection!ProcessFiles
  <2>2. ASSUME ~overlapped'
        PROVE  calls' = {c} /\ Matches(c.data, c.all)' /\ AllListed(c.data)' /\ Parsing(c)'
    <3>1. ~overlapped /\ calls = {}
      BY <2>1, <2>2
    <3>2. Matches(fileData, rows) /\ AllListed(fileData)
      BY <3>1 DEF DataInv
    <3>3. Matches(c.data, c.all)' /\ AllListed(c.data)'
      BY <1>6, <2>1, <3>2 DEF Matches
    <3>4. \A f : Occurs(c.todo, f) => Occurs(uploaded, f)' /\ f \notin DOMAIN c.data
      BY <1>2, <1>5, <2>1, <3>2 DEF AllListed
    <3>5. Parsing(c)'
      BY <1>2, <1>8, <2>1, <3>4 DEF Parsing, Occurs
    <3>6. QED
      BY <2>1, <3>1, <3>3, <3>5
  <2>3. QED
    BY <1>4, <2>2 DEF DataInv
<1>9. QED
  BY <1>7, <1>8

\* A file is removed: the rows are those of the data that is left.
LEMMA DataRemoves ==
  ASSUME FileSelection!SelectionAssumption, DataInv, NEW i \in DOMAIN uploaded,
         FileSelection!RemoveFile(i)
  PROVE  DataInv'
<1>1. PICK left : left = [f \in DOMAIN fileData \ {uploaded[i]} |-> fileData[f]]
  OBVIOUS
<1>2. /\ uploaded' = FileSelection!RemoveAt(uploaded, i)
      /\ fileData' = left /\ rows' = FileSelection!Rows(left)
      /\ overlapped' = (overlapped \/ calls # {}) /\ calls' = calls
  BY <1>1 DEF FileSelection!RemoveFile
<1>3. uploaded \in Seq(Files)
  BY DEF DataInv
<1>4. /\ uploaded' \in Seq(Files)
      /\ \A f : Occurs(uploaded, f) /\ f # uploaded[i] => Occurs(uploaded, f)'
  <2>1. PICK u : u = FileSelection!RemoveAt(uploaded, i)
    OBVIOUS
  <2>2. u \in Seq(Files) /\ \A f : Occurs(uploaded, f) /\ f # uploaded[i] => Occurs(u, f)
    BY <1>3, <2>1, OneRemoved
  <2>3. QED
    BY <1>2, <2>1, <2>2 DEF Occurs
<1>5. ASSUME ~overlapped'
      PROVE  calls' = {} /\ Matches(fileData, rows)' /\ AllListed(fileData)'
  <2>1. calls = {} /\ Matches(fileData, rows) /\ AllListed(fileData)
    BY <1>2, <1>5 DEF DataInv
  <2>2. DOMAIN left \subseteq Files /\ \A f \in DOMAIN left : left[f] \in Nat
    BY <1>1, <2>1 DEF Matches
  <2>3. Matches(left, FileSelection!Rows(left))
    BY <2>2, RowsMatch
  <2>4. Matches(fileData, rows)'
    BY <1>2, <2>3 DEF Matches
  <2>5. AllListed(fileData)'
    BY <1>1, <1>2, <1>4, <2>1 DEF AllListed
  <2>6. QED
    BY <1>2, <2>1, <2>4, <2>5
<1>6. QED
  BY <1>4, <1>5 DEF DataInv

\* Nothing parsed is the data of no rows.
LEMMA NothingMatches == Matches(<<>>, <<>>) /\ AllListed(<<>>) /\ AllListed(<<>>)'
<1>1. PICK z \in Seq(Files) : z = <<>> /\ DOMAIN z = {}
  <2>1. <<>> \in Seq(Files) /\ DOMAIN <<>> = {}
    BY EmptySeq
  <2>2. QED
    BY <2>1
<1>2. \A e : Count(z, e) = 0
  BY <1>1, Counted
<1>3. QED
  BY <1>1, <1>2 DEF Matches, AllListed

\* The data and its rows begin so.
LEMMA DataBegins ==
  FileSelection!Init => DataInv
<1> SUFFICES ASSUME FileSelection!Init PROVE DataInv
  OBVIOUS
<1>1. uploaded = <<>> /\ fileData = <<>> /\ rows = <<>> /\ calls = {}
  BY DEF FileSelection!Init
<1>2. uploaded \in Seq(Files)
  BY <1>1, EmptySeq
<1>3. QED
  BY <1>1, <1>2, NothingMatches DEF DataInv

\* Every step of the selection keeps them so.
LEMMA DataStep ==
  ASSUME FileSelection!SelectionAssumption
  PROVE  DataInv /\ [FileSelection!Next]_(FileSelection!vars) => DataInv'
<1> SUFFICES ASSUME DataInv, [FileSelection!Next]_(FileSelection!vars)
             PROVE  DataInv'
  OBVIOUS
<1>1. CASE UNCHANGED <<uploaded, fileData, rows, calls, overlapped>>
  BY <1>1 DEF DataInv, Matches, AllListed, Parsing, Occurs
<1>2. CASE FileSelection!ChooseFiles
  <2>1. PICK chosen \in FileSelection!Selections : FileSelection!ProcessFiles(chosen)
    BY <1>2 DEF FileSelection!ChooseFiles
  <2>2. UNCHANGED <<fileData, rows>>
    BY <1>2 DEF FileSelection!ChooseFiles
  <2>3. QED
    BY <2>1, <2>2, DataChosen
<1>3. CASE FileSelection!HandleDrop
  <2>1. UNCHANGED <<fileData, rows>>
    BY <1>3 DEF FileSelection!HandleDrop
  <2>2. \/ UNCHANGED <<uploaded, calls, overlapped>>
        \/ \E chosen \in FileSelection!Selections : FileSelection!ProcessFiles(chosen)
    BY <1>3 DEF FileSelection!HandleDrop
  <2>3. QED
    BY <1>1, <2>1, <2>2, DataChosen
<1>4. CASE FileSelection!ResetMigration
  <2>1. /\ uploaded' = <<>> /\ fileData' = <<>> /\ rows' = <<>> /\ calls' = calls
        /\ overlapped' = (overlapped \/ calls # {})
    BY <1>4 DEF FileSelection!ResetMigration
  <2>2. uploaded' \in Seq(Files)
    BY <2>1, EmptySeq
  <2>3. Matches(fileData, rows)' /\ AllListed(fileData)'
    BY <2>1, NothingMatches DEF Matches, AllListed
  <2>4. QED
    BY <2>1, <2>2, <2>3 DEF DataInv
<1>5. CASE \/ FileSelection!HandleDragLeave
           \/ \E hasFiles \in BOOLEAN : FileSelection!HandleDragEnter(hasFiles)
           \/ FileSelection!StartMigration \/ FileSelection!TurnPage
           \/ \E n \in PageSizes : FileSelection!SetPageSize(n)
           \/ UNCHANGED FileSelection!vars
  <2>1. UNCHANGED <<uploaded, fileData, rows, calls, overlapped>>
    BY <1>5 DEF FileSelection!HandleDragLeave, FileSelection!HandleDragEnter,
      FileSelection!StartMigration, FileSelection!TurnPage, FileSelection!SetPageSize,
      FileSelection!vars, FileSelection!data
  <2>2. QED
    BY <1>1, <2>1
<1>6. QED
  BY <1>2, <1>3, <1>4, <1>5, DataParses, DataRemoves DEF FileSelection!Next

\* So the rows are those of the parsed files.
LEMMA DataMatches ==
  DataInv => FileSelection!DataMatchesFiles
<1> SUFFICES ASSUME DataInv, calls = {}, ~overlapped
             PROVE  /\ DOMAIN fileData \subseteq FileSelection!ToSet(uploaded)
                    /\ \A f \in Files :
                         FileSelection!Cardinality({i \in DOMAIN rows : rows[i] = f})
                           = IF f \in DOMAIN fileData THEN fileData[f] ELSE 0
  BY DEF FileSelection!DataMatchesFiles
<1>1. Matches(fileData, rows) /\ AllListed(fileData)
  BY DEF DataInv
<1>2. DOMAIN fileData \subseteq FileSelection!ToSet(uploaded)
  BY <1>1 DEF AllListed, Occurs, FileSelection!ToSet
<1>3. \A f \in Files : Count(rows, f) = IF f \in DOMAIN fileData THEN fileData[f] ELSE 0
  BY <1>1 DEF Matches
<1>4. QED
  BY <1>2, <1>3, SelectionCardinality DEF Count, Places

-----------------------------------------------------------------------------
(* The pages behind the links of e-mails.                                  *)

PageFields == {"kind", "from", "status", "ran", "tries", "password", "reTypePassword",
               "busy", "timer", "asked", "saved", "made", "lost"}
IsPage(p) == /\ PageFields \subseteq DOMAIN p
             /\ {p.ran, p.busy, p.timer, p.made, p.lost} \subseteq BOOLEAN
IsRequest(c) == {"page", "at", "password"} \subseteq DOMAIN c

\* The requests of page k.
Requests(k) == {c \in sent : c.page = k}

\* A page that verifies an address, by its requests: it asks once, and it knows of no
\* account that its request did not make.
VerifyFits(p, asking) ==
  /\ p.status = "success" => p.made
  /\ p.status = "error" /\ p.made => p.lost
  /\ ~p.timer
  /\ ~p.ran => ~p.made /\ p.status = "pending"
  /\ \/ asking = {}
     \/ \E c : /\ asking = {c} /\ p.ran
               /\ c.at = "granted" <=> p.made
               /\ p.status = "error" => p.lost

\* A page that resets a password, by its requests: unless an answer was lost it waits for
\* the answer to the password asked for last before it asks for another.
ResetFits(p, asking) ==
  \/ p.lost
  \/ /\ p.status = "success" => p.saved = p.asked /\ asking = {}
     /\ \/ asking = {}
        \/ \E c : /\ asking = {c} /\ p.busy /\ c.password = p.asked
                  /\ c.at = "granted" => p.saved = p.asked

Fits(p, asking) == IF p.kind = "verify" THEN VerifyFits(p, asking) ELSE ResetFits(p, asking)

\* A registration has the one account it was made for, and only then.
IsPerson(x) == /\ {"stage", "accounts"} \subseteq DOMAIN x
               /\ x.accounts = IF x.stage = "account" THEN 1 ELSE 0
PeopleFit == /\ DOMAIN people = Links!Registrations
             /\ \A r \in Links!Registrations : IsPerson(people[r])

\* Every page fits its requests, and every request is of a page.
PagesFit == /\ IsSeq(pages)
            /\ \A k \in Links!Pages : IsPage(pages[k]) /\ Fits(pages[k], Requests(k))
            /\ \A c \in sent : IsRequest(c) /\ c.page \in Links!Pages
LinksInv == PeopleFit /\ PagesFit

\* Only the requests of page k change.
OnlyOf(k) == /\ \A c \in sent' : IsRequest(c) /\ (c.page # k => c \in sent)
             /\ \A c \in sent : c.page # k => c \in sent'

\* Request c gives way to those of T, which are none or one that differs in where it is.
Yields(c, at, T) ==
  /\ sent' = (sent \ {c}) \cup T
  /\ \/ T = {}
     \/ \E z : /\ T = {z} /\ IsRequest(z) /\ z.page = c.page
               /\ z.password = c.password /\ z.at = at

\* A page just opened fits, as nothing was asked for yet.
LEMMA NewPageFits ==
  ASSUME NEW kind, NEW e
  PROVE  IsPage(Links!NewPage(kind, e)) /\ Fits(Links!NewPage(kind, e), {})
<1> DEFINE p == Links!NewPage(kind, e)
<1>1. /\ IsPage(p) /\ p.kind = kind /\ p.status = "pending"
      /\ ~p.ran /\ ~p.timer /\ ~p.made /\ ~p.lost
  BY DEF IsPage, PageFields, Links!NewPage
<1>2. VerifyFits(p, {}) /\ ResetFits(p, {})
  BY <1>1 DEF VerifyFits, ResetFits
<1>3. QED
  BY <1>1, <1>2 DEF Fits

\* Changing one page leaves the sequence of pages and the other pages.
LEMMA PageReplaced ==
  ASSUME IsSeq(pages), NEW k \in Links!Pages, NEW p, pages' = [pages EXCEPT ![k] = p]
  PROVE  /\ IsSeq(pages') /\ DOMAIN pages' = DOMAIN pages /\ pages'[k] = p
         /\ \A j \in DOMAIN pages : j # k => pages'[j] = pages[j]
<1>1. PICK S : pages \in Seq(S)
  BY DEF IsSeq
<1>2. pages \in Seq(S \cup {p}) /\ k \in 1 .. Len(pages)
  BY <1>1 DEF Links!Pages
<1>3. pages' \in Seq(S \cup {p})
  BY <1>2, ExceptSeq
<1>4. QED
  BY <1>3 DEF IsSeq, Links!Pages

\* When one page changes and requests of it only, it is enough that this page fits.
LEMMA OnePageMoves ==
  ASSUME PagesFit, NEW k \in Links!Pages, NEW p, IsPage(p),
         pages' = [pages EXCEPT ![k] = p], OnlyOf(k), Fits(p, Requests(k)')
  PROVE  PagesFit'
<1>1. /\ IsSeq(pages') /\ DOMAIN pages' = DOMAIN pages /\ pages'[k] = p
      /\ \A j \in DOMAIN pages : j # k => pages'[j] = pages[j]
  BY PageReplaced DEF PagesFit
<1>2. \A j : j # k => Requests(j)' = Requests(j)
  BY DEF Requests, OnlyOf
<1>3. ASSUME NEW j \in Links!Pages PROVE IsPage(pages'[j]) /\ Fits(pages'[j], Requests(j)')
  <2>1. CASE j = k
    BY <2>1, <1>1
  <2>2. CASE j # k
    BY <2>2, <1>1, <1>2 DEF PagesFit, Links!Pages
  <2>3. QED
    BY <2>1, <2>2
<1>4. \A c \in sent' : IsRequest(c) /\ c.page \in Links!Pages
  BY DEF OnlyOf, PagesFit
<1>5. QED
  BY <1>1, <1>3, <1>4 DEF PagesFit, Links!Pages

\* Changing a page alone.
LEMMA PageMovesAlone ==
  ASSUME PagesFit, NEW k \in Links!Pages, NEW p, IsPage(p),
         pages' = [pages EXCEPT ![k] = p], UNCHANGED sent, Fits(p, Requests(k))
  PROVE  PagesFit'
<1>1. OnlyOf(k) /\ Requests(k)' = Requests(k)
  BY DEF OnlyOf, PagesFit, Requests
<1>2. QED
  BY <1>1, OnePageMoves

\* A page that asks once more has that request too.
LEMMA PageAsks ==
  ASSUME PagesFit, NEW k \in Links!Pages, NEW word, Links!Send(k, word)
  PROVE  /\ OnlyOf(k)
         /\ \E c : /\ Requests(k)' = Requests(k) \cup {c}
                   /\ c.at = "sent" /\ c.password = word
<1>1. PICK c : c = [page |-> k, n |-> pages[k].tries, at |-> "sent",
                    row |-> 0, password |-> word, heard |-> TRUE]
  OBVIOUS
<1>2. sent' = sent \cup {c}
  BY <1>1 DEF Links!Send
<1>3. c.page = k /\ c.at = "sent" /\ c.password = word /\ IsRequest(c)
  BY <1>1 DEF IsRequest
<1>4. OnlyOf(k)
  BY <1>2, <1>3 DEF OnlyOf, PagesFit
<1>5. Requests(k)' = Requests(k) \cup {c}
  BY <1>2, <1>3 DEF Requests
<1>6. QED
  BY <1>3, <1>4, <1>5

\* A request that yields to T is of its page, and when it was the only one T is left.
LEMMA RequestYields ==
  ASSUME PagesFit, NEW c \in sent, NEW at, NEW T, Yields(c, at, T)
  PROVE  /\ OnlyOf(c.page)
         /\ Requests(c.page) = {c} => Requests(c.page)' = T
<1>1. \A z \in T : IsRequest(z) /\ z.page = c.page
  BY DEF Yields
<1>2. QED
  BY <1>1 DEF Yields, OnlyOf, PagesFit, Requests

\* The server moves a request on.
LEMMA BecomesYields ==
  ASSUME NEW c, IsRequest(c), NEW at, NEW row, Links!Becomes(c, at, row)
  PROVE  \E T : Yields(c, at, T)
<1>1. PICK z : z = [c EXCEPT !.at = at, !.row = row]
  OBVIOUS
<1>2. IsRequest(z) /\ z.page = c.page /\ z.password = c.password /\ z.at = at
  BY <1>1 DEF IsRequest
<1>3. sent' = (sent \ {c}) \cup {z} \/ sent' = (sent \ {c}) \cup {}
  BY <1>1 DEF Links!Becomes
<1>4. Yields(c, at, {z}) \/ Yields(c, at, {})
  BY <1>2, <1>3 DEF Yields
<1>5. QED
  BY <1>4

\* A request or its answer is lost, before the server has decided or after.
LEMMA LostYields ==
  ASSUME NEW c, IsRequest(c), Links!Lost(c)
  PROVE  \/ Yields(c, c.at, {})
         \/ c.at \in {"sent", "read"} /\ \E T : Yields(c, c.at, T)
<1>1. PICK z : z = [c EXCEPT !.heard = FALSE]
  OBVIOUS
<1>2. IsRequest(z) /\ z.page = c.page /\ z.password = c.password /\ z.at = c.at
  BY <1>1 DEF IsRequest
<1>3. \/ sent' = (sent \ {c}) \cup {}
      \/ c.at \in {"sent", "read"} /\ sent' = (sent \ {c}) \cup {z}
  BY <1>1 DEF Links!Lost
<1>4. \/ Yields(c, c.at, {})
      \/ c.at \in {"sent", "read"} /\ Yields(c, c.at, {z})
  BY <1>2, <1>3 DEF Yields
<1>5. QED
  BY <1>4

\* The steps of a page that verifies an address.
LEMMA VerifySteps ==
  ASSUME PagesFit, NEW k \in Links!Pages,
         Links!VerifyEffect(k) \/ Links!LeaveVerify(k)
  PROVE  PagesFit'
<1>p. IsPage(pages[k]) /\ Fits(pages[k], Requests(k))
  BY DEF PagesFit
<1>v. pages[k].kind = "verify" /\ VerifyFits(pages[k], Requests(k))
  BY <1>p DEF Links!VerifyEffect, Links!LeaveVerify, Links!Opened, Fits
<1>1. CASE Links!VerifyEffect(k)
  <2>1. PICK p : p = [pages[k] EXCEPT !.ran = TRUE, !.tries = @ + 1]
    OBVIOUS
  <2>2. /\ IsPage(p) /\ p.kind = "verify" /\ p.ran /\ p.timer = pages[k].timer
        /\ p.status = pages[k].status /\ p.made = pages[k].made /\ p.lost = pages[k].lost
    BY <2>1, <1>p, <1>v DEF IsPage, PageFields
  <2>3. PICK q : q = [p EXCEPT !.status = "error"]
    OBVIOUS
  <2>4. /\ IsPage(q) /\ q.kind = "verify" /\ q.ran /\ q.timer = pages[k].timer
        /\ q.status = "error" /\ q.made = pages[k].made
    BY <2>2, <2>3 DEF IsPage, PageFields
  <2>5. \/ pages' = [pages EXCEPT ![k] = p] /\ UNCHANGED sent
        \/ /\ ~pages[k].ran
           /\ pages' = [pages EXCEPT ![k] = q] /\ UNCHANGED sent
        \/ /\ ~pages[k].ran
           /\ pages' = [pages EXCEPT ![k] = p] /\ Links!Send(k, Links!none)
    BY <1>1, <2>1, <2>3 DEF Links!VerifyEffect, Links!MayRun
  <2>6. CASE pages' = [pages EXCEPT ![k] = p] /\ UNCHANGED sent
    <3>1. VerifyFits(p, Requests(k))
      BY <1>v, <2>2 DEF VerifyFits
    <3>2. QED
      BY <2>6, <2>2, <3>1, PageMovesAlone DEF Fits
  <2>7. CASE ~pages[k].ran /\ pages' = [pages EXCEPT ![k] = q] /\ UNCHANGED sent
    <3>1. Requests(k) = {} /\ ~q.made
      BY <1>v, <2>4, <2>7 DEF VerifyFits
    <3>2. VerifyFits(q, Requests(k))
      BY <1>v, <2>4, <3>1 DEF VerifyFits
    <3>3. QED
      BY <2>7, <2>4, <3>2, PageMovesAlone DEF Fits
  <2>8. CASE /\ ~pages[k].ran
             /\ pages' = [pages EXCEPT ![k] = p] /\ Links!Send(k, Links!none)
    <3>1. OnlyOf(k)
      BY <2>8, PageAsks
    <3>2. PICK c : Requests(k)' = Requests(k) \cup {c} /\ c.at = "sent"
      BY <2>8, PageAsks
    <3>3. Requests(k)' = {c} /\ ~p.made /\ p.status = "pending" /\ ~p.timer
      BY <1>v, <2>2, <2>8, <3>2 DEF VerifyFits
    <3>4. VerifyFits(p, Requests(k)')
      BY <2>2, <3>2, <3>3 DEF VerifyFits
    <3>5. QED
      BY <2>8, <2>2, <3>1, <3>4, OnePageMoves DEF Fits
  <2>9. QED
    BY <2>5, <2>6, <2>7, <2>8
<1>2. CASE Links!LeaveVerify(k)
  <2>1. PICK p : p = [pages[k] EXCEPT !.status = "left"]
    OBVIOUS
  <2>2. /\ IsPage(p) /\ p.kind = "verify" /\ p.ran = pages[k].ran /\ p.timer = pages[k].timer
        /\ p.status = "left" /\ p.made = pages[k].made
    BY <2>1, <1>p, <1>v DEF IsPage, PageFields
  <2>3. pages' = [pages EXCEPT ![k] = p] /\ UNCHANGED sent /\ pages[k].ran
    BY <1>2, <1>p, <1>v, <2>1 DEF Links!LeaveVerify, VerifyFits, IsPage
  <2>4. VerifyFits(p, Requests(k))
    BY <1>v, <2>2, <2>3 DEF VerifyFits
  <2>5. QED
    BY <2>2, <2>3, <2>4, PageMovesAlone DEF Fits
<1>3. QED
  BY <1>1, <1>2

\* The steps of a page that resets a password.
LEMMA ResetSteps ==
  ASSUME PagesFit, NEW k \in Links!Pages,
         \/ Links!handleSubmit(k) \/ Links!TimerFires(k) \/ Links!LeaveReset(k)
         \/ \E word : Links!TypePassword(k, word) \/ Links!RetypePassword(k, word)
  PROVE  PagesFit'
<1>p. IsPage(pages[k]) /\ Fits(pages[k], Requests(k))
  BY DEF PagesFit
<1>v. pages[k].kind # "verify" /\ ResetFits(pages[k], Requests(k))
  BY <1>p DEF Links!handleSubmit, Links!TimerFires, Links!LeaveReset, Links!TypePassword,
    Links!RetypePassword, Links!FormOffered, Links!Opened, Fits, VerifyFits
<1>1. CASE Links!handleSubmit(k)
  <2>1. PICK p : p = [pages[k] EXCEPT !.busy = TRUE, !.tries = @ + 1,
                                      !.asked = pages[k].password]
    OBVIOUS
  <2>2. /\ IsPage(p) /\ p.kind # "verify" /\ p.busy /\ p.asked = pages[k].password
        /\ p.status = pages[k].status /\ p.lost = pages[k].lost
    BY <2>1, <1>p, <1>v DEF IsPage, PageFields
  <2>3. /\ pages' = [pages EXCEPT ![k] = p] /\ Links!Send(k, p.asked)
        /\ pages[k].status = "pending" /\ ~pages[k].busy
    BY <1>1, <2>1, <2>2 DEF Links!handleSubmit, Links!FormOffered, Links!SubmitEnabled
  <2>4. OnlyOf(k)
    BY <2>3, PageAsks
  <2>5. PICK c : /\ Requests(k)' = Requests(k) \cup {c}
                 /\ c.at = "sent" /\ c.password = p.asked
    BY <2>3, PageAsks
  <2>6. p.lost \/ Requests(k)' = {c}
    BY <1>v, <2>2, <2>3, <2>5 DEF ResetFits
  <2>7. ResetFits(p, Requests(k)')
    BY <2>2, <2>3, <2>5, <2>6 DEF ResetFits
  <2>8. QED
    BY <2>2, <2>3, <2>4, <2>7, OnePageMoves DEF Fits
<1>2. ASSUME NEW p, IsPage(p), p.kind = pages[k].kind, p.busy = pages[k].busy,
             p.asked = pages[k].asked, p.saved = pages[k].saved, p.lost = pages[k].lost,
             p.status \in {pages[k].status, "left"},
             pages' = [pages EXCEPT ![k] = p], UNCHANGED sent
      PROVE  PagesFit'
  <2>1. ResetFits(p, Requests(k))
    BY <1>v, <1>2 DEF ResetFits
  <2>2. QED
    BY <1>v, <1>2, <2>1, PageMovesAlone DEF Fits
<1>3. CASE Links!TimerFires(k)
  <2>1. PICK p : p = [pages[k] EXCEPT !.timer = FALSE, !.status = "left"]
    OBVIOUS
  <2>2. pages' = [pages EXCEPT ![k] = p] /\ UNCHANGED sent
    BY <1>3, <2>1 DEF Links!TimerFires
  <2>3. /\ IsPage(p) /\ p.kind = pages[k].kind /\ p.busy = pages[k].busy
        /\ p.asked = pages[k].asked /\ p.saved = pages[k].saved /\ p.lost = pages[k].lost
        /\ p.status = "left"
    BY <2>1, <1>p DEF IsPage, PageFields
  <2>4. QED
    BY <1>2, <2>2, <2>3
<1>4. CASE Links!LeaveReset(k)
  <2>1. PICK p : p = [pages[k] EXCEPT !.status = "left"]
    OBVIOUS
  <2>2. pages' = [pages EXCEPT ![k] = p] /\ UNCHANGED sent
    BY <1>4, <2>1 DEF Links!LeaveReset
  <2>3. /\ IsPage(p) /\ p.kind = pages[k].kind /\ p.busy = pages[k].busy
        /\ p.asked = pages[k].asked /\ p.saved = pages[k].saved /\ p.lost = pages[k].lost
        /\ p.status = "left"
    BY <2>1, <1>p DEF IsPage, PageFields
  <2>4. QED
    BY <1>2, <2>2, <2>3
<1>5. ASSUME NEW word, Links!TypePassword(k, word) PROVE PagesFit'
  <2>1. PICK p : p = [pages[k] EXCEPT !.password = word]
    OBVIOUS
  <2>2. pages' = [pages EXCEPT ![k] = p] /\ UNCHANGED sent
    BY <1>5, <2>1 DEF Links!TypePassword
  <2>3. /\ IsPage(p) /\ p.kind = pages[k].kind /\ p.busy = pages[k].busy
        /\ p.asked = pages[k].asked /\ p.saved = pages[k].saved /\ p.lost = pages[k].lost
        /\ p.status = pages[k].status
    BY <2>1, <1>p DEF IsPage, PageFields
  <2>4. QED
    BY <1>2, <2>2, <2>3
<1>6. ASSUME NEW word, Links!RetypePassword(k, word) PROVE PagesFit'
  <2>1. PICK p : p = [pages[k] EXCEPT !.reTypePassword = word]
    OBVIOUS
  <2>2. pages' = [pages EXCEPT ![k] = p] /\ UNCHANGED sent
    BY <1>6, <2>1 DEF Links!RetypePassword
  <2>3. /\ IsPage(p) /\ p.kind = pages[k].kind /\ p.busy = pages[k].busy
        /\ p.asked = pages[k].asked /\ p.saved = pages[k].saved /\ p.lost = pages[k].lost
        /\ p.status = pages[k].status
    BY <2>1, <1>p DEF IsPage, PageFields
  <2>4. QED
    BY <1>2, <2>2, <2>3
<1>7. QED
  BY <1>1, <1>3, <1>4, <1>5, <1>6

\* A request of a page that verifies is the only one of its page.
LEMMA VerifyingOnce ==
  ASSUME PagesFit, NEW c \in sent, pages[c.page].kind = "verify"
  PROVE  /\ c.page \in Links!Pages /\ IsRequest(c) /\ IsPage(pages[c.page])
         /\ VerifyFits(pages[c.page], Requests(c.page)) /\ Requests(c.page) = {c}
         /\ pages[c.page].ran /\ (c.at = "granted" <=> pages[c.page].made)
         /\ pages[c.page].status = "error" => pages[c.page].lost
<1>1. /\ c.page \in Links!Pages /\ IsRequest(c) /\ c \in Requests(c.page)
      /\ VerifyFits(pages[c.page], Requests(c.page)) /\ IsPage(pages[c.page])
  BY DEF PagesFit, Fits, Requests
<1>2. QED
  BY <1>1 DEF VerifyFits

\* Once its request is moved on, the page that verifies has to know what was granted.
LEMMA VerifyServed ==
  ASSUME PagesFit, NEW c \in sent, pages[c.page].kind = "verify",
         NEW at, NEW T, Yields(c, at, T),
         NEW p, IsPage(p), pages' = [pages EXCEPT ![c.page] = p],
         p.kind = "verify", p.status = pages[c.page].status, p.ran = pages[c.page].ran,
         p.timer = pages[c.page].timer, p.lost = pages[c.page].lost,
         pages[c.page].made => p.made, at = "granted" <=> p.made
  PROVE  PagesFit'
<1>1. Requests(c.page)' = T /\ OnlyOf(c.page)
  BY VerifyingOnce, RequestYields
<1>2. T = {} \/ \E z : T = {z} /\ z.at = at
  BY DEF Yields
<1>3. VerifyFits(p, T)
  BY <1>2, VerifyingOnce DEF VerifyFits
<1>4. QED
  BY <1>1, <1>3, VerifyingOnce, OnePageMoves DEF Fits

\* RegisterNewUser and what its page hears of it.
LEMMA VerifyRequests ==
  ASSUME PagesFit, NEW c \in sent,
         \/ Links!RegisterNewUser(c) \/ Links!RegisterNewUserSaves(c)
         \/ Links!VerifyAnswered(c) \/ Links!VerifyLost(c)
  PROVE  PagesFit'
<1> DEFINE k == c.page
<1>k. pages[k].kind = "verify"
  BY DEF Links!RegisterNewUser, Links!RegisterNewUserSaves, Links!VerifyAnswered,
    Links!VerifyLost, Links!Of
<1>v. /\ k \in Links!Pages /\ IsRequest(c) /\ IsPage(pages[k])
      /\ VerifyFits(pages[k], Requests(k)) /\ Requests(k) = {c}
      /\ pages[k].ran /\ (c.at = "granted" <=> pages[k].made)
      /\ pages[k].status = "error" => pages[k].lost
  BY <1>k, VerifyingOnce
<1>s. pages = [pages EXCEPT ![k] = pages[k]]
  BY DEF PagesFit, IsSeq
<1>1. ASSUME NEW at, at # "granted", ~pages[k].made, NEW row, Links!Becomes(c, at, row),
             UNCHANGED pages
      PROVE  PagesFit'
  <2>1. PICK T : Yields(c, at, T)
    BY <1>1, <1>v, BecomesYields
  <2>2. QED
    BY <1>1, <1>k, <1>v, <1>s, <2>1, VerifyServed
<1>2. CASE Links!RegisterNewUser(c)
  <2>1. c.at = "sent" /\ UNCHANGED pages
    BY <1>2 DEF Links!RegisterNewUser
  <2>2. \/ \E row : Links!Becomes(c, "read", row)
        \/ \E at \in {"refused", "failed"} : Links!Becomes(c, at, 0)
    BY <1>2 DEF Links!RegisterNewUser
  <2>3. QED
    BY <1>1, <1>v, <2>1, <2>2
<1>3. CASE Links!RegisterNewUserSaves(c)
  <2>1. CASE Links!Becomes(c, "failed", 0) /\ UNCHANGED pages
    BY <1>1, <1>v, <1>3, <2>1 DEF Links!RegisterNewUserSaves
  <2>2. CASE /\ Links!Becomes(c, "granted", c.row)
             /\ pages' = [pages EXCEPT ![c.page].made = TRUE]
    <3>1. PICK p : p = [pages[k] EXCEPT !.made = TRUE]
      OBVIOUS
    <3>2. /\ IsPage(p) /\ p.kind = "verify" /\ p.status = pages[k].status
          /\ p.ran = pages[k].ran /\ p.timer = pages[k].timer /\ p.lost = pages[k].lost
          /\ p.made
      BY <1>k, <1>v, <3>1 DEF IsPage, PageFields
    <3>3. pages' = [pages EXCEPT ![k] = p]
      BY <2>2, <3>1
    <3>4. PICK T : Yields(c, "granted", T)
      BY <2>2, <1>v, BecomesYields
    <3>5. QED
      BY <1>k, <3>2, <3>3, <3>4, VerifyServed
  <2>3. QED
    BY <1>3, <2>1, <2>2 DEF Links!RegisterNewUserSaves
<1>4. CASE Links!VerifyAnswered(c)
  <2>1. PICK w : w = IF pages[k].status = "left" THEN pages[k].status
                     ELSE IF c.at = "granted" THEN "success" ELSE "error"
    OBVIOUS
  <2>2. PICK p : p = [pages[k] EXCEPT !.status = w]
    OBVIOUS
  <2>3. /\ IsPage(p) /\ p.kind = "verify" /\ p.status = w /\ p.ran /\ p.made = pages[k].made
        /\ p.timer = pages[k].timer
    BY <1>k, <1>v, <2>2 DEF IsPage, PageFields
  <2>4. pages' = [pages EXCEPT ![k] = p] /\ Yields(c, c.at, {})
    BY <1>4, <2>1, <2>2 DEF Links!VerifyAnswered, Links!Answered, Yields
  <2>5. OnlyOf(k) /\ Requests(k)' = {}
    BY <1>v, <2>4, RequestYields
  <2>6. VerifyFits(p, {})
    BY <1>v, <2>1, <2>3 DEF VerifyFits
  <2>7. QED
    BY <1>v, <2>3, <2>4, <2>5, <2>6, OnePageMoves DEF Fits
<1>5. CASE Links!VerifyLost(c)
  <2>1. PICK w : w = IF pages[k].status = "left" THEN pages[k].status ELSE "error"
    OBVIOUS
  <2>2. PICK p : p = [pages[k] EXCEPT !.lost = TRUE, !.status = w]
    OBVIOUS
  <2>3. /\ IsPage(p) /\ p.kind = "verify" /\ p.status = w /\ p.ran /\ p.made = pages[k].made
        /\ p.timer = pages[k].timer /\ p.lost
    BY <1>k, <1>v, <2>2 DEF IsPage, PageFields
  <2>4. pages' = [pages EXCEPT ![k] = p]
    BY <1>5, <1>v, <2>1, <2>2 DEF Links!VerifyLost, IsPage, PageFields, PagesFit, IsSeq
  <2>5. \E T : Yields(c, c.at, T)
    BY <1>5, <1>v, LostYields DEF Links!VerifyLost
  <2>6. PICK T : Yields(c, c.at, T)
    BY <2>5
  <2>7. Requests(k)' = T /\ OnlyOf(k)
    BY <1>v, <2>6, RequestYields
  <2>8. T = {} \/ \E z : T = {z} /\ z.at = c.at
    BY <2>6 DEF Yields
  <2>9. VerifyFits(p, T)
    BY <1>v, <2>1, <2>3, <2>8 DEF VerifyFits
  <2>10. QED
    BY <1>v, <2>3, <2>4, <2>7, <2>9, OnePageMoves DEF Fits
<1>6. QED
  BY <1>2, <1>3, <1>4, <1>5

\* ResetPasswordAsync and what its page hears of it.
LEMMA ResetRequests ==
  ASSUME PagesFit, NEW c \in sent,
         Links!ResetPasswordAsync(c) \/ Links!ResetAnswered(c) \/ Links!ResetLost(c)
  PROVE  PagesFit'
<1> DEFINE k == c.page
<1>k. pages[k].kind # "verify"
  BY DEF Links!ResetPasswordAsync, Links!ResetAnswered, Links!ResetLost, Links!Of
<1>v. /\ k \in Links!Pages /\ IsRequest(c) /\ c \in Requests(k) /\ IsPage(pages[k])
      /\ ResetFits(pages[k], Requests(k))
  BY <1>k DEF PagesFit, Fits, Requests
<1>o. \/ pages[k].lost
      \/ /\ Requests(k) = {c} /\ pages[k].busy /\ c.password = pages[k].asked
         /\ c.at = "granted" => pages[k].saved = pages[k].asked
         /\ pages[k].status # "success"
  BY <1>v DEF ResetFits
<1>s. pages = [pages EXCEPT ![k] = pages[k]]
  BY DEF PagesFit, IsSeq
<1>1. ASSUME NEW at, NEW T, Yields(c, at, T),
             NEW p, IsPage(p), pages' = [pages EXCEPT ![k] = p],
             p.kind = pages[k].kind, p.status = pages[k].status, p.busy = pages[k].busy,
             p.asked = pages[k].asked, p.lost = pages[k].lost,
             at = "granted" => p.saved = c.password
      PROVE  PagesFit'
  <2>1. OnlyOf(k) /\ (Requests(k) = {c} => Requests(k)' = T)
    BY <1>1, RequestYields
  <2>2. T = {} \/ \E z : T = {z} /\ z.at = at /\ z.password = c.password
    BY <1>1 DEF Yields
  <2>3. ResetFits(p, Requests(k)')
    BY <1>1, <1>o, <2>1, <2>2 DEF ResetFits
  <2>4. QED
    BY <1>1, <1>k, <1>v, <2>1, <2>3, OnePageMoves DEF Fits
<1>2. CASE Links!ResetPasswordAsync(c)
  <2>1. CASE /\ pages' = [pages EXCEPT ![c.page].saved = c.password]
             /\ Links!Becomes(c, "granted", 0)
    <3>1. PICK p : p = [pages[k] EXCEPT !.saved = c.password]
      OBVIOUS
    <3>2. /\ IsPage(p) /\ p.kind = pages[k].kind /\ p.status = pages[k].status
          /\ p.busy = pages[k].busy /\ p.asked = pages[k].asked /\ p.lost = pages[k].lost
          /\ p.saved = c.password
      BY <1>v, <3>1 DEF IsPage, PageFields
    <3>3. pages' = [pages EXCEPT ![k] = p]
      BY <2>1, <3>1
    <3>4. PICK T : Yields(c, "granted", T)
      BY <2>1, <1>v, BecomesYields
    <3>5. QED
      BY <1>1, <3>2, <3>3, <3>4
  <2>2. ASSUME NEW at \in {"refused", "failed"}, Links!Becomes(c, at, 0), UNCHANGED pages
        PROVE  PagesFit'
    <3>1. PICK T : Yields(c, at, T)
      BY <2>2, <1>v, BecomesYields
    <3>2. QED
      BY <1>1, <1>s, <1>v, <2>2, <3>1
  <2>3. QED
    BY <1>2, <2>1, <2>2 DEF Links!ResetPasswordAsync
<1>3. CASE Links!ResetAnswered(c)
  <2>1. PICK w : w = IF c.at = "granted" /\ pages[k].status # "left" THEN "success"
                     ELSE pages[k].status
    OBVIOUS
  <2>2. PICK b \in BOOLEAN : b = (pages[k].timer \/ c.at = "granted")
    OBVIOUS
  <2>3. PICK p : p = [pages[k] EXCEPT !.busy = FALSE, !.timer = b, !.status = w]
    OBVIOUS
  <2>4. /\ IsPage(p) /\ p.kind = pages[k].kind /\ p.status = w /\ p.asked = pages[k].asked
        /\ p.saved = pages[k].saved /\ p.lost = pages[k].lost
    BY <1>v, <2>3 DEF IsPage, PageFields
  <2>5. pages' = [pages EXCEPT ![k] = p]
    BY <1>3, <1>v, <2>1, <2>2, <2>3 DEF Links!ResetAnswered, IsPage, PageFields, PagesFit,
      IsSeq
  <2>6. Yields(c, c.at, {})
    BY <1>3 DEF Links!ResetAnswered, Links!Answered, Yields
  <2>7. OnlyOf(k) /\ (Requests(k) = {c} => Requests(k)' = {})
    BY <2>6, RequestYields
  <2>8. ResetFits(p, Requests(k)')
    BY <1>o, <2>1, <2>4, <2>7 DEF ResetFits
  <2>9. QED
    BY <1>k, <1>v, <2>4, <2>5, <2>7, <2>8, OnePageMoves DEF Fits
<1>4. CASE Links!ResetLost(c)
  <2>1. PICK p : p = [pages[k] EXCEPT !.busy = FALSE, !.lost = TRUE]
    OBVIOUS
  <2>2. IsPage(p) /\ p.kind = pages[k].kind /\ p.lost
    BY <1>v, <2>1 DEF IsPage, PageFields
  <2>3. pages' = [pages EXCEPT ![k] = p]
    BY <1>4, <1>v, <2>1 DEF Links!ResetLost, IsPage, PageFields, PagesFit, IsSeq
  <2>4. \E T : Yields(c, c.at, T)
    BY <1>4, <1>v, LostYields DEF Links!ResetLost
  <2>5. OnlyOf(k)
    BY <2>4, RequestYields
  <2>6. ResetFits(p, Requests(k)')
    BY <2>2 DEF ResetFits
  <2>7. QED
    BY <1>k, <1>v, <2>2, <2>3, <2>5, <2>6, OnePageMoves DEF Fits
<1>5. QED
  BY <1>2, <1>3, <1>4

\* Opening a link adds a page that has asked for nothing.
LEMMA LinkOpened ==
  ASSUME PagesFit, NEW e, Links!OpenVerify(e) \/ Links!OpenReset(e)
  PROVE  PagesFit'
<1>1. PICK p : IsPage(p) /\ Fits(p, {}) /\ pages' = Append(pages, p)
  BY NewPageFits DEF Links!OpenVerify, Links!OpenReset
<1>2. UNCHANGED sent
  BY DEF Links!OpenVerify, Links!OpenReset
<1>3. PICK S : pages \in Seq(S)
  BY DEF PagesFit, IsSeq
<1>4. pages \in Seq(S \cup {p})
  BY <1>3
<1>5. /\ pages' \in Seq(S \cup {p}) /\ DOMAIN pages = 1 .. Len(pages) /\ Len(pages) \in Nat
      /\ DOMAIN pages' = 1 .. (Len(pages) + 1)
      /\ \A j \in 1 .. Len(pages) : pages'[j] = pages[j]
      /\ pages'[Len(pages) + 1] = p
  BY <1>1, <1>4, AppendProperties
<1>6. \A j : Requests(j)' = Requests(j)
  BY <1>2 DEF Requests
<1>7. Requests(Len(pages) + 1) = {}
  BY <1>5 DEF Requests, PagesFit, Links!Pages
<1>8. ASSUME NEW j \in 1 .. (Len(pages) + 1)
      PROVE  IsPage(pages'[j]) /\ Fits(pages'[j], Requests(j)')
  <2>1. CASE j = Len(pages) + 1
    BY <2>1, <1>1, <1>5, <1>6, <1>7
  <2>2. CASE j \in 1 .. Len(pages)
    BY <2>2, <1>5, <1>6 DEF PagesFit, Links!Pages
  <2>3. QED
    BY <1>5, <2>1, <2>2
<1>9. \A c \in sent' : IsRequest(c) /\ c.page \in DOMAIN pages'
  BY <1>2, <1>5 DEF PagesFit, Links!Pages
<1>10. QED
  BY <1>5, <1>8, <1>9 DEF PagesFit, IsSeq, Links!Pages

\* A registration gets its account in the step that ends its waiting, and no other step
\* gives or takes one.
LEMMA PeopleStep ==
  ASSUME PeopleFit, [Links!Next]_(Links!linkVars)
  PROVE  PeopleFit'
<1>1. ASSUME NEW r, NEW x, people' = [people EXCEPT ![r] = x],
             r \in Links!Registrations => IsPerson(x)
      PROVE  PeopleFit'
  BY <1>1 DEF PeopleFit
<1>2. ASSUME NEW r \in Links!Registrations, people[r].stage # "account",
             NEW stage, stage # "account", people' = [people EXCEPT ![r].stage = stage]
      PROVE  PeopleFit'
  <2>1. PICK x : x = [people[r] EXCEPT !.stage = stage]
    OBVIOUS
  <2>2. IsPerson(x)
    BY <1>2, <2>1 DEF PeopleFit, IsPerson
  <2>3. people' = [people EXCEPT ![r] = x]
    BY <1>2, <2>1
  <2>4. QED
    BY <1>1, <2>2, <2>3
<1>3. ASSUME NEW r \in Links!Registrations, Links!RegisterReads(r) \/ Links!RegisterSaves(r)
      PROVE  PeopleFit'
  BY <1>2, <1>3 DEF Links!RegisterReads, Links!RegisterSaves
<1>4. ASSUME NEW c, Links!RegisterNewUserSaves(c)
      PROVE  PeopleFit'
  <2>1. CASE UNCHANGED people
    BY <2>1 DEF PeopleFit
  <2>2. CASE /\ Links!StillWaits(c.row)
             /\ people' = [people EXCEPT ![c.row] =
                             [stage |-> "account", accounts |-> @.accounts + 1]]
    <3>1. PICK x : x = [stage |-> "account", accounts |-> people[c.row].accounts + 1]
      OBVIOUS
    <3>2. c.row \in Links!Registrations => IsPerson(x)
      BY <2>2, <3>1 DEF PeopleFit, IsPerson, Links!StillWaits
    <3>3. people' = [people EXCEPT ![c.row] = x]
      BY <2>2, <3>1
    <3>4. QED
      BY <1>1, <3>2, <3>3
  <2>3. QED
    BY <1>4, <2>1, <2>2 DEF Links!RegisterNewUserSaves
<1>5. CASE UNCHANGED people
  BY <1>5 DEF PeopleFit
<1>6. \/ UNCHANGED people
      \/ \E r \in Links!Registrations : Links!RegisterReads(r) \/ Links!RegisterSaves(r)
      \/ \E c : Links!RegisterNewUserSaves(c)
  BY DEF Links!Next, Links!linkVars, Links!ForgotPassword, Links!OpenVerify, Links!OpenReset,
    Links!VerifyEffect, Links!LeaveVerify, Links!handleSubmit, Links!TimerFires,
    Links!LeaveReset, Links!TypePassword, Links!RetypePassword, Links!RegisterNewUser,
    Links!VerifyAnswered, Links!VerifyLost, Links!ResetPasswordAsync, Links!ResetAnswered,
    Links!ResetLost
<1>7. QED
  BY <1>3, <1>4, <1>5, <1>6

\* Every step of the links keeps pages and requests fitting.
LEMMA PagesStep ==
  ASSUME PagesFit, [Links!Next]_(Links!linkVars)
  PROVE  PagesFit'
<1>1. CASE UNCHANGED <<pages, sent>>
  BY <1>1 DEF PagesFit, Requests, Links!Pages
<1>2. \/ UNCHANGED <<pages, sent>>
      \/ \E e : Links!OpenVerify(e) \/ Links!OpenReset(e)
      \/ \E k \in Links!Pages :
           \/ Links!VerifyEffect(k) \/ Links!LeaveVerify(k)
           \/ Links!handleSubmit(k) \/ Links!TimerFires(k) \/ Links!LeaveReset(k)
           \/ \E word : Links!TypePassword(k, word) \/ Links!RetypePassword(k, word)
      \/ \E c \in sent :
           \/ Links!RegisterNewUser(c) \/ Links!RegisterNewUserSaves(c)
           \/ Links!VerifyAnswered(c) \/ Links!VerifyLost(c)
           \/ Links!ResetPasswordAsync(c) \/ Links!ResetAnswered(c) \/ Links!ResetLost(c)
  BY DEF Links!Next, Links!linkVars, Links!RegisterReads, Links!RegisterSaves,
    Links!ForgotPassword
<1>3. QED
  BY <1>1, <1>2, LinkOpened, VerifySteps, ResetSteps, VerifyRequests, ResetRequests

\* The links begin so.
LEMMA LinksBegin ==
  Links!Init => LinksInv
<1> SUFFICES ASSUME Links!Init PROVE LinksInv
  OBVIOUS
<1>1. PeopleFit
  BY DEF Links!Init, PeopleFit, IsPerson
<1>2. PagesFit
  BY EmptySeq DEF Links!Init, PagesFit, IsSeq, Links!Pages
<1>3. QED
  BY <1>1, <1>2 DEF LinksInv

\* Every step of the links keeps it so.
LEMMA LinksStep ==
  LinksInv /\ [Links!Next]_(Links!linkVars) => LinksInv'
BY PeopleStep, PagesStep DEF LinksInv

\* So what the pages announce is what the server has done.
LEMMA LinksTell ==
  LinksInv => Links!LinkVerdicts
<1> SUFFICES ASSUME LinksInv PROVE Links!LinkVerdicts
  OBVIOUS
<1>1. \A r \in Links!Registrations : people[r].accounts <= 1
  BY DEF LinksInv, PeopleFit, IsPerson
<1>2. Links!VerifiedOnce
  BY <1>1 DEF LinksInv, PagesFit, Fits, VerifyFits, Links!VerifiedOnce
<1>3. Links!ResetAnnounced
  BY DEF LinksInv, PagesFit, Fits, ResetFits, Requests, Links!ResetAnnounced
<1>4. QED
  BY <1>2, <1>3 DEF Links!LinkVerdicts

-----------------------------------------------------------------------------
(* The client: the page of the behaviour keeps its own invariant.          *)

ClientInv ==
  /\ part = "roles" => RolesInv
  /\ part = "applications" => AppInv
  /\ part = "files" => PreviewInv /\ DataInv
  /\ part = "requests" => DialogInv /\ DialogShape
  /\ part = "bell" => BellInv
  /\ part = "links" => LinksInv

\* The page of the behaviour begins as its module says.
LEMMA ClientBegins ==
  ASSUME Init
  PROVE  /\ part = "roles" => Roles!Init
         /\ part = "applications" => Applications!Init
         /\ part = "files" => FileSelection!Init
         /\ part = "requests" => RequestsPage!Init
         /\ part = "bell" => Bell!Init
         /\ part = "links" => Links!Init
BY DEF Init

\* A step of the client is one of its page, or changes nothing of it.
LEMMA ClientMoves ==
  ASSUME [Next]_vars
  PROVE  /\ part' = part
         /\ part = "roles" => [Roles!Next]_(Roles!roleVars)
         /\ part = "applications" => [Applications!Next]_(Applications!applicationVars)
         /\ part = "files" => [FileSelection!Next]_(FileSelection!vars)
         /\ part = "requests" => [RequestsPage!Next]_(RequestsPage!requestVars)
         /\ part = "bell" => [Bell!Next]_(Bell!bellVars)
         /\ part = "links" => [Links!Next]_(Links!linkVars)
<1>1. CASE Next
  BY <1>1 DEF Next, RolesNext, ApplicationsNext, SessionNext, FilesNext, ConnectionNext,
    RequestsNext, BellNext, LinksNext
<1>2. CASE UNCHANGED vars
  <2>1. UNCHANGED <<part, roles, test, shared, listOwn>>
    BY <1>2 DEF vars
  <2>2. UNCHANGED <<shared, filesOwn, requestOwn, bellOwn, linksOwn>>
    BY <1>2 DEF vars
  <2>3. UNCHANGED Roles!roleVars /\ UNCHANGED Applications!applicationVars
    BY <2>1 DEF shared, listOwn, Roles!roleVars, Applications!applicationVars,
      Applications!listVars
  <2>4. UNCHANGED FileSelection!vars /\ UNCHANGED RequestsPage!requestVars
    BY <2>2 DEF shared, filesOwn, requestOwn, FileSelection!vars, FileSelection!data,
      FileSelection!preview, FileSelection!drag, RequestsPage!requestVars
  <2>5. UNCHANGED Bell!bellVars /\ UNCHANGED Links!linkVars
    BY <2>2 DEF bellOwn, linksOwn, Bell!bellVars, Links!linkVars
  <2>6. QED
    BY <2>1, <2>3, <2>4, <2>5
<1>3. QED
  BY <1>1, <1>2

\* So the invariant of the page holds in every state.
LEMMA ClientHolds == Spec => []ClientInv
<1>1. Init => ClientInv
  BY InstanceAssumption, ClientBegins, RolesBegin, ApplicationsBegin, PreviewBegins,
    DataBegins, RequestsBegin, BellBegins, LinksBegin DEF ClientInv
<1>2. ClientInv /\ [Next]_vars => ClientInv'
  <2> SUFFICES ASSUME ClientInv, [Next]_vars PROVE ClientInv'
    OBVIOUS
  <2>1. CASE part = "roles"
    BY <2>1, InstanceAssumption, ClientMoves, RolesStep DEF ClientInv
  <2>2. CASE part = "applications"
    BY <2>2, ClientMoves, ApplicationsStep DEF ClientInv
  <2>3. CASE part = "files"
    BY <2>3, InstanceAssumption, ClientMoves, PreviewStep, DataStep DEF ClientInv
  <2>4. CASE part = "requests"
    BY <2>4, ClientMoves, RequestsStep DEF ClientInv
  <2>5. CASE part = "bell"
    BY <2>5, InstanceAssumption, ClientMoves, BellStep DEF ClientInv
  <2>6. CASE part = "links"
    BY <2>6, ClientMoves, LinksStep DEF ClientInv
  <2>7. QED
    BY <2>1, <2>2, <2>3, <2>4, <2>5, <2>6, ClientMoves DEF ClientInv
<1>3. QED
  BY <1>1, <1>2, PTL DEF Spec

\* The page of roles creates a name once: every row of a name beyond the first is owed to
\* a request that was lost, or a page that was left, while the server went on, although
\* the server looks for the name and adds the row in two steps and nothing keeps the form
\* from being closed and opened meanwhile; for any names and any number of creations.
THEOREM RoleMadeOnce == Spec => []RoleOnce
<1>1. ClientInv => RoleOnce
  BY InstanceAssumption, RolesOwed DEF ClientInv, RoleOnce
<1>2. QED
  BY <1>1, ClientHolds, PTL

\* A form of roles or of applications is saved once at a time: no sequence of closing it,
\* opening it again, submitting and losing requests sends a second save.
THEOREM SavedOnce == Spec => []OneSave
<1>1. ClientInv => OneSave
  BY RolesSave, ApplicationsSave DEF ClientInv, OneSave
<1>2. QED
  BY <1>1, ClientHolds, PTL

\* With no fault the page of applications does not stay loading, whichever loads overlap.
THEOREM LoadingIsOver == Spec => []LoadingEnds
<1>1. ClientInv => LoadingEnds
  BY ApplicationsLoad DEF ClientInv, LoadingEnds
<1>2. QED
  BY <1>1, ClientHolds, PTL

\* The preview shows a page that exists while files are added by overlapping calls, pages
\* are turned and their size changes, for any files and any number of rows and calls.
THEOREM PreviewOnPage == Spec => []PreviewPageExists
<1>1. ClientInv => PreviewPageExists
  BY PreviewShows DEF ClientInv, PreviewPageExists
<1>2. QED
  BY <1>1, ClientHolds, PTL

\* The rows to be migrated are those of the parsed files, once each, and every parsed file
\* is listed, although each file is parsed at an await of its own and the rows are put
\* together anew when one is removed: for any files and any number of rows, calls and
\* removals, as long as no call met a change of the data it had read.
THEOREM DataFollowsFiles == Spec => []DataMatchesFiles
<1>1. ClientInv => DataMatchesFiles
  BY DataMatches DEF ClientInv, DataMatchesFiles
<1>2. QED
  BY <1>1, ClientHolds, PTL

\* A submission that the page of access requests allows is sent, whichever way the dialog
\* was left and opened again or closed by an earlier submission, for any number of them.
THEOREM SubmissionsAreSent == Spec => []SubmitSends
<1>1. ClientInv => SubmitSends
  BY RequestsSent DEF ClientInv, SubmitSends
<1>2. QED
  BY <1>1, ClientHolds, PTL

\* A migration whose end was dismissed in the bell is not announced as ended again, whatever
\* is reported, read, reloaded or left meanwhile, for any number of jobs.
THEOREM DismissedForGood == Spec => []DismissedStaysGone
<1>1. ClientInv => DismissedStaysGone
  BY BellDismisses DEF ClientInv, DismissedStaysGone
<1>2. QED
  BY <1>1, ClientHolds, PTL

\* A link makes one account of a registration at most, and what the pages behind the links
\* announce is what the server has done, for any registrations, pages, passwords and requests.
THEOREM LinksTellTheTruth == Spec => []LinkVerdicts
<1>1. ClientInv => LinkVerdicts
  BY LinksTell DEF ClientInv, LinkVerdicts
<1>2. QED
  BY <1>1, ClientHolds, PTL
=============================================================================
