------------------------------ MODULE PagedList ------------------------------
(***************************************************************************)
(* The list of applications between the server that keeps it and the page  *)
(* that shows one page of it: the server's answers, the requests in        *)
(* flight, the state of list, filter, form and deletion dialog.  An        *)
(* asynchronous function of the page holds a slot from its first request   *)
(* to its last; a request is served (the server reads or writes) in one    *)
(* step and its answer applied in another.                                 *)
(* Items are numbered by creation, so the newest has the highest number.   *)
(***************************************************************************)
EXTENDS Naturals, Sequences, FiniteSets, SequencesExt

CONSTANTS MaxId,            \* bound: items ever created
          InitialItems,     \* how many there are at first
          PageSizes,        \* the sizes the page offers ...
          FirstSize,        \* ... and the one it starts with
          PagingAbove,      \* paging is offered for more items than this
          MaxPageSize,      \* the server's largest page ...
          DefaultPageSize,  \* ... and its answer to a larger request
          AllSize,          \* the size a client asks to get all
          Term,             \* the items a search term matches
          MaxInFlight,      \* bound: functions running at once ...
          MaxStarts,        \* ... and functions a user starts
          MaxFaults         \* bound: refused and lost requests

\* What every instance has to satisfy.
PagedListAssumption ==
  /\ {MaxId, InitialItems, PagingAbove, AllSize, MaxStarts,
      MaxFaults} \subseteq Nat
  /\ PageSizes \subseteq 1 .. MaxPageSize
  /\ FirstSize \in PageSizes
  /\ DefaultPageSize \in 1 .. MaxPageSize
  /\ InitialItems <= MaxId
  /\ MaxInFlight \in Nat \ {0, 1}

VARIABLES
  items,     \* the server: what exists
  born,      \* the server: how many were ever created
  list,      \* the page: data on display, page, size, all, loading
  filter,    \* the page: search and order
  form,      \* the page: the form, whom it edits, busy, done
  dialog,    \* the page: the deletion dialog
  calls,     \* the functions running, by slot
  starts,    \* how many the user started
  faults     \* how many requests were refused or lost

listVars == <<items, born, list, filter, form, dialog, calls, starts,
              faults>>

-----------------------------------------------------------------------------
\* The server.

Newest(S) == SetToSortSeq(S, LAMBDA a, b : a > b)
Oldest(S) == SetToSortSeq(S, LAMBDA a, b : a < b)
Pages(count, size) == (count + size - 1) \div size
Least(a, b) == IF a < b THEN a ELSE b
Slice(s, page, size) ==
  IF page < 1 THEN <<>>
  ELSE SubSeq(s, (page - 1) * size + 1, Least(page * size, Len(s)))

ValidPage(page) == IF page < 1 THEN 1 ELSE page
ValidSize(size) == IF size \in 1 .. MaxPageSize THEN size ELSE DefaultPageSize

Answer(page, size) ==
  [ok |-> TRUE, rows |-> Slice(Newest(items), ValidPage(page), ValidSize(size)),
   page |-> ValidPage(page), size |-> ValidSize(size),
   count |-> Cardinality(items)]

NoData  == [ok |-> TRUE, rows |-> <<>>, page |-> 1, size |-> FirstSize,
            count |-> 0]
Granted == NoData
Refusal == [NoData EXCEPT !.ok = FALSE]

-----------------------------------------------------------------------------
\* The requests in flight.

Slots == 1 .. MaxInFlight
Call(fn, page, size, id) ==
  [fn |-> fn, page |-> page, size |-> size, id |-> id, got |-> <<>>,
   wide |-> FALSE]
Idle  == Call("idle", 0, 0, 0)
Free  == {k \in Slots : calls[k] = Idle}
Quiet == Free = Slots
NewSlot == CHOOSE k \in Free : TRUE

\* "wide": a filter was set when the function was called.  A function starts
\* in a free slot, goes on to its next request in the slot it has, or ends.
Start(call) == /\ Free # {} /\ starts < MaxStarts
               /\ calls' = [calls EXCEPT ![NewSlot] = call]
               /\ starts' = starts + 1
Continue(k, call) == /\ calls' = [calls EXCEPT ![k] = call]
                     /\ UNCHANGED starts
End(k)  == calls' = [calls EXCEPT ![k] = Idle] /\ UNCHANGED starts
NoCalls == UNCHANGED <<calls, starts>>

Reads == {"fetch", "probe", "all"}
Waiting(k)   == calls[k] # Idle /\ calls[k].got = <<>>
Arrived(k, fns) == calls[k].fn \in fns /\ calls[k].got # <<>>
Reply(k)     == calls[k].got[1]
Serve(k, answer) == /\ calls' = [calls EXCEPT ![k].got = <<answer>>]
                    /\ UNCHANGED starts

ServeRead(k) ==
  /\ Waiting(k) /\ calls[k].fn \in Reads
  /\ Serve(k, Answer(calls[k].page, calls[k].size))
  /\ UNCHANGED <<items, born, list, filter, form, dialog, faults>>

\* The server refuses what was asked, or an error keeps it from answering.
ServeRefusal(k) ==
  /\ Waiting(k) /\ faults < MaxFaults
  /\ Serve(k, Refusal)
  /\ faults' = faults + 1
  /\ UNCHANGED <<items, born, list, filter, form, dialog>>

ServeDelete(k) ==
  /\ Waiting(k) /\ calls[k].fn = "delete"
  /\ IF calls[k].id \in items
     THEN Serve(k, Granted) /\ items' = items \ {calls[k].id}
     ELSE Serve(k, Refusal) /\ UNCHANGED items
  /\ UNCHANGED <<born, list, filter, form, dialog, faults>>

ServeSave(k) ==
  /\ Waiting(k) /\ calls[k].fn = "save"
  /\ LET id == calls[k].id
     IN  \/ /\ id \in items
            /\ Serve(k, Granted) /\ UNCHANGED <<items, born>>
         \/ /\ id = 0 /\ born < MaxId
            /\ Serve(k, Granted)
            /\ items' = items \cup {born + 1} /\ born' = born + 1
         \/ /\ id \notin items /\ (id = 0 => born = MaxId)
            /\ Serve(k, Refusal) /\ UNCHANGED <<items, born>>
  /\ UNCHANGED <<list, filter, form, dialog, faults>>

-----------------------------------------------------------------------------
\* The pages a row of page buttons leads to from a page (bound: up to MaxId).
PageLinks(page, pages) ==
  LET first == IF pages <= 5 \/ page <= 3 THEN 1
               ELSE Least(page - 2, pages - 4)
      next  == IF page = pages THEN {} ELSE {page + 1, pages}
      prev  == IF page = 1 THEN {} ELSE {1, page - 1}
      near  == first .. (first + Least(5, pages) - 1)
  IN  (prev \cup next \cup near) \cap 0 .. MaxId

NoFilter == [search |-> FALSE, oldest |-> FALSE]
Filtered == filter.search \/ filter.oldest
Matches  == {id \in list.all : filter.search => id \in Term}

NoForm   == [open |-> FALSE, editing |-> 0, busy |-> FALSE, done |-> FALSE]
NoDialog == [id |-> 0, done |-> FALSE]

\* The form and the dialog cover the page.
Covered == form.open \/ dialog.id # 0

ListInit ==
  /\ items = 1 .. InitialItems /\ born = InitialItems
  /\ filter = NoFilter
  /\ form = NoForm /\ dialog = NoDialog
  /\ faults = 0 /\ starts = 0
=============================================================================
