----------------------------- MODULE Applications -----------------------------
(***************************************************************************)
(* The page of applications: its list stays on display while it loads, all *)
(* applications are fetched only once a filter needs them, the form is     *)
(* guarded against a second submission, and a connection can be tested     *)
(* from the form or the list, with a result that a timer takes away.       *)
(***************************************************************************)
EXTENDS PagedList

VARIABLE test    \* the connection test: under way, result shown, timers set

applicationVars == <<listVars, test>>

-----------------------------------------------------------------------------
\* calculatePaginationData.

currentApplications ==
  IF Filtered
  THEN ToSet(Slice(IF filter.oldest THEN Oldest(Matches) ELSE Newest(Matches),
                   list.page, list.size))
  ELSE ToSet(list.data.rows)

displayTotalCount ==
  IF Filtered THEN Cardinality(Matches)
  ELSE IF list.data.rows = <<>> THEN 0 ELSE list.data.count
displayTotalPages ==
  Pages(displayTotalCount, IF Filtered THEN list.size ELSE list.data.size)

Cards       == IF Covered THEN {} ELSE currentApplications
PagingShown == ~Covered /\ (displayTotalCount > PagingAbove \/ filter.oldest)

-----------------------------------------------------------------------------
\* The loads.

fetchAllApplications == Call("all", 1, AllSize, 0)

Init ==
  /\ ListInit
  /\ list = [data |-> NoData, page |-> 1, size |-> FirstSize, all |-> {},
             loading |-> TRUE]
  /\ test = [busy |-> FALSE, shown |-> FALSE, timers |-> 0]
  /\ calls = [k \in Slots |->
                IF k = 1 THEN Call("fetch", 1, FirstSize, 0) ELSE Idle]

\* A function that had a filter set when it was called fetches all at its end.
ThenAll(k) ==
  IF calls[k].wide THEN Continue(k, fetchAllApplications) ELSE End(k)

OnlyList == UNCHANGED <<items, born, filter, form, dialog, faults, test>>

FetchAnswered(k) ==
  /\ Arrived(k, {"fetch"})
  /\ list' = IF Reply(k).ok
             THEN [list EXCEPT !.data = Reply(k), !.page = Reply(k).page,
                               !.size = Reply(k).size, !.loading = FALSE]
             ELSE [list EXCEPT !.loading = FALSE]
  /\ ThenAll(k) /\ OnlyList

AllAnswered(k) ==
  /\ Arrived(k, {"all"})
  /\ list' = IF Reply(k).ok THEN [list EXCEPT !.all = ToSet(Reply(k).rows)]
             ELSE list
  /\ End(k) /\ OnlyList

\* Mutant: nothing is fetched when the page is gone.
FetchNothing(k, pages) == ThenAll(k)

\* The page is past the last one: the last one is fetched instead.
FetchLast(k, pages) ==
  Continue(k, [Call("fetch", pages, calls[k].size, 0) EXCEPT
                 !.wide = calls[k].wide])

\* refetchApplications: rows and counts are taken over, the page number is
\* not; without a usable answer the page goes on loading.
refetchApplications(k) ==
  /\ Arrived(k, {"probe"})
  /\ LET answer == Reply(k)
         pages  == Pages(answer.count, answer.size)
     IN  CASE ~answer.ok -> UNCHANGED list /\ ThenAll(k)
           [] answer.ok /\ answer.count = 0 ->
                /\ list' = [list EXCEPT !.data = answer, !.page = 1,
                                        !.all = {}, !.loading = FALSE]
                /\ ThenAll(k)
           [] answer.ok /\ answer.count # 0 /\ calls[k].page > pages ->
                /\ list' = [list EXCEPT !.loading = TRUE]
                /\ FetchLast(k, pages)
           [] OTHER ->
                /\ list' = [list EXCEPT !.data = answer, !.loading = FALSE]
                /\ ThenAll(k)
  /\ OnlyList

-----------------------------------------------------------------------------
\* Filters and paging.  Search, kind and authentication are one filter.

\* The effect that follows a change of the filters; a change of the order
\* makes the same request a second time, which is left out.
Effect(filtered) ==
  IF filtered /\ list.all = {} THEN Start(fetchAllApplications) ELSE NoCalls

SetFilter(on) ==
  /\ ~Covered /\ filter.search # on
  /\ filter' = [filter EXCEPT !.search = on]
  /\ list' = [list EXCEPT !.page = 1]
  /\ Effect(on \/ filter.oldest)
  /\ UNCHANGED <<items, born, form, dialog, faults, test>>

SetSortOrder(oldest) ==
  /\ ~Covered /\ filter.oldest # oldest
  /\ filter' = [filter EXCEPT !.oldest = oldest]
  /\ list' = [list EXCEPT !.page = 1]
  /\ Effect(oldest \/ filter.search)
  /\ UNCHANGED <<items, born, form, dialog, faults, test>>

Turn(page, size) ==
  /\ IF Filtered
     THEN /\ list' = [list EXCEPT !.page = page, !.size = size]
          /\ NoCalls
     ELSE /\ list' = [list EXCEPT !.page = page, !.size = size,
                                  !.loading = TRUE]
          /\ Start(Call("fetch", page, size, 0))
  /\ OnlyList

ChoosePageSize(size) == PagingShown /\ size # list.size /\ Turn(1, size)

ClickPage(page) ==
  /\ PagingShown /\ page \in PageLinks(list.page, displayTotalPages)
  /\ Turn(page, list.size)

-----------------------------------------------------------------------------
\* The form (its fields are in ConnectionForm).

OnlyForm == UNCHANGED <<items, born, list, filter, dialog, faults, test>>

AddApplication ==
  /\ ~Covered /\ form' = [NoForm EXCEPT !.open = TRUE, !.busy = form.busy]
  /\ NoCalls /\ OnlyForm

EditApplication(id) ==
  /\ id \in Cards
  /\ form' = [form EXCEPT !.open = TRUE, !.editing = id]
  /\ NoCalls /\ OnlyForm

\* Escape and the cross both close the form and reset it.
CloseForm ==
  /\ form.open /\ form' = [NoForm EXCEPT !.busy = form.busy]
  /\ NoCalls /\ OnlyForm

\* The button is hidden once the form is saved and while a test runs.
SubmitShown == form.open /\ ~form.done /\ ~test.busy
SubmitEnabled == SubmitShown /\ ~form.busy

handleApplicationSubmit ==
  /\ SubmitEnabled
  /\ form' = [form EXCEPT !.busy = TRUE]
  /\ Start([Call("save", list.page, list.size, form.editing) EXCEPT
              !.wide = Filtered])
  /\ OnlyForm

SaveAnswered(k) ==
  /\ Arrived(k, {"save"})
  /\ LET call == calls[k]
         page == IF call.id # 0 THEN call.page ELSE 1
     IN  /\ form' = [form EXCEPT !.busy = FALSE, !.done = @ \/ Reply(k).ok]
         /\ IF Reply(k).ok
            THEN /\ list' = [list EXCEPT !.loading = TRUE]
                 /\ Continue(k, [Call("fetch", page, call.size, 0) EXCEPT
                                   !.wide = call.wide /\ call.id = 0])
            ELSE End(k) /\ UNCHANGED list
  /\ UNCHANGED <<items, born, filter, dialog, faults, test>>

-----------------------------------------------------------------------------
\* The connection test.

OnlyTest == UNCHANGED <<items, born, list, filter, form, dialog, faults>>

testConnection ==
  /\ ~test.busy
  /\ \/ Cards # {}
     \/ form.open /\ ~form.done /\ ~form.busy
  /\ test' = [test EXCEPT !.busy = TRUE]
  /\ Start(Call("test", 0, 0, 0))
  /\ OnlyTest

ServeTest(k) ==
  /\ Waiting(k) /\ calls[k].fn = "test"
  /\ Serve(k, Granted) /\ UNCHANGED test /\ OnlyTest

Tested == [busy |-> FALSE, shown |-> TRUE, timers |-> test.timers + 1]

TestAnswered(k) ==
  /\ Arrived(k, {"test"})
  /\ test' = Tested /\ End(k) /\ OnlyTest

\* A timer takes away whatever result is there; the cross stops no timer.
TimerFires ==
  /\ test.timers > 0
  /\ test' = [test EXCEPT !.shown = FALSE, !.timers = @ - 1]
  /\ NoCalls /\ OnlyTest

CloseResult ==
  /\ test.shown /\ test' = [test EXCEPT !.shown = FALSE]
  /\ NoCalls /\ OnlyTest

-----------------------------------------------------------------------------
\* Deletion.

OnlyDialog == UNCHANGED <<items, born, list, filter, form, faults, test>>

confirmDeleteApplication(id) ==
  /\ id \in Cards
  /\ dialog' = [dialog EXCEPT !.id = id]
  /\ NoCalls /\ OnlyDialog

deleteApplication ==
  /\ dialog.id # 0 /\ ~dialog.done
  /\ Start([Call("delete", list.page, list.size, dialog.id) EXCEPT
              !.wide = Filtered])
  /\ UNCHANGED dialog /\ OnlyDialog

DeleteAnswered(k) ==
  /\ Arrived(k, {"delete"})
  /\ IF Reply(k).ok
     THEN /\ dialog' = [dialog EXCEPT !.done = TRUE]
          /\ list' = [list EXCEPT !.loading = TRUE]
          /\ Continue(k, [calls[k] EXCEPT !.fn = "probe", !.id = 0,
                                          !.got = <<>>])
     ELSE End(k) /\ UNCHANGED <<dialog, list>>
  /\ UNCHANGED <<items, born, filter, form, faults, test>>

CancelDelete ==
  /\ dialog.id # 0 /\ ~dialog.done
  /\ dialog' = [dialog EXCEPT !.id = 0]
  /\ NoCalls /\ OnlyDialog

CloseDialog ==
  /\ dialog.id # 0 /\ dialog' = NoDialog
  /\ NoCalls /\ OnlyDialog

-----------------------------------------------------------------------------
\* A lost request: the catch and finally clauses run.
Lost(k) ==
  /\ calls[k] # Idle /\ faults < MaxFaults
  /\ LET fn == calls[k].fn
     IN  /\ list' = IF fn \in {"fetch", "probe"}
                    THEN [list EXCEPT !.loading = FALSE] ELSE list
         /\ form' = IF fn = "save" THEN [form EXCEPT !.busy = FALSE] ELSE form
         /\ test' = IF fn = "test" THEN Tested ELSE test
         /\ IF fn = "fetch" THEN ThenAll(k) ELSE End(k)
  /\ faults' = faults + 1
  /\ UNCHANGED <<items, born, filter, dialog>>

Next ==
  \/ \E k \in Slots :
       \/ FetchAnswered(k) \/ AllAnswered(k) \/ refetchApplications(k)
       \/ SaveAnswered(k) \/ DeleteAnswered(k) \/ ServeTest(k)
       \/ TestAnswered(k) \/ Lost(k)
       \/ /\ ServeRead(k) \/ ServeRefusal(k) \/ ServeSave(k) \/ ServeDelete(k)
          /\ UNCHANGED test
  \/ \E on \in BOOLEAN : SetFilter(on) \/ SetSortOrder(on)
  \/ \E size \in PageSizes : ChoosePageSize(size)
  \/ \E page \in 0 .. MaxId : ClickPage(page)
  \/ \E id \in 1 .. MaxId : EditApplication(id) \/ confirmDeleteApplication(id)
  \/ AddApplication \/ CloseForm \/ handleApplicationSubmit
  \/ testConnection \/ TimerFires \/ CloseResult
  \/ deleteApplication \/ CancelDelete \/ CloseDialog

Spec == Init /\ [][Next]_applicationVars

-----------------------------------------------------------------------------

\* The form is busy exactly while its one save is under way: no sequence of
\* closing, reopening and submitting sends a second one.
OneSave ==
  Cardinality({k \in Slots : calls[k].fn = "save"}) = IF form.busy THEN 1 ELSE 0

\* When nothing is under way and nothing was refused or lost, the page no
\* longer says that it is loading.
LoadingEnds == Quiet /\ faults = 0 => ~list.loading
=============================================================================
