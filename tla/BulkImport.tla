------------------------------ MODULE BulkImport ------------------------------
(***************************************************************************)
(* The import of an uploaded file into the database: BulkDataProcessing-   *)
(* Service with BulkValidationService and the table mappers, as the three  *)
(* working upload paths call it.                                           *)
(*   queued    one file of a FileQueueService job, in a scope of its own   *)
(*   progress  BulkUploadProgressController, one file per request          *)
(*   multiple  BulkUploadMultipleController, several files in turn, all in *)
(*             the request's one SentinelContext                           *)
(*                                                                         *)
(* The import validates against what is committed, adds its rows to the    *)
(* change tracker of the context inside a transaction that writes nothing, *)
(* commits that transaction, and only then saves: the SaveChanges of the   *)
(* history row is what writes the rows.  Each SaveChanges writes all that  *)
(* the context tracks, or nothing, and forgets it only when it succeeds.   *)
(***************************************************************************)
EXTENDS Naturals, Sequences, FiniteSets, JobCancellation

CONSTANTS Paths,      \* the upload paths clients use
          Tables,     \* the tables files are for
          BatchTables,\* those whose mapper validates a file with one query
          Keys,       \* user names, or (user, application) pairs
          Files,      \* the files a client may send: [table, rows]
          MaxFiles,   \* files in one request on the "multiple" path
          MaxFaults   \* database errors while committing or saving

(***************************************************************************)
(* What is in a row: well formed; malformed, which validation finds; or    *)
(* unlinked, an assignment to an application without a connection, which   *)
(* validation accepts and SaveRowAsync refuses.                            *)
(***************************************************************************)
Row == [key : Keys, form : {"ok", "malformed", "unlinked"}]
FileType == [table : Tables, rows : Seq(Row)]

ASSUME BulkImportAssumption ==
  /\ JobIds = Uploads
  /\ Paths \subseteq {"queued", "progress", "multiple"}
  /\ BatchTables \subseteq Tables
  /\ Files \subseteq FileType
  /\ MaxFiles \in Nat \ {0}
  /\ MaxFaults \in Nat

\* A row of a data table, and the file and line it came from.
Record == [table : Tables, key : Keys, upload : Uploads, file : 1 .. MaxFiles, line : Nat]
History == [upload : Uploads, file : 1 .. MaxFiles, processed : Nat]

VARIABLES rows,      \* the data tables
          histories, \* BulkUploadHistories
          tracked,   \* what the context of each upload has added but not saved
          options,   \* what the client asked for
          size,      \* number of files of an upload
          cur,       \* the file it is at
          file,      \* what is in that file
          step,      \* where the import of that file is
          checked,   \* the validation verdicts so far
          outcome,   \* outcome[u][f]: "none", "ok" or "failed"
          processed, \* processed[u][f]: ProcessedRecords reported
          answer,    \* the answer of the request: "none", "success", "error"
          faults

importVars == <<options, size, cur, file, step, checked, outcome, processed, answer>>
dbVars == <<rows, histories, tracked>>
vars == <<cancellationVars, importVars, dbVars, faults>>

Option == [path : {"queued", "progress", "multiple"},
           ignoreErrors : BOOLEAN, continueOnError : BOOLEAN]
Steps == {"new",      \* not received yet
          "precheck", \* ValidateDataAsync, which only "multiple" calls first
          "validate", "add", "commit",
          "history",  \* LogBulkUploadHistory
          "activity", \* LogBulkUploadActivity, not on the "queued" path
          "next",     \* another file of the same request
          "finish",   \* LogMultipleBulkUploadActivity
          "release",  \* the finally block that removes the token
          "done"}
NoFile == [table |-> "none", rows |-> << >>]
Nothing == [data |-> {}, history |-> {}]

Init ==
  /\ CancellationInit
  /\ rows = {} /\ histories = {}
  /\ tracked = [u \in Uploads |-> Nothing]
  /\ options = [u \in Uploads |->
                  [path |-> "queued", ignoreErrors |-> FALSE, continueOnError |-> FALSE]]
  /\ size = [u \in Uploads |-> 1]
  /\ cur = [u \in Uploads |-> 1]
  /\ file = [u \in Uploads |-> NoFile]
  /\ step = [u \in Uploads |-> "new"]
  /\ checked = [u \in Uploads |-> << >>]
  /\ outcome = [u \in Uploads |-> [f \in 1 .. MaxFiles |-> "none"]]
  /\ processed = [u \in Uploads |-> [f \in 1 .. MaxFiles |-> 0]]
  /\ answer = [u \in Uploads |-> "none"]
  /\ faults = 0

-----------------------------------------------------------------------------
(* Helpers.                                                                *)

Path(u) == options[u].path
HasToken(u) == Path(u) # "multiple"
Cancelled(u) == HasToken(u) /\ CancellationRequested(u)
Goto(u, s) == step' = [step EXCEPT ![u] = s]
Line(u, i) == file[u].rows[i]
InBatch(u) == file[u].table \in BatchTables

\* Mutant: the check against the table is left out.
RowValidNoLookup(u, i) == Line(u, i).form # "malformed"

\* ValidateRowAsync and ValidateBatchAsync: well formed, and its key not in use.
RowValid(u, i) ==
  /\ Line(u, i).form # "malformed"
  /\ \A x \in rows : ~(x.table = file[u].table /\ x.key = Line(u, i).key)

\* Database errors the environment may cause, one at a time.
Fault == faults < MaxFaults /\ faults' = faults + 1

\* Mutant: each save writes the rows but leaves the history row for the next.
SaveRowsOnly(u, extra) ==
  /\ rows' = rows \cup tracked[u].data
  /\ histories' = histories \cup tracked[u].history
  /\ tracked' = [tracked EXCEPT ![u] = [data |-> {}, history |-> extra]]

\* SaveChangesAsync on the context of u, after adding a history row to it.
SaveChanges(u, extra) ==
  /\ rows' = rows \cup tracked[u].data
  /\ histories' = histories \cup tracked[u].history \cup extra
  /\ tracked' = [tracked EXCEPT ![u] = Nothing]

\* Mutant: a failed save forgets what it could not write.
SaveChangesForgets(u, extra) ==
  /\ Fault
  /\ tracked' = [tracked EXCEPT ![u] = Nothing]
  /\ UNCHANGED <<rows, histories>>

\* ... when it fails: everything stays in the change tracker.
SaveChangesFails(u, extra) ==
  /\ Fault
  /\ tracked' = [tracked EXCEPT ![u].history = @ \cup extra]
  /\ UNCHANGED <<rows, histories>>

\* Mutant: an exception outside the queue leaves the request without an end.
FileFailsStays(u) ==
  /\ outcome' = [outcome EXCEPT ![u][cur[u]] = "failed"]
  /\ Goto(u, IF HasToken(u) THEN "done"
             ELSE IF options[u].continueOnError /\ cur[u] < size[u] THEN "next" ELSE "finish")

\* The file of u fails, as a failed result or an exception.
FileFails(u) ==
  /\ outcome' = [outcome EXCEPT ![u][cur[u]] = "failed"]
  /\ Goto(u, IF HasToken(u) THEN "release"
             ELSE IF options[u].continueOnError /\ cur[u] < size[u] THEN "next" ELSE "finish")

FileSucceeds(u) ==
  /\ outcome' = [outcome EXCEPT ![u][cur[u]] = "ok"]
  /\ Goto(u, IF HasToken(u) THEN "release" ELSE IF cur[u] < size[u] THEN "next" ELSE "finish")

\* Reading a file and detecting its table; a file of no known table is not modelled.
TakeFile(u, first) ==
  /\ file' \in {[file EXCEPT ![u] = f] : f \in Files}
  /\ checked' = [checked EXCEPT ![u] = << >>]
  /\ Goto(u, first)

-----------------------------------------------------------------------------
(* The request.                                                            *)

Receive(u) ==
  /\ step[u] = "new"
  /\ \E o \in Option, n \in 1 .. MaxFiles :
       /\ o.path \in Paths
       /\ o.path # "multiple" => n = 1 /\ ~o.continueOnError
       /\ options' = [options EXCEPT ![u] = o]
       /\ size' = [size EXCEPT ![u] = n]
       /\ IF o.path = "multiple"
            THEN TakeFile(u, "precheck") /\ UNCHANGED cancellationVars
            ELSE TakeFile(u, "validate") /\ CreateJobCancellation(u, u)
  /\ UNCHANGED <<cur, outcome, processed, answer, dbVars, faults>>

(***************************************************************************)
(* ValidateDataAsync: any invalid row refuses the file, whatever           *)
(* IgnoreErrors says.  When the one query for a whole file fails, its rows *)
(* are not looked at; a query per row that fails makes the row invalid.    *)
(***************************************************************************)
PreCheck(u) ==
  /\ step[u] = "precheck"
  /\ \/ /\ IF \A i \in DOMAIN file[u].rows : RowValid(u, i)
             THEN Goto(u, "validate") /\ UNCHANGED outcome
             ELSE FileFails(u)
        /\ UNCHANGED faults
     \/ /\ Fault
        /\ IF InBatch(u) THEN Goto(u, "validate") /\ UNCHANGED outcome ELSE FileFails(u)
  /\ UNCHANGED <<cancellationVars, options, size, cur, file, checked, processed, answer,
                 dbVars>>

(***************************************************************************)
(* ValidateWithResultsAsync: one query for the whole file when the mapper  *)
(* can, otherwise or when that query fails one per row, each on what is    *)
(* committed by then.  A query per row that fails makes the row invalid.   *)
(***************************************************************************)
Validate(u) ==
  LET n == Len(checked[u]) + 1
      verdict(b) == checked' = [checked EXCEPT ![u] = Append(@, b)]
      first == InBatch(u) /\ n = 1
  IN  /\ step[u] = "validate"
      /\ ~Cancelled(u)
      /\ n \in DOMAIN file[u].rows
      /\ \/ /\ first
            /\ checked' = [checked EXCEPT ![u] = [i \in DOMAIN file[u].rows |-> RowValid(u, i)]]
            /\ UNCHANGED faults
         \/ ~first /\ verdict(RowValid(u, n)) /\ UNCHANGED faults
         \/ Fault /\ verdict(first /\ RowValid(u, n))
      /\ UNCHANGED <<cancellationVars, options, size, cur, file, step, outcome, processed,
                     answer, dbVars>>

\* All rows have a verdict; without IgnoreErrors a bad one refuses the file.
EndValidation(u) ==
  /\ step[u] = "validate"
  /\ ~Cancelled(u)
  /\ Len(checked[u]) = Len(file[u].rows)
  /\ IF options[u].ignoreErrors \/ \A i \in DOMAIN checked[u] : checked[u][i]
       THEN Goto(u, "add") /\ UNCHANGED outcome
       ELSE FileFails(u)
  /\ UNCHANGED <<cancellationVars, options, size, cur, file, checked, processed, answer,
                 dbVars, faults>>

\* The rows SaveRowAsync takes: it refuses an unlinked one, which is no error.
AddedLines(u) ==
  {i \in DOMAIN file[u].rows : checked[u][i] /\ Line(u, i).form # "unlinked"}

\* Mutant: a refused row is counted like the others.
CountedLinesAll(u) == {i \in DOMAIN file[u].rows : checked[u][i]}

\* The rows counted as processed.
CountedLines(u) == AddedLines(u)

(***************************************************************************)
(* The loop of ProcessValidRecordsAsync.  A cancellation inside the loop   *)
(* makes rows fail and then the commit, with the context thrown away, so   *)
(* the loop is one step.                                                   *)
(***************************************************************************)
AddRows(u) ==
  /\ step[u] = "add"
  /\ tracked' = [tracked EXCEPT ![u].data = @ \cup
       {[table |-> file[u].table, key |-> Line(u, i).key,
         upload |-> u, file |-> cur[u], line |-> i] : i \in AddedLines(u)}]
  /\ processed' = [processed EXCEPT ![u][cur[u]] = Cardinality(CountedLines(u))]
  /\ Goto(u, "commit")
  /\ UNCHANGED <<cancellationVars, options, size, cur, file, checked, outcome, answer,
                 rows, histories, faults>>

\* Mutant: the commit does not look at the token.
MayCommitAlways(u) == TRUE

MayCommit(u) == ~Cancelled(u)

\* CommitAsync of the transaction, which so far holds no write.
Commit(u) ==
  /\ step[u] = "commit"
  /\ MayCommit(u)
  /\ Goto(u, "history")
  /\ UNCHANGED <<cancellationVars, options, size, cur, file, checked, outcome, processed,
                 answer, dbVars, faults>>

(***************************************************************************)
(* A cancelled token stops the import at its next check, a database error  *)
(* at the commit; the change tracker keeps what was added.                 *)
(***************************************************************************)
Abort(u) ==
  /\ \/ /\ step[u] \in {"validate", "commit"}
        /\ Cancelled(u)
        /\ UNCHANGED faults
     \/ step[u] = "commit" /\ Fault
  /\ FileFails(u)
  /\ UNCHANGED <<cancellationVars, options, size, cur, file, checked, processed, answer,
                 dbVars>>

\* LogBulkUploadHistory, after the commit; an error is swallowed.
LogHistory(u) ==
  LET row == {[upload |-> u, file |-> cur[u], processed |-> processed[u][cur[u]]]} IN
  /\ step[u] = "history"
  /\ \/ SaveChanges(u, row) /\ UNCHANGED faults
     \/ SaveChangesFails(u, row)
  /\ IF Path(u) = "queued" THEN FileSucceeds(u)
                              ELSE Goto(u, "activity") /\ UNCHANGED outcome
  /\ UNCHANGED <<cancellationVars, options, size, cur, file, checked, processed, answer>>

\* LogBulkUploadActivity of the controller, on the same context; an error is not swallowed.
LogActivity(u) ==
  /\ step[u] = "activity"
  /\ \/ SaveChanges(u, {}) /\ FileSucceeds(u) /\ UNCHANGED faults
     \/ SaveChangesFails(u, {}) /\ FileFails(u)
  /\ UNCHANGED <<cancellationVars, options, size, cur, file, checked, processed, answer>>

NextFile(u) ==
  /\ step[u] = "next"
  /\ cur' = [cur EXCEPT ![u] = @ + 1]
  /\ TakeFile(u, "precheck")
  /\ UNCHANGED <<cancellationVars, options, size, outcome, processed, answer, dbVars, faults>>

AllOk(u) == \A f \in 1 .. size[u] : outcome[u][f] = "ok"

\* Mutant: the verdicts of the last file are kept.
EndRequestKeeps(u) ==
  /\ file' = [file EXCEPT ![u] = NoFile]
  /\ UNCHANGED checked
  /\ Goto(u, "done")

\* The request is over: its context and its locals go.
EndRequest(u) ==
  /\ file' = [file EXCEPT ![u] = NoFile]
  /\ checked' = [checked EXCEPT ![u] = << >>]
  /\ Goto(u, "done")

\* LogMultipleBulkUploadActivity ends the request, and the context with it.
Finish(u) ==
  /\ step[u] = "finish"
  /\ \/ /\ SaveChanges(u, {})
        /\ answer' = [answer EXCEPT ![u] = IF AllOk(u) THEN "success" ELSE "error"]
        /\ UNCHANGED faults
     \/ /\ Fault
        /\ tracked' = [tracked EXCEPT ![u] = Nothing]
        /\ answer' = [answer EXCEPT ![u] = "error"]
        /\ UNCHANGED <<rows, histories>>
  /\ EndRequest(u)
  /\ UNCHANGED <<cancellationVars, options, size, cur, outcome, processed>>

\* The other two paths: the token is removed and the context disposed of.
Release(u) ==
  /\ step[u] = "release"
  /\ RemoveJob(u)
  /\ tracked' = [tracked EXCEPT ![u] = Nothing]
  /\ answer' = [answer EXCEPT ![u] = IF AllOk(u) THEN "success" ELSE "error"]
  /\ EndRequest(u)
  /\ UNCHANGED <<options, size, cur, outcome, processed, rows, histories, faults>>

\* A cancel request finds the token (FileQueue separates lookup and signal).
CancelUpload(u) ==
  /\ LookupSource(u) # NoSource
  /\ CancelSource(LookupSource(u))
  /\ UNCHANGED <<importVars, dbVars, faults>>

Advance(u) ==
  \/ PreCheck(u) \/ Validate(u) \/ EndValidation(u) \/ AddRows(u) \/ Commit(u) \/ Abort(u)
  \/ LogHistory(u) \/ LogActivity(u) \/ NextFile(u) \/ Finish(u) \/ Release(u)

Next == \E u \in Uploads : Receive(u) \/ Advance(u) \/ CancelUpload(u)

\* A received request keeps running; nobody has to send or cancel one.
Spec == Init /\ [][Next]_vars /\ \A u \in Uploads : WF_vars(Advance(u))
-----------------------------------------------------------------------------
(* Properties.                                                             *)

\* Every variable stays in its type, what each context tracks included.
TypeOK ==
  /\ CancellationTypeOK
  /\ rows \subseteq Record /\ histories \subseteq History
  /\ \A u \in Uploads : /\ tracked[u].data \subseteq Record
                        /\ tracked[u].history \subseteq History
  /\ options \in [Uploads -> Option]
  /\ size \in [Uploads -> 1 .. MaxFiles] /\ cur \in [Uploads -> 1 .. MaxFiles]
  /\ file \in [Uploads -> Files \cup {NoFile}]
  /\ step \in [Uploads -> Steps]
  /\ \A u \in Uploads : checked[u] \in Seq(BOOLEAN) /\ Len(checked[u]) <= Len(file[u].rows)
  /\ outcome \in [Uploads -> [1 .. MaxFiles -> {"none", "ok", "failed"}]]
  /\ processed \in [Uploads -> [1 .. MaxFiles -> Nat]]
  /\ answer \in [Uploads -> {"none", "success", "error"}]
  /\ faults \in 0 .. MaxFaults

RowsOf(u, f) == {x \in rows : x.upload = u /\ x.file = f}

(***************************************************************************)
(* The controllers call a file processed only when the rows they count are *)
(* in the database, even if saving the history row failed: the activity    *)
(* log of the same context saves them then, or fails aloud.                *)
(***************************************************************************)
SuccessMeansSaved ==
  \A u \in Uploads : Path(u) # "queued" => \A f \in 1 .. size[u] :
    outcome[u][f] = "ok" => Cardinality(RowsOf(u, f)) = processed[u][f]

(***************************************************************************)
(* No file is imported in part: its rows in the database are none, or as   *)
(* many as its import reports.                                             *)
(***************************************************************************)
NoPartialFile ==
  \A u \in Uploads : \A f \in 1 .. size[u] :
    Cardinality(RowsOf(u, f)) \in {0, processed[u][f]}

(***************************************************************************)
(* BulkUploadHistories and the data tables agree: a history row counts the *)
(* rows of its file, and where the import has a context of its own no rows *)
(* are there without it.                                                   *)
(***************************************************************************)
HistoryMatchesRows ==
  /\ \A h \in histories : Cardinality(RowsOf(h.upload, h.file)) = h.processed
  /\ \A x \in rows : HasToken(x.upload) =>
       \E h \in histories : h.upload = x.upload /\ h.file = x.file

(***************************************************************************)
(* A later file of a request is checked against what an earlier one has    *)
(* imported: unless a database error left rows behind, a key comes twice   *)
(* from one request only when one file holds it twice.                     *)
(***************************************************************************)
LaterFileSeesEarlier ==
  faults = 0 => \A x, y \in rows :
    x.upload = y.upload /\ x.table = y.table /\ x.key = y.key => x.file = y.file

(***************************************************************************)
(* A cancellation that arrives before the commit is never too late: no row *)
(* of the upload gets into the database any more.                          *)
(***************************************************************************)
CancelBeforeCommitLeavesNothing ==
  \A u \in Uploads :
    [](Cancelled(u) /\ step[u] \in {"validate", "add", "commit"} => [](RowsOf(u, 1) = {}))

\* Every received upload is answered.
EveryUploadAnswered == \A u \in Uploads : step[u] # "new" ~> answer[u] # "none"

-----------------------------------------------------------------------------
(* Claims of the source, each checked by a run of its own.                 *)

(***************************************************************************)
(* The template of UserTableMapper describes the Username column as        *)
(* "Unique username for the user".                                         *)
(***************************************************************************)
UniqueUsernames ==
  \A x, y \in rows : x.table = "Users" /\ y.table = "Users" /\ x.key = y.key => x = y

(***************************************************************************)
(* BulkUploadMultipleController reports "Failed to process" a file: then   *)
(* nothing of it was imported.                                             *)
(***************************************************************************)
FailedFileIsNotImported ==
  \A u \in Uploads : \A f \in 1 .. size[u] :
    Path(u) = "multiple" /\ outcome[u][f] = "failed" => RowsOf(u, f) = {}

-----------------------------------------------------------------------------
(***************************************************************************)
(* The import as FileQueueService sees it; the other paths have no part in *)
(* this picture.                                                           *)
(***************************************************************************)
Phase(u) ==
  IF Path(u) # "queued" THEN "open"
  ELSE IF outcome[u][1] = "ok" THEN "succeeded"
  ELSE IF outcome[u][1] = "failed" THEN "failed"
  ELSE IF step[u] = "history" THEN "committed" ELSE "open"
Stored(u) == Path(u) = "queued" /\ \E h \in histories : h.upload = u

Import == INSTANCE FileImport WITH
  Imports <- Uploads,
  phase <- [u \in Uploads |-> Phase(u)],
  cancelled <- [u \in Uploads |-> CancellationRequested(u)],
  stored <- [u \in Uploads |-> Stored(u)]

\* An import on the queued path keeps the promise of FileImport.
ImplementsFileImport == Import!Spec
=============================================================================
