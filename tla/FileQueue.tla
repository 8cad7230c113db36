------------------------------ MODULE FileQueue ------------------------------
(***************************************************************************)
(* Multi-file uploads: FileQueueService with the two controllers that act  *)
(* on its jobs (BulkUploadQueueController, BulkUploadCancellationController)*)
(* and the token table of JobCancellationService.                          *)
(*                                                                         *)
(* An upload request enqueues a job and answers with its id; a task of the *)
(* thread pool imports the files one after another, each in a database     *)
(* scope of its own; other requests meanwhile cancel the job or ask for    *)
(* its status; the client hears of it through a SignalR group.             *)
(***************************************************************************)
EXTENDS Naturals, Sequences, JobCancellation

CONSTANTS Requests,     \* later cancel and status requests, one call each
          Instances,    \* FileQueueService objects
          ServiceFor,   \* the object that dependency injection gives a request
          MaxFiles,     \* files in an upload
          MaxFaults,    \* database errors while rows or history are saved
          MaxRestarts   \* restarts of the server process

\* Upload requests.  Each runs one job under a fresh id, so the id stands for it.
Jobs == JobIds

ASSUME FileQueueAssumption ==
  /\ Uploads = JobIds
  /\ Jobs \cap Requests = {}
  /\ ServiceFor \in [Jobs \cup Requests -> Instances]
  /\ MaxFiles \in Nat \ {0}
  /\ MaxFaults \in Nat
  /\ MaxRestarts \in Nat

(***************************************************************************)
(* With the registration of Program.cs (AddScoped) no two requests share   *)
(* an object; the class itself also works for one shared object.           *)
(***************************************************************************)
Scoped == \A a, b \in Jobs \cup Requests : ServiceFor[a] = ServiceFor[b] => a = b

QueueStatus == {"Queued", "Processing", "Completed", "CompletedWithErrors",
                "Cancelled"}
FileStatus == {"Queued", "Processing", "Completed", "Failed", "Cancelled"}
\* A file whose import would succeed, one whose import fails (a row it refuses, or
\* the database does), and one of no known table.
FileKind == {"valid", "invalid", "unknown"}
HistoryStatus == {"Success", "Partial", "Failed"}
Event == {"JobStarted", "JobSucceeded", "JobFailed", "JobError"}

(***************************************************************************)
(* Where the background task of a job is.                                  *)
(***************************************************************************)
WorkerStep == {"absent",     \* nothing uploaded yet
               "scheduled",  \* Task.Run has posted it
               "registered", \* its token is in the table
               "loop",       \* at the head of the loop over the files
               "importing",  \* in the bulk upload service, before the commit
               "saving",     \* committed, rows and history not yet saved
               "finish",     \* past the loop
               "log",        \* about to write the job's history row
               "announce",   \* about to notify completion
               "release",    \* in the finally block
               "retained",   \* over, the queue kept for status checks
               "forgotten",  \* over, the queue removed
               "lost"}       \* the process died under it
Running == {"registered", "loop", "importing", "saving", "finish", "log",
            "announce", "release"}

VARIABLES activeQueues, \* _activeQueues of each FileQueueService object
          size,         \* number of files of a job
          kind,         \* what is in each file
          continueOnError,
          status,       \* queue.Status
          file,         \* queue.Files[i].Status
          worker,       \* where the background task is
          cur,          \* the file it is at; the ones before it have been tried
          completedFiles, failedFiles,
          saved,        \* files whose rows are in the database
          unsaved,      \* files reported as processed whose save failed
          history,      \* the job's row in BulkUploadHistories, if any
          events,       \* SignalR messages sent to the job's group
          call,         \* progress and answer of each later request
          faults, restarts

jobVars == <<size, kind, continueOnError, status, file, worker, cur,
             completedFiles, failedFiles, saved, unsaved, history, events>>
vars == <<cancellationVars, activeQueues, jobVars, call, faults, restarts>>

Idle == [op |-> "none", job |-> NoSource, step |-> "idle", ok |-> FALSE,
         answer |-> "none"]
CallRecord == [op : {"none", "CancelQueue", "CancelMigration", "GetQueueStatus"},
               job : Jobs \cup {NoSource},
               step : {"idle", "found", "signalled", "answered"},
               ok : BOOLEAN,
               answer : QueueStatus \cup {"none", "NotFound"}]

FilesOf(j) == 1 .. size[j]

Init ==
  /\ CancellationInit
  /\ activeQueues = [s \in Instances |-> {}]
  /\ size = [j \in Jobs |-> 1]
  /\ kind = [j \in Jobs |-> [i \in 1 .. MaxFiles |-> "valid"]]
  /\ continueOnError = [j \in Jobs |-> FALSE]
  /\ status = [j \in Jobs |-> "Queued"]
  /\ file = [j \in Jobs |-> [i \in 1 .. MaxFiles |-> "Queued"]]
  /\ worker = [j \in Jobs |-> "absent"]
  /\ cur = [j \in Jobs |-> 1]
  /\ completedFiles = [j \in Jobs |-> 0]
  /\ failedFiles = [j \in Jobs |-> 0]
  /\ saved = [j \in Jobs |-> {}]
  /\ unsaved = [j \in Jobs |-> {}]
  /\ history = [j \in Jobs |-> {}]
  /\ events = [j \in Jobs |-> << >>]
  /\ call = [r \in Requests |-> Idle]
  /\ faults = 0
  /\ restarts = 0

-----------------------------------------------------------------------------
(* Helpers.                                                                *)

Goto(j, step) == worker' = [worker EXCEPT ![j] = step]

\* A SignalR message to the group of job j; a failed send is swallowed.
Notify(j, event) == events' = [events EXCEPT ![j] = Append(@, event)]

\* Mutant: only the file under way is marked.
CancelOpenFilesStarted(j) ==
  file' = [file EXCEPT ![j] = [i \in 1 .. MaxFiles |->
             IF file[j][i] = "Processing" THEN "Cancelled" ELSE file[j][i]]]

\* Both cancellation paths mark what has not ended as cancelled.
CancelOpenFiles(j) ==
  file' = [file EXCEPT ![j] = [i \in 1 .. MaxFiles |->
             IF i \in FilesOf(j) /\ file[j][i] \in {"Queued", "Processing"}
               THEN "Cancelled" ELSE file[j][i]]]

Sees(r, j) == j \in activeQueues[ServiceFor[r]]

-----------------------------------------------------------------------------
(* The upload request.                                                     *)

\* QueueMultipleFilesAsync: build the queue, post the task, answer with the id.
QueueMultipleFiles(j) ==
  /\ worker[j] = "absent"
  /\ \E n \in 1 .. MaxFiles, k \in [1 .. MaxFiles -> FileKind], c \in BOOLEAN :
       /\ \A i \in 1 .. MaxFiles : i > n => k[i] = "valid"
       /\ size' = [size EXCEPT ![j] = n]
       /\ kind' = [kind EXCEPT ![j] = k]
       /\ continueOnError' = [continueOnError EXCEPT ![j] = c]
  /\ activeQueues' = [activeQueues EXCEPT ![ServiceFor[j]] = @ \cup {j}]
  /\ Goto(j, "scheduled")
  /\ UNCHANGED <<cancellationVars, status, file, cur, completedFiles, failedFiles,
                 saved, unsaved, history, events, call, faults, restarts>>

-----------------------------------------------------------------------------
(* The background task.                                                    *)

\* The task starts by registering the job's token.
StartTask(j) ==
  /\ worker[j] = "scheduled"
  /\ CreateJobCancellation(j, j)
  /\ Goto(j, "registered")
  /\ UNCHANGED <<activeQueues, size, kind, continueOnError, status, file, cur,
                 completedFiles, failedFiles, saved, unsaved, history, events,
                 call, faults, restarts>>

\* ProcessQueueAsync up to the loop.  The queue is in the task's own object.
BeginQueue(j) ==
  /\ worker[j] = "registered"
  /\ j \in activeQueues[ServiceFor[j]]
  /\ status' = [status EXCEPT ![j] = "Processing"]
  /\ Notify(j, "JobStarted")
  /\ Goto(j, "loop")
  /\ UNCHANGED <<cancellationVars, activeQueues, size, kind, continueOnError, file,
                 cur, completedFiles, failedFiles, saved, unsaved, history,
                 call, faults, restarts>>

\* The head of the loop: the token is read once per file.
StartFile(j) ==
  /\ worker[j] = "loop"
  /\ cur[j] \in FilesOf(j)
  /\ ~CancellationRequested(j)
  /\ file' = [file EXCEPT ![j][cur[j]] = "Processing"]
  /\ Goto(j, "importing")
  /\ UNCHANGED <<cancellationVars, activeQueues, size, kind, continueOnError, status,
                 cur, completedFiles, failedFiles, saved, unsaved, history, events,
                 call, faults, restarts>>

AbortThen(j, step) ==
  /\ worker[j] = "loop"
  /\ cur[j] \in FilesOf(j)
  /\ CancellationRequested(j)
  /\ status' = [status EXCEPT ![j] = "Cancelled"]
  /\ CancelOpenFiles(j)
  /\ Notify(j, "JobFailed")
  /\ Goto(j, step)
  /\ UNCHANGED <<cancellationVars, activeQueues, size, kind, continueOnError, cur,
                 completedFiles, failedFiles, saved, unsaved, history,
                 call, faults, restarts>>

\* Mutant: the cancellation leaves the loop only, and the summary still runs.
AbortQueueThenLog(j) == AbortThen(j, "log")

\* ThrowIfCancellationRequested throws: the handler at the end of the method.
AbortQueue(j) == AbortThen(j, "release")

\* Mutant: the import returns its token only to validation, not to the commit.
CommitAllowedAlways(j) == kind[j][cur[j]] = "valid"

\* What the import's commit needs: rows that passed validation, a live token.
CommitAllowed(j) == kind[j][cur[j]] = "valid" /\ ~CancellationRequested(j)

\* Mutant: the method is left from inside the loop, past its finally block.
AfterFailureReturn(j) == IF continueOnError[j] THEN "loop" ELSE "retained"

AfterFailure(j) == IF continueOnError[j] THEN "loop" ELSE "finish"

(***************************************************************************)
(* The file fails: its table is unknown, a row is invalid, or the token is *)
(* cancelled when the import commits.  The import turns a cancellation     *)
(* into a failed result like any other, so the file is failed, not         *)
(* cancelled, and only ContinueOnError decides whether the loop goes on.   *)
(***************************************************************************)
FailFile(j) ==
  /\ worker[j] = "importing"
  /\ ~CommitAllowed(j)
  /\ file' = [file EXCEPT ![j][cur[j]] = "Failed"]
  /\ failedFiles' = [failedFiles EXCEPT ![j] = @ + 1]
  /\ Goto(j, AfterFailure(j))
  /\ cur' = [cur EXCEPT ![j] = @ + 1]
  /\ UNCHANGED <<cancellationVars, activeQueues, size, kind, continueOnError, status,
                 completedFiles, saved, unsaved, history, events,
                 call, faults, restarts>>

\* The import's transaction commits; it has written nothing yet.
CommitFile(j) ==
  /\ worker[j] = "importing"
  /\ CommitAllowed(j)
  /\ Goto(j, "saving")
  /\ UNCHANGED <<cancellationVars, activeQueues, size, kind, continueOnError, status,
                 file, cur, completedFiles, failedFiles, saved, unsaved, history,
                 events, call, faults, restarts>>

(***************************************************************************)
(* The rows are written with the import's history row, after the commit    *)
(* and without the token; an error there is swallowed and the import still *)
(* reports success.                                                        *)
(***************************************************************************)
SaveFile(j) ==
  /\ worker[j] = "saving"
  /\ \/ /\ saved' = [saved EXCEPT ![j] = @ \cup {cur[j]}]
        /\ UNCHANGED <<unsaved, faults>>
     \/ /\ faults < MaxFaults
        /\ faults' = faults + 1
        /\ unsaved' = [unsaved EXCEPT ![j] = @ \cup {cur[j]}]
        /\ UNCHANGED saved
  /\ file' = [file EXCEPT ![j][cur[j]] = "Completed"]
  /\ completedFiles' = [completedFiles EXCEPT ![j] = @ + 1]
  /\ cur' = [cur EXCEPT ![j] = @ + 1]
  /\ Goto(j, "loop")
  /\ UNCHANGED <<cancellationVars, activeQueues, size, kind, continueOnError, status,
                 failedFiles, history, events, call, restarts>>

\* Mutant: a queue with failures is shown as cancelled.
FinalStatusCancelled(failed) == IF failed = 0 THEN "Completed" ELSE "Cancelled"

FinalStatus(failed) == IF failed = 0 THEN "Completed" ELSE "CompletedWithErrors"

\* The loop is over, or a failure broke out of it.
FinishQueue(j) ==
  /\ \/ worker[j] = "loop" /\ cur[j] \notin FilesOf(j)
     \/ worker[j] = "finish"
  /\ status' = [status EXCEPT ![j] = FinalStatus(failedFiles[j])]
  /\ Goto(j, "log")
  /\ UNCHANGED <<cancellationVars, activeQueues, size, kind, continueOnError, file, cur,
                 completedFiles, failedFiles, saved, unsaved, history, events,
                 call, faults, restarts>>

\* Mutant: the words of the per-file history rows.
HistoryOfFile(completed, failed) ==
  IF failed = 0 THEN "Completed" ELSE "Completed with errors"

\* Mutant: no partial success.
HistoryOfTwo(completed, failed) == IF failed = 0 THEN "Success" ELSE "Failed"

\* What the history row says of a job with these counts.
HistoryOf(completed, failed) ==
  IF failed = 0 THEN "Success" ELSE IF completed = 0 THEN "Failed" ELSE "Partial"

\* The row is written in a scope of its own; an error is swallowed.
LogQueueCompletionHistory(j) ==
  /\ worker[j] = "log"
  /\ \/ /\ history' = [history EXCEPT ![j] =
                         @ \cup {HistoryOf(completedFiles[j], failedFiles[j])}]
        /\ UNCHANGED faults
     \/ /\ faults < MaxFaults
        /\ faults' = faults + 1
        /\ UNCHANGED history
  /\ Goto(j, "announce")
  /\ UNCHANGED <<cancellationVars, activeQueues, size, kind, continueOnError, status,
                 file, cur, completedFiles, failedFiles, saved, unsaved, events,
                 call, restarts>>

AnnounceCompletion(j) ==
  /\ worker[j] = "announce"
  /\ Notify(j, IF failedFiles[j] = 0 THEN "JobSucceeded" ELSE "JobFailed")
  /\ Goto(j, "release")
  /\ UNCHANGED <<cancellationVars, activeQueues, size, kind, continueOnError, status,
                 file, cur, completedFiles, failedFiles, saved, unsaved, history,
                 call, faults, restarts>>

\* The finally block: the token goes now, the queue thirty minutes later.
ReleaseJob(j) ==
  /\ worker[j] = "release"
  /\ RemoveJob(j)
  /\ Goto(j, "retained")
  /\ UNCHANGED <<activeQueues, size, kind, continueOnError, status, file, cur,
                 completedFiles, failedFiles, saved, unsaved, history, events,
                 call, faults, restarts>>

ForgetQueue(j) ==
  /\ worker[j] = "retained"
  /\ activeQueues' = [activeQueues EXCEPT ![ServiceFor[j]] = @ \ {j}]
  /\ Goto(j, "forgotten")
  /\ UNCHANGED <<cancellationVars, size, kind, continueOnError, status, file, cur,
                 completedFiles, failedFiles, saved, unsaved, history, events,
                 call, faults, restarts>>

-----------------------------------------------------------------------------
(* Later requests.  A client can name a job once it has its id.            *)

\* CancelJob looks the token up ...
LookupJob(r, j, op) ==
  /\ call[r] = Idle
  /\ worker[j] # "absent"
  /\ call' = [call EXCEPT ![r] =
                [Idle EXCEPT !.op = op, !.job = j,
                             !.step = IF LookupSource(j) = NoSource
                                        THEN "signalled" ELSE "found"]]
  /\ UNCHANGED <<cancellationVars, activeQueues, jobVars, faults, restarts>>

\* ... and then cancels it, unless the job has disposed of it in between.
SignalJob(r) ==
  /\ call[r].step = "found"
  /\ CancelSource(call[r].job)
  /\ call' = [call EXCEPT ![r].step = "signalled",
                          ![r].ok = ~sources[call[r].job].disposed]
  /\ UNCHANGED <<activeQueues, jobVars, faults, restarts>>

\* The rest of CancelQueue: a queue in the request's own object is marked.
CancelQueue(r) ==
  LET j == call[r].job IN
  /\ call[r].op = "CancelQueue"
  /\ call[r].step = "signalled"
  /\ IF Sees(r, j)
       THEN /\ status' = [status EXCEPT ![j] = "Cancelled"]
            /\ CancelOpenFiles(j)
       ELSE UNCHANGED <<status, file>>
  /\ call' = [call EXCEPT ![r].step = "answered"]
  /\ UNCHANGED <<cancellationVars, activeQueues, size, kind, continueOnError, worker,
                 cur, completedFiles, failedFiles, saved, unsaved, history, events,
                 faults, restarts>>

\* The rest of CancelMigration: the group is told when the token was there.
CancelMigration(r) ==
  /\ call[r].op = "CancelMigration"
  /\ call[r].step = "signalled"
  /\ IF call[r].ok THEN Notify(call[r].job, "JobError") ELSE UNCHANGED events
  /\ call' = [call EXCEPT ![r].step = "answered"]
  /\ UNCHANGED <<cancellationVars, activeQueues, size, kind, continueOnError, status,
                 file, worker, cur, completedFiles, failedFiles, saved, unsaved,
                 history, faults, restarts>>

GetQueueStatus(r, j) ==
  /\ call[r] = Idle
  /\ worker[j] # "absent"
  /\ call' = [call EXCEPT ![r] =
                [Idle EXCEPT !.op = "GetQueueStatus", !.job = j, !.step = "answered",
                             !.answer = IF Sees(r, j) THEN status[j] ELSE "NotFound"]]
  /\ UNCHANGED <<cancellationVars, activeQueues, jobVars, faults, restarts>>

-----------------------------------------------------------------------------
(***************************************************************************)
(* The server process restarts: queues, tokens, tasks and open requests    *)
(* are gone, the database stays, and nothing resumes an interrupted job.   *)
(***************************************************************************)
RestartServer ==
  /\ restarts < MaxRestarts
  /\ restarts' = restarts + 1
  /\ ForgetAllJobs
  /\ activeQueues' = [s \in Instances |-> {}]
  /\ worker' = [j \in Jobs |-> IF worker[j] \in Running \cup {"scheduled"}
                                 THEN "lost"
                               ELSE IF worker[j] = "retained" THEN "forgotten"
                               ELSE worker[j]]
  /\ call' = [r \in Requests |-> IF call[r].step \in {"found", "signalled"}
                                   THEN [call[r] EXCEPT !.step = "answered", !.ok = FALSE]
                                   ELSE call[r]]
  /\ UNCHANGED <<size, kind, continueOnError, status, file, cur, completedFiles,
                 failedFiles, saved, unsaved, history, events, faults>>

-----------------------------------------------------------------------------
TaskStep(j) ==
  \/ StartTask(j) \/ BeginQueue(j) \/ StartFile(j) \/ AbortQueue(j)
  \/ FailFile(j) \/ CommitFile(j) \/ SaveFile(j) \/ FinishQueue(j)
  \/ LogQueueCompletionHistory(j) \/ AnnounceCompletion(j) \/ ReleaseJob(j)
  \/ ForgetQueue(j)

RequestStep(r) ==
  \/ \E j \in Jobs, op \in {"CancelQueue", "CancelMigration"} : LookupJob(r, j, op)
  \/ SignalJob(r) \/ CancelQueue(r) \/ CancelMigration(r)
  \/ \E j \in Jobs : GetQueueStatus(r, j)

Next ==
  \/ \E j \in Jobs : QueueMultipleFiles(j) \/ TaskStep(j)
  \/ \E r \in Requests : RequestStep(r)
  \/ RestartServer

\* The thread pool keeps running a posted task and its timer continuation;
\* nothing forces a client to send a request or the server to restart.
Fairness == \A j \in Jobs : WF_vars(TaskStep(j))

Spec == Init /\ [][Next]_vars /\ Fairness
-----------------------------------------------------------------------------
(* Properties.                                                             *)

\* Every variable stays in its type: counters and marks within the files of a job.
TypeOK ==
  /\ CancellationTypeOK
  /\ activeQueues \in [Instances -> SUBSET Jobs]
  /\ size \in [Jobs -> 1 .. MaxFiles]
  /\ kind \in [Jobs -> [1 .. MaxFiles -> FileKind]]
  /\ continueOnError \in [Jobs -> BOOLEAN]
  /\ status \in [Jobs -> QueueStatus]
  /\ file \in [Jobs -> [1 .. MaxFiles -> FileStatus]]
  /\ worker \in [Jobs -> WorkerStep]
  /\ cur \in [Jobs -> 1 .. MaxFiles + 1]
  /\ completedFiles \in [Jobs -> 0 .. MaxFiles]
  /\ failedFiles \in [Jobs -> 0 .. MaxFiles]
  /\ saved \in [Jobs -> SUBSET (1 .. MaxFiles)]
  /\ unsaved \in [Jobs -> SUBSET (1 .. MaxFiles)]
  /\ history \in [Jobs -> SUBSET HistoryStatus]
  /\ events \in [Jobs -> Seq(Event)]
  /\ call \in [Requests -> CallRecord]
  /\ faults \in 0 .. MaxFaults
  /\ restarts \in 0 .. MaxRestarts

Over == {"retained", "forgotten"}
Imported(j) == saved[j] \cup unsaved[j]
Sent(j, event) == \E n \in DOMAIN events[j] : events[j][n] = event

(***************************************************************************)
(* A job can be cancelled exactly while its task runs: its own token is in *)
(* the table from the first to the last step of the task, is not disposed  *)
(* under it, and never stays behind, however the task ends.                *)
(***************************************************************************)
TokenHeldWhileRunning ==
  \A j \in Jobs :
    /\ activeJobs[j] = j <=> worker[j] \in Running
    /\ activeJobs[j] # NoSource => activeJobs[j] = j /\ ~sources[j].disposed

(***************************************************************************)
(* The row in BulkUploadHistories tells what happened: success if every    *)
(* file of the job was imported, failed if none was, partial otherwise.    *)
(***************************************************************************)
HistoryTellsOutcome ==
  \A j \in Jobs : \A h \in history[j] :
    /\ h = "Success" <=> Imported(j) = FilesOf(j)
    /\ h = "Failed" <=> Imported(j) = {}

(***************************************************************************)
(* The client hears one verdict of a job: none before the task is done,    *)
(* one afterwards, and a success only when every file was imported.        *)
(***************************************************************************)
OneVerdict ==
  \A j \in Jobs :
    LET verdicts == {n \in DOMAIN events[j] : events[j][n] \in {"JobSucceeded", "JobFailed"}}
    IN  /\ \A m, n \in verdicts : m = n
        /\ worker[j] \in Over \cup {"release"} => verdicts # {}
        /\ verdicts # {} => worker[j] \in Over \cup {"release", "lost"}
        /\ Sent(j, "JobSucceeded") => Imported(j) = FilesOf(j)

(***************************************************************************)
(* When a queue is over no file is left in between: a file is still queued *)
(* only because an earlier one failed and the upload asked to stop then.   *)
(***************************************************************************)
EveryFileAccountedFor ==
  Scoped => \A j \in Jobs : worker[j] \in Over => \A i \in FilesOf(j) :
    /\ file[j][i] # "Processing"
    /\ file[j][i] = "Queued" => /\ ~continueOnError[j]
                                /\ i > 1 /\ file[j][cur[j] - 1] = "Failed"
                                /\ status[j] = "CompletedWithErrors"

(***************************************************************************)
(* A queue ends as cancelled only if some request really cancelled its     *)
(* token, and then no file was still under way.                            *)
(***************************************************************************)
CancelledOnlyOnRequest ==
  Scoped => \A j \in Jobs : status[j] = "Cancelled" =>
    /\ sources[j].cancelled
    /\ \E r \in Requests : /\ call[r].job = j
                           /\ call[r].op \in {"CancelQueue", "CancelMigration"}
                           /\ call[r].step \in {"signalled", "answered"}
    /\ \A i \in FilesOf(j) : file[j][i] # "Processing"

(***************************************************************************)
(* Every posted job is carried to its verdict and its token removed,       *)
(* unless the server process dies.                                         *)
(***************************************************************************)
EveryJobEnds ==
  \A j \in Jobs : worker[j] = "scheduled" ~>
    \/ worker[j] = "lost"
    \/ worker[j] \in Over /\ activeJobs[j] = NoSource

-----------------------------------------------------------------------------
(* Claims of messages and comments in the source, each checked by a run of *)
(* its own.                                                                *)

(***************************************************************************)
(* BulkUploadQueueController answers an accepted cancellation with "File   *)
(* queue cancelled successfully", status "cancelled".                      *)
(***************************************************************************)
AcceptedCancelMeansCancelled ==
  \A r \in Requests :
    /\ call[r].op = "CancelQueue" /\ call[r].step = "answered" /\ call[r].ok
    /\ worker[call[r].job] \in Over
    => status[call[r].job] = "Cancelled"

(***************************************************************************)
(* A finished queue is removed only "after some time to allow status       *)
(* checks" (FileQueueService): a job whose queue is kept is found.         *)
(***************************************************************************)
KeptQueueIsFound ==
  \A r \in Requests :
    call[r].answer = "NotFound" => worker[call[r].job] \in {"forgotten", "lost"}

-----------------------------------------------------------------------------
(***************************************************************************)
(* The job as its client sees it.                                          *)
(***************************************************************************)
Phase(j) ==
  CASE worker[j] = "absent" -> "none"
    [] worker[j] = "scheduled" -> "accepted"
    [] worker[j] \in Over -> "over"
    [] worker[j] = "lost" -> "lost"
    [] OTHER -> "running"
Heard(j) == IF Sent(j, "JobSucceeded") THEN "success"
            ELSE IF Sent(j, "JobFailed") THEN "failure" ELSE "none"
OpenTo(j) == sources[j].cancelled => worker[j] = "saving"

Job == INSTANCE UploadJob WITH
  Files <- 1 .. MaxFiles,
  phase <- [j \in Jobs |-> Phase(j)],
  total <- [j \in Jobs |-> FilesOf(j)],
  imported <- [j \in Jobs |-> Imported(j)],
  verdict <- [j \in Jobs |-> Heard(j)],
  cancelled <- [j \in Jobs |-> sources[j].cancelled],
  open <- [j \in Jobs |-> OpenTo(j)]

\* FileQueueService keeps the promise of UploadJob, its progress included.
ImplementsUploadJob == Job!Spec
=============================================================================
