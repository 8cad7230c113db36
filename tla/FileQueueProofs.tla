--------------------------- MODULE FileQueueProofs ---------------------------
(***************************************************************************)
(* Proofs about FileQueue, for any number of jobs, files and requests and  *)
(* for any assignment of service objects to requests.                      *)
(***************************************************************************)
EXTENDS FileQueue, TLAPS

(***************************************************************************)
(* The strengthening of TypeOK that is inductive: the counters count the   *)
(* files before the current one, and the current one exists while a file   *)
(* is being imported.                                                      *)
(***************************************************************************)
CountersOK ==
  \A j \in Jobs :
    /\ completedFiles[j] + failedFiles[j] = cur[j] - 1
    /\ cur[j] <= size[j] + 1
    /\ worker[j] \in {"absent", "scheduled", "registered"} => cur[j] = 1
    /\ worker[j] \in {"importing", "saving"} => cur[j] <= size[j]

TypeInv == TypeOK /\ CountersOK

\* Before the first upload every variable has its type and the counters are zero.
LEMMA InitTypeInv == Init => TypeInv
  BY FileQueueAssumption
  DEF Init, TypeInv, TypeOK, CountersOK, CancellationTypeOK, CancellationInit, Jobs,
      SourceState, QueueStatus, FileStatus, FileKind, WorkerStep, HistoryStatus, Event,
      Idle, CallRecord

(***************************************************************************)
(* Changing the progress of one later request keeps all of them typed.     *)
(***************************************************************************)
LEMMA CallStepType ==
  ASSUME call \in [Requests -> CallRecord], NEW r \in Requests,
         NEW s \in {"signalled", "answered"}, NEW b \in BOOLEAN
  PROVE  /\ [call EXCEPT ![r].step = s] \in [Requests -> CallRecord]
         /\ [call EXCEPT ![r].step = s, ![r].ok = b] \in [Requests -> CallRecord]
<1>1. call[r] \in CallRecord
  OBVIOUS
<1>2. /\ [call[r] EXCEPT !.step = s] \in CallRecord
      /\ [call[r] EXCEPT !.step = s, !.ok = b] \in CallRecord
  BY <1>1 DEF CallRecord
<1>3. [call EXCEPT ![r] = [call[r] EXCEPT !.step = s]] \in [Requests -> CallRecord]
  BY <1>2
<1>4. [call EXCEPT ![r] = [call[r] EXCEPT !.step = s, !.ok = b]] \in [Requests -> CallRecord]
  BY <1>2
<1>5. [call EXCEPT ![r].step = s] = [call EXCEPT ![r] = [call[r] EXCEPT !.step = s]]
  OBVIOUS
<1>6. [call EXCEPT ![r].step = s, ![r].ok = b]
        = [call EXCEPT ![r] = [call[r] EXCEPT !.step = s, !.ok = b]]
  OBVIOUS
<1>7. QED
  BY <1>3, <1>4, <1>5, <1>6

(***************************************************************************)
(* Marking the open files of a job keeps the file table typed.             *)
(***************************************************************************)
LEMMA CancelOpenFilesType ==
  ASSUME file \in [Jobs -> [1 .. MaxFiles -> FileStatus]], NEW j, CancelOpenFiles(j)
  PROVE  file' \in [Jobs -> [1 .. MaxFiles -> FileStatus]]
<1> DEFINE g == [i \in 1 .. MaxFiles |->
                   IF i \in FilesOf(j) /\ file[j][i] \in {"Queued", "Processing"}
                     THEN "Cancelled" ELSE file[j][i]]
<1>1. file' = [file EXCEPT ![j] = g]
  BY DEF CancelOpenFiles
<1>2. ASSUME j \in Jobs PROVE g \in [1 .. MaxFiles -> FileStatus]
  BY <1>2 DEF FileStatus
<1> HIDE DEF g
<1>3. QED
  BY <1>1, <1>2

\* No step of the task, a request or the server breaks the types or lets the
\* counters of a queue pass the files it has tried.
LEMMA NextTypeInv == TypeInv /\ [Next]_vars => TypeInv'
<1> SUFFICES ASSUME TypeInv, [Next]_vars PROVE TypeInv'
  OBVIOUS
<1> USE FileQueueAssumption, NoSourceAssumption
<1>t. /\ TypeOK /\ CountersOK /\ CancellationTypeOK
      /\ Uploads = Jobs /\ JobIds = Jobs
  BY DEF TypeInv, TypeOK, Jobs
<1>1. ASSUME NEW j \in Jobs, QueueMultipleFiles(j) PROVE TypeInv'
  BY <1>1, <1>t DEF QueueMultipleFiles, TypeInv, TypeOK, CountersOK, CancellationTypeOK,
     cancellationVars, FileKind, WorkerStep, Goto
<1>2. ASSUME NEW j \in Jobs, StartTask(j) PROVE TypeInv'
  <2>1. CancellationTypeOK'
    BY <1>2, <1>t DEF StartTask, CreateJobCancellation, CancellationTypeOK, SourceState
  <2>2. /\ worker' \in [Jobs -> WorkerStep]
        /\ worker' = [worker EXCEPT ![j] = "registered"]
    BY <1>2, <1>t DEF StartTask, TypeOK, WorkerStep, Goto
  <2>3. TypeOK'
    BY <1>2, <1>t, <2>1, <2>2 DEF StartTask, TypeOK
  <2>4. CountersOK'
    BY <1>2, <1>t, <2>2 DEF StartTask, CountersOK, TypeOK
  <2>5. QED
    BY <2>3, <2>4 DEF TypeInv
<1>3. ASSUME NEW j \in Jobs, BeginQueue(j) PROVE TypeInv'
  BY <1>3, <1>t DEF BeginQueue, Notify, TypeInv, TypeOK, CountersOK, CancellationTypeOK,
     cancellationVars, QueueStatus, Event, WorkerStep, Goto
<1>4. ASSUME NEW j \in Jobs, StartFile(j) PROVE TypeInv'
  <2>1. cur[j] \in 1 .. MaxFiles /\ cur[j] <= size[j]
    BY <1>4, <1>t DEF StartFile, FilesOf, TypeOK
  <2>2. file' \in [Jobs -> [1 .. MaxFiles -> FileStatus]]
    BY <1>4, <1>t, <2>1 DEF StartFile, TypeOK, FileStatus
  <2>3. /\ worker' \in [Jobs -> WorkerStep]
        /\ worker' = [worker EXCEPT ![j] = "importing"]
    BY <1>4, <1>t DEF StartFile, TypeOK, WorkerStep, Goto
  <2>4. TypeOK'
    BY <1>4, <1>t, <2>2, <2>3 DEF StartFile, TypeOK, CancellationTypeOK, cancellationVars
  <2>5. CountersOK'
    BY <1>4, <1>t, <2>1, <2>3 DEF StartFile, CountersOK, TypeOK
  <2>6. QED
    BY <2>4, <2>5 DEF TypeInv
<1>5. ASSUME NEW j \in Jobs, AbortQueue(j) PROVE TypeInv'
  BY <1>5, <1>t DEF AbortQueue, AbortThen, Notify, CancelOpenFiles, FilesOf, TypeInv,
     TypeOK, CountersOK, CancellationTypeOK, cancellationVars, QueueStatus, FileStatus,
     Event, WorkerStep, Goto
<1>6. ASSUME NEW j \in Jobs, FailFile(j) PROVE TypeInv'
  <2>1. /\ cur[j] \in 1 .. MaxFiles /\ cur[j] <= size[j]
        /\ completedFiles[j] + failedFiles[j] = cur[j] - 1
        /\ completedFiles[j] \in Nat /\ failedFiles[j] \in 0 .. MaxFiles - 1
    BY <1>6, <1>t DEF FailFile, TypeOK, CountersOK
  <2>2. file' \in [Jobs -> [1 .. MaxFiles -> FileStatus]]
    BY <1>6, <1>t, <2>1 DEF FailFile, TypeOK, FileStatus
  <2>3. /\ worker' \in [Jobs -> WorkerStep]
        /\ \A i \in Jobs : worker'[i] = IF i = j THEN AfterFailure(j) ELSE worker[i]
        /\ AfterFailure(j) \in {"loop", "finish"}
    BY <1>6, <1>t DEF FailFile, AfterFailure, TypeOK, WorkerStep, Goto
  <2>4. /\ cur' \in [Jobs -> 1 .. MaxFiles + 1]
        /\ failedFiles' \in [Jobs -> 0 .. MaxFiles]
        /\ \A i \in Jobs : cur'[i] = IF i = j THEN cur[i] + 1 ELSE cur[i]
        /\ \A i \in Jobs : failedFiles'[i] = IF i = j THEN failedFiles[i] + 1 ELSE failedFiles[i]
    BY <1>6, <1>t, <2>1 DEF FailFile, TypeOK
  <2>5. TypeOK'
    BY <1>6, <1>t, <2>2, <2>3, <2>4 DEF FailFile, TypeOK, CancellationTypeOK, cancellationVars
  <2>6. CountersOK'
    <3> SUFFICES ASSUME NEW i \in Jobs
                 PROVE  /\ completedFiles'[i] + failedFiles'[i] = cur'[i] - 1
                        /\ cur'[i] <= size'[i] + 1
                        /\ worker'[i] \in {"absent", "scheduled", "registered"} => cur'[i] = 1
                        /\ worker'[i] \in {"importing", "saving"} => cur'[i] <= size'[i]
      BY DEF CountersOK
    <3>1. completedFiles' = completedFiles /\ size' = size
      BY <1>6 DEF FailFile
    <3>2. size[j] \in Nat /\ cur[j] \in Nat /\ failedFiles[j] \in Nat
      BY <1>t DEF TypeOK
    <3>3. CASE i = j
      BY <3>1, <3>2, <3>3, <2>1, <2>3, <2>4
    <3>4. CASE i # j
      BY <3>1, <3>4, <2>3, <2>4, <1>t DEF CountersOK
    <3>5. QED
      BY <3>3, <3>4
  <2>7. QED
    BY <2>5, <2>6 DEF TypeInv
<1>7. ASSUME NEW j \in Jobs, CommitFile(j) PROVE TypeInv'
  BY <1>7, <1>t DEF CommitFile, TypeInv, TypeOK, CountersOK, CancellationTypeOK,
     cancellationVars, WorkerStep, Goto
<1>8. ASSUME NEW j \in Jobs, SaveFile(j) PROVE TypeInv'
  <2>1. /\ cur[j] \in 1 .. MaxFiles /\ cur[j] <= size[j]
        /\ completedFiles[j] + failedFiles[j] = cur[j] - 1
        /\ failedFiles[j] \in Nat /\ completedFiles[j] \in 0 .. MaxFiles - 1
    BY <1>8, <1>t DEF SaveFile, TypeOK, CountersOK
  <2>2. file' \in [Jobs -> [1 .. MaxFiles -> FileStatus]]
    BY <1>8, <1>t, <2>1 DEF SaveFile, TypeOK, FileStatus
  <2>3. /\ worker' \in [Jobs -> WorkerStep]
        /\ worker' = [worker EXCEPT ![j] = "loop"]
    BY <1>8, <1>t DEF SaveFile, TypeOK, WorkerStep, Goto
  <2>4. /\ cur' \in [Jobs -> 1 .. MaxFiles + 1]
        /\ completedFiles' \in [Jobs -> 0 .. MaxFiles]
        /\ \A i \in Jobs : cur'[i] = IF i = j THEN cur[i] + 1 ELSE cur[i]
        /\ \A i \in Jobs : completedFiles'[i] = IF i = j THEN completedFiles[i] + 1
                                                ELSE completedFiles[i]
    BY <1>8, <1>t, <2>1 DEF SaveFile, TypeOK
  <2>5. /\ saved' \in [Jobs -> SUBSET (1 .. MaxFiles)]
        /\ unsaved' \in [Jobs -> SUBSET (1 .. MaxFiles)]
        /\ faults' \in 0 .. MaxFaults
    <3>1. /\ faults \in 0 .. MaxFaults
          /\ saved \in [Jobs -> SUBSET (1 .. MaxFiles)]
          /\ unsaved \in [Jobs -> SUBSET (1 .. MaxFiles)]
      BY <1>t DEF TypeOK
    <3>2. CASE saved' = [saved EXCEPT ![j] = @ \cup {cur[j]}] /\ UNCHANGED <<unsaved, faults>>
      BY <3>1, <3>2, <2>1
    <3>3. CASE /\ faults < MaxFaults /\ faults' = faults + 1
               /\ unsaved' = [unsaved EXCEPT ![j] = @ \cup {cur[j]}]
               /\ UNCHANGED saved
      BY <3>1, <3>3, <2>1
    <3>4. QED
      BY <1>8, <3>2, <3>3 DEF SaveFile
  <2>6. TypeOK'
    BY <1>8, <1>t, <2>2, <2>3, <2>4, <2>5
    DEF SaveFile, TypeOK, CancellationTypeOK, cancellationVars
  <2>7. CountersOK'
    <3> SUFFICES ASSUME NEW i \in Jobs
                 PROVE  /\ completedFiles'[i] + failedFiles'[i] = cur'[i] - 1
                        /\ cur'[i] <= size'[i] + 1
                        /\ worker'[i] \in {"absent", "scheduled", "registered"} => cur'[i] = 1
                        /\ worker'[i] \in {"importing", "saving"} => cur'[i] <= size'[i]
      BY DEF CountersOK
    <3>1. /\ failedFiles' = failedFiles /\ size' = size
          /\ worker'[i] = IF i = j THEN "loop" ELSE worker[i]
      BY <1>8, <1>t, <2>3 DEF SaveFile, TypeOK
    <3>2. size[j] \in Nat /\ cur[j] \in Nat
      BY <1>t DEF TypeOK
    <3>3. CASE i = j
      BY <3>1, <3>2, <3>3, <2>1, <2>4
    <3>4. CASE i # j
      BY <3>1, <3>4, <2>4, <1>t DEF CountersOK
    <3>5. QED
      BY <3>3, <3>4
  <2>8. QED
    BY <2>6, <2>7 DEF TypeInv
<1>9. ASSUME NEW j \in Jobs, FinishQueue(j) PROVE TypeInv'
  BY <1>9, <1>t DEF FinishQueue, FinalStatus, TypeInv, TypeOK, CountersOK,
     CancellationTypeOK, cancellationVars, QueueStatus, WorkerStep, Goto
<1>10. ASSUME NEW j \in Jobs, LogQueueCompletionHistory(j) PROVE TypeInv'
  <2>1. HistoryOf(completedFiles[j], failedFiles[j]) \in HistoryStatus
    BY DEF HistoryOf, HistoryStatus
  <2>2. /\ history' \in [Jobs -> SUBSET HistoryStatus]
        /\ faults' \in 0 .. MaxFaults
    <3>1. faults \in 0 .. MaxFaults /\ history \in [Jobs -> SUBSET HistoryStatus]
      BY <1>t DEF TypeOK
    <3>2. CASE /\ history' = [history EXCEPT ![j] =
                               @ \cup {HistoryOf(completedFiles[j], failedFiles[j])}]
               /\ UNCHANGED faults
      BY <3>1, <3>2, <2>1
    <3>3. CASE faults < MaxFaults /\ faults' = faults + 1 /\ UNCHANGED history
      BY <3>1, <3>3
    <3>4. QED
      BY <1>10, <3>2, <3>3 DEF LogQueueCompletionHistory
  <2>3. /\ worker' \in [Jobs -> WorkerStep]
        /\ worker' = [worker EXCEPT ![j] = "announce"]
    BY <1>10, <1>t DEF LogQueueCompletionHistory, TypeOK, WorkerStep, Goto
  <2>4. TypeOK'
    BY <1>10, <1>t, <2>2, <2>3
    DEF LogQueueCompletionHistory, TypeOK, CancellationTypeOK, cancellationVars
  <2>5. CountersOK'
    BY <1>10, <1>t, <2>3 DEF LogQueueCompletionHistory, CountersOK, TypeOK
  <2>6. QED
    BY <2>4, <2>5 DEF TypeInv
<1>11. ASSUME NEW j \in Jobs, AnnounceCompletion(j) PROVE TypeInv'
  BY <1>11, <1>t DEF AnnounceCompletion, Notify, TypeInv, TypeOK, CountersOK,
     CancellationTypeOK, cancellationVars, Event, WorkerStep, Goto
<1>12. ASSUME NEW j \in Jobs, ReleaseJob(j) PROVE TypeInv'
  <2>1. CancellationTypeOK'
    BY <1>12, <1>t DEF ReleaseJob, RemoveJob, CancellationTypeOK, SourceState
  <2>2. /\ worker' \in [Jobs -> WorkerStep]
        /\ worker' = [worker EXCEPT ![j] = "retained"]
    BY <1>12, <1>t DEF ReleaseJob, TypeOK, WorkerStep, Goto
  <2>3. TypeOK'
    BY <1>12, <1>t, <2>1, <2>2 DEF ReleaseJob, TypeOK
  <2>4. CountersOK'
    BY <1>12, <1>t, <2>2 DEF ReleaseJob, CountersOK, TypeOK
  <2>5. QED
    BY <2>3, <2>4 DEF TypeInv
<1>13. ASSUME NEW j \in Jobs, ForgetQueue(j) PROVE TypeInv'
  BY <1>13, <1>t DEF ForgetQueue, TypeInv, TypeOK, CountersOK, CancellationTypeOK,
     cancellationVars, WorkerStep, Goto
<1>14. ASSUME NEW r \in Requests, NEW j \in Jobs,
              NEW op \in {"CancelQueue", "CancelMigration"}, LookupJob(r, j, op)
       PROVE TypeInv'
  <2>1. call' \in [Requests -> CallRecord]
    BY <1>14, <1>t DEF LookupJob, TypeOK, CallRecord, Idle
  <2>2. QED
    BY <1>14, <1>t, <2>1 DEF LookupJob, TypeInv, TypeOK, CountersOK, CancellationTypeOK,
       cancellationVars, jobVars
<1>15. ASSUME NEW r \in Requests, SignalJob(r) PROVE TypeInv'
  <2>1. call' \in [Requests -> CallRecord]
    <3>1. (~sources[call[r].job].disposed) \in BOOLEAN
      OBVIOUS
    <3>2. QED
      BY <1>15, <1>t, <3>1, CallStepType DEF SignalJob, TypeOK
  <2>2. CancellationTypeOK'
    BY <1>15, <1>t DEF SignalJob, CancelSource, CancellationTypeOK, SourceState
  <2>3. QED
    BY <1>15, <1>t, <2>1, <2>2 DEF SignalJob, TypeInv, TypeOK, CountersOK, jobVars
<1>16. ASSUME NEW r \in Requests, CancelQueue(r) PROVE TypeInv'
  <2>1. call' \in [Requests -> CallRecord]
    BY <1>16, <1>t, CallStepType DEF CancelQueue, TypeOK
  <2>2. /\ status' \in [Jobs -> QueueStatus]
        /\ file' \in [Jobs -> [1 .. MaxFiles -> FileStatus]]
    <3>1. CASE Sees(r, call[r].job)
      <4>1. /\ status' = [status EXCEPT ![call[r].job] = "Cancelled"]
            /\ CancelOpenFiles(call[r].job)
        BY <1>16, <3>1 DEF CancelQueue
      <4>2. /\ status \in [Jobs -> QueueStatus]
            /\ file \in [Jobs -> [1 .. MaxFiles -> FileStatus]]
        BY <1>t DEF TypeOK
      <4>3. status' \in [Jobs -> QueueStatus]
        BY <4>1, <4>2 DEF QueueStatus
      <4>4. file' \in [Jobs -> [1 .. MaxFiles -> FileStatus]]
        BY <4>1, <4>2, CancelOpenFilesType
      <4>5. QED
        BY <4>3, <4>4
    <3>2. CASE ~Sees(r, call[r].job)
      BY <1>16, <1>t, <3>2 DEF CancelQueue, TypeOK
    <3>3. QED
      BY <3>1, <3>2
  <2>3. QED
    BY <1>16, <1>t, <2>1, <2>2 DEF CancelQueue, TypeInv, TypeOK, CountersOK,
       CancellationTypeOK, cancellationVars
<1>17. ASSUME NEW r \in Requests, CancelMigration(r) PROVE TypeInv'
  <2>1. call' \in [Requests -> CallRecord]
    BY <1>17, <1>t, CallStepType DEF CancelMigration, TypeOK
  <2>2. events' \in [Jobs -> Seq(Event)]
    <3>1. \/ UNCHANGED events
          \/ events' = [events EXCEPT ![call[r].job] = Append(@, "JobError")]
      BY <1>17 DEF CancelMigration, Notify
    <3>2. events \in [Jobs -> Seq(Event)]
      BY <1>t DEF TypeOK
    <3>3. \A j \in Jobs : Append(events[j], "JobError") \in Seq(Event)
      BY <3>2 DEF Event
    <3>4. QED
      BY <3>1, <3>2, <3>3
  <2>3. QED
    BY <1>17, <1>t, <2>1, <2>2 DEF CancelMigration, TypeInv, TypeOK, CountersOK,
       CancellationTypeOK, cancellationVars
<1>18. ASSUME NEW r \in Requests, NEW j \in Jobs, GetQueueStatus(r, j) PROVE TypeInv'
  <2>1. call' \in [Requests -> CallRecord]
    BY <1>18, <1>t DEF GetQueueStatus, TypeOK, CallRecord, Idle
  <2>2. QED
    BY <1>18, <1>t, <2>1 DEF GetQueueStatus, TypeInv, TypeOK, CountersOK,
       CancellationTypeOK, cancellationVars, jobVars
<1>19. CASE RestartServer
  <2>1. CancellationTypeOK'
    BY <1>19, <1>t DEF RestartServer, ForgetAllJobs, CancellationTypeOK
  <2>2. /\ worker' \in [Jobs -> WorkerStep]
        /\ \A j \in Jobs : worker'[j] \in {worker[j], "lost", "forgotten"}
    BY <1>19, <1>t DEF RestartServer, TypeOK, WorkerStep
  <2>3. call' \in [Requests -> CallRecord]
    <3>1. \A r \in Requests : call[r] \in CallRecord
      BY <1>t DEF TypeOK
    <3>2. ASSUME NEW r \in Requests
          PROVE  [call[r] EXCEPT !.step = "answered", !.ok = FALSE] \in CallRecord
      <4>1. call[r] \in CallRecord
        BY <3>1
      <4>2. QED
        BY <4>1 DEF CallRecord
    <3> DEFINE c(r) == [call[r] EXCEPT !.step = "answered", !.ok = FALSE]
    <3>3. \A r \in Requests : c(r) \in CallRecord
      BY <3>2
    <3>4. call' = [r \in Requests |-> IF call[r].step \in {"found", "signalled"}
                                         THEN c(r) ELSE call[r]]
      BY <1>19 DEF RestartServer
    <3> HIDE DEF c
    <3>5. QED
      BY <3>1, <3>3, <3>4
  <2>4. TypeOK'
    <3>1. restarts' \in 0 .. MaxRestarts
      <4>1. restarts \in 0 .. MaxRestarts
        BY <1>t DEF TypeOK
      <4>2. restarts < MaxRestarts /\ restarts' = restarts + 1
        BY <1>19 DEF RestartServer
      <4>3. QED
        BY <4>1, <4>2
    <3>2. activeQueues' \in [Instances -> SUBSET Jobs]
      BY <1>19, <1>t DEF RestartServer, TypeOK
    <3>3. QED
      BY <1>19, <1>t, <2>1, <2>2, <2>3, <3>1, <3>2 DEF RestartServer, TypeOK
  <2>5. CountersOK'
    BY <1>19, <1>t, <2>2 DEF RestartServer, CountersOK, TypeOK
  <2>6. QED
    BY <2>4, <2>5 DEF TypeInv
<1>20. CASE UNCHANGED vars
  BY <1>20, <1>t DEF vars, cancellationVars, jobVars, TypeInv, TypeOK, CountersOK,
     CancellationTypeOK
<1>21. QED
  BY <1>1, <1>2, <1>3, <1>4, <1>5, <1>6, <1>7, <1>8, <1>9, <1>10, <1>11, <1>12, <1>13,
     <1>14, <1>15, <1>16, <1>17, <1>18, <1>19, <1>20 DEF Next, TaskStep, RequestStep

(***************************************************************************)
(* Every variable keeps its type; in particular the counters of a queue    *)
(* never exceed its number of files.                                       *)
(***************************************************************************)
THEOREM TypeCorrect == Spec => []TypeOK
<1>1. TypeInv => TypeOK
  BY DEF TypeInv
<1>2. QED
  BY <1>1, InitTypeInv, NextTypeInv, PTL DEF Spec

-----------------------------------------------------------------------------
(***************************************************************************)
(* The token of a job.  Disposal is what must not happen early, so the     *)
(* strengthening says where a task can be once its source is disposed of.  *)
(***************************************************************************)
TokenInv ==
  \A j \in Jobs :
    /\ activeJobs[j] \in {NoSource, j}
    /\ activeJobs[j] = j <=> worker[j] \in Running
    /\ sources[j].disposed => worker[j] \in {"retained", "forgotten", "lost"}

\* Before the first upload the token table is empty.
LEMMA InitTokenInv == Init => TokenInv
<1> SUFFICES ASSUME Init, NEW j \in Jobs
             PROVE  /\ activeJobs[j] = NoSource /\ NoSource # j
                    /\ worker[j] = "absent" /\ ~sources[j].disposed
  BY DEF TokenInv, Running
<1>1. Uploads = Jobs /\ JobIds = Jobs /\ NoSource # j
  BY NoSourceAssumption, FileQueueAssumption DEF Jobs
<1>2. QED
  BY <1>1 DEF Init, CancellationInit

(***************************************************************************)
(* A step that leaves the tokens alone, and the task of every job inside   *)
(* or outside its run, keeps TokenInv.                                     *)
(***************************************************************************)
LEMMA TokenInvKept ==
  ASSUME TokenInv, UNCHANGED cancellationVars,
         \A j \in Jobs : \/ worker'[j] = worker[j]
                         \/ worker[j] \in Running /\ worker'[j] \in Running
                         \/ worker[j] = "absent" /\ worker'[j] = "scheduled"
                         \/ worker[j] = "retained" /\ worker'[j] = "forgotten"
  PROVE  TokenInv'
<1> SUFFICES ASSUME NEW j \in Jobs
             PROVE  /\ activeJobs'[j] \in {NoSource, j}
                    /\ activeJobs'[j] = j <=> worker'[j] \in Running
                    /\ sources'[j].disposed => worker'[j] \in {"retained", "forgotten", "lost"}
  BY DEF TokenInv
<1>1. /\ activeJobs[j] \in {NoSource, j}
      /\ activeJobs[j] = j <=> worker[j] \in Running
      /\ sources[j].disposed => worker[j] \in {"retained", "forgotten", "lost"}
  BY DEF TokenInv
<1>2. activeJobs' = activeJobs /\ sources' = sources
  BY DEF cancellationVars
<1>3. QED
  BY <1>1, <1>2 DEF Running

\* Only StartTask registers the token of a job and only ReleaseJob, or the death of
\* the process, takes it out.
LEMMA NextTokenInv == TypeInv /\ TokenInv /\ [Next]_vars => TokenInv'
<1> SUFFICES ASSUME TypeInv, TokenInv, [Next]_vars PROVE TokenInv'
  OBVIOUS
<1> USE FileQueueAssumption, NoSourceAssumption
<1>t. /\ Uploads = Jobs /\ JobIds = Jobs
      /\ worker \in [Jobs -> WorkerStep]
      /\ activeJobs \in [Jobs -> Jobs \cup {NoSource}]
      /\ sources \in [Jobs -> SourceState]
      /\ NoSource \notin Jobs
  BY DEF TypeInv, TypeOK, CancellationTypeOK, Jobs
<1>1. ASSUME NEW j \in Jobs, QueueMultipleFiles(j) PROVE TokenInv'
  BY <1>1, <1>t, TokenInvKept DEF QueueMultipleFiles, Goto
<1>2. ASSUME NEW j \in Jobs, StartTask(j) PROVE TokenInv'
  <2>1. activeJobs[j] = NoSource /\ ~sources[j].disposed
    BY <1>2, <1>t DEF StartTask, TokenInv, Running
  <2>2. /\ activeJobs' = [activeJobs EXCEPT ![j] = j]
        /\ \A i \in Jobs : sources'[i].disposed = sources[i].disposed
        /\ worker' = [worker EXCEPT ![j] = "registered"]
    BY <1>2, <1>t, <2>1 DEF StartTask, CreateJobCancellation, Goto, SourceState
  <2>3. QED
    BY <1>t, <2>1, <2>2 DEF TokenInv, Running
<1>3. ASSUME NEW j \in Jobs,
             \/ BeginQueue(j) \/ StartFile(j) \/ AbortQueue(j) \/ CommitFile(j)
             \/ SaveFile(j) \/ LogQueueCompletionHistory(j) \/ AnnounceCompletion(j)
      PROVE TokenInv'
  <2>1. /\ UNCHANGED cancellationVars
        /\ worker[j] \in Running
        /\ \E step \in Running : worker' = [worker EXCEPT ![j] = step]
    BY <1>3 DEF BeginQueue, StartFile, AbortQueue, AbortThen, CommitFile, SaveFile,
       LogQueueCompletionHistory, AnnounceCompletion, Goto, Running
  <2>2. QED
    BY <1>t, <2>1, TokenInvKept
<1>4. ASSUME NEW j \in Jobs, FailFile(j) \/ FinishQueue(j) PROVE TokenInv'
  <2>1. /\ UNCHANGED cancellationVars
        /\ worker[j] \in Running
        /\ \E step \in Running : worker' = [worker EXCEPT ![j] = step]
    BY <1>4 DEF FailFile, AfterFailure, FinishQueue, Goto, Running
  <2>2. QED
    BY <1>t, <2>1, TokenInvKept
<1>5. ASSUME NEW j \in Jobs, ReleaseJob(j) PROVE TokenInv'
  <2>1. activeJobs[j] = j
    BY <1>5 DEF ReleaseJob, TokenInv, Running
  <2>2. /\ activeJobs' = [activeJobs EXCEPT ![j] = NoSource]
        /\ \A i \in Jobs \ {j} : sources'[i].disposed = sources[i].disposed
        /\ worker' = [worker EXCEPT ![j] = "retained"]
    BY <1>5, <1>t, <2>1 DEF ReleaseJob, RemoveJob, Goto
  <2>3. QED
    BY <1>t, <2>2 DEF TokenInv, Running
<1>6. ASSUME NEW j \in Jobs, ForgetQueue(j) PROVE TokenInv'
  BY <1>6, <1>t, TokenInvKept DEF ForgetQueue, Goto
<1>7. ASSUME NEW r \in Requests, SignalJob(r) PROVE TokenInv'
  <2>1. \A i \in Jobs : sources'[i].disposed = sources[i].disposed
    BY <1>7, <1>t DEF SignalJob, CancelSource, SourceState
  <2>2. UNCHANGED <<activeJobs, worker>>
    BY <1>7 DEF SignalJob, CancelSource, jobVars
  <2>3. QED
    BY <2>1, <2>2 DEF TokenInv
<1>8. ASSUME NEW r \in Requests,
             \/ \E j \in Jobs, op \in {"CancelQueue", "CancelMigration"} : LookupJob(r, j, op)
             \/ CancelQueue(r) \/ CancelMigration(r)
             \/ \E j \in Jobs : GetQueueStatus(r, j)
      PROVE TokenInv'
  <2>1. UNCHANGED <<cancellationVars, worker>>
    BY <1>8 DEF LookupJob, CancelQueue, CancelMigration, GetQueueStatus, jobVars
  <2>2. QED
    BY <2>1, TokenInvKept
<1>9. CASE RestartServer
  <2>1. /\ activeJobs' = [j \in Jobs |-> NoSource]
        /\ UNCHANGED sources
    BY <1>9, <1>t DEF RestartServer, ForgetAllJobs
  <2>2. \A j \in Jobs : /\ worker'[j] \notin Running
                        /\ worker[j] \in {"retained", "forgotten", "lost"}
                             => worker'[j] \in {"forgotten", "lost"}
    BY <1>9, <1>t DEF RestartServer, Running
  <2>3. QED
    BY <1>t, <2>1, <2>2 DEF TokenInv
<1>10. CASE UNCHANGED vars
  BY <1>10, TokenInvKept DEF vars, jobVars
<1>11. QED
  BY <1>1, <1>2, <1>3, <1>4, <1>5, <1>6, <1>7, <1>8, <1>9, <1>10
  DEF Next, TaskStep, RequestStep

(***************************************************************************)
(* The token of a job is in the table, and alive, from the first to the    *)
(* last step of its task, and never stays behind.                          *)
(***************************************************************************)
THEOREM TokenSafe == Spec => []TokenHeldWhileRunning
<1>1. TypeInv /\ TokenInv => TokenHeldWhileRunning
  BY NoSourceAssumption, FileQueueAssumption
  DEF TokenInv, TokenHeldWhileRunning, Running, Jobs
<1>2. Init => TypeInv /\ TokenInv
  BY InitTypeInv, InitTokenInv
<1>3. (TypeInv /\ TokenInv) /\ [Next]_vars => (TypeInv /\ TokenInv)'
  BY NextTypeInv, NextTokenInv
<1>4. QED
  BY <1>1, <1>2, <1>3, PTL DEF Spec

-----------------------------------------------------------------------------
(***************************************************************************)
(* What FileQueueService records and announces of a job is what happened   *)
(* to its files.                                                           *)
(***************************************************************************)
Tried(j) == 1 .. cur[j] - 1

\* The outcome of a job no longer changes: all files tried, or one failed.
Settled(j) == failedFiles[j] > 0 \/ cur[j] = size[j] + 1

\* Where the task is once the history row may be there.
Logged == {"announce", "release", "retained", "forgotten", "lost"}

(***************************************************************************)
(* The counters of a job agree with what is imported, and a history row is *)
(* written once, of a settled job.                                         *)
(***************************************************************************)
JobOutcome(j) ==
  /\ Imported(j) \subseteq Tried(j)
  /\ failedFiles[j] = 0 => Imported(j) = Tried(j)
  /\ failedFiles[j] > 0 => \E i \in Tried(j) : i \notin Imported(j)
  /\ completedFiles[j] = 0 <=> Imported(j) = {}
  /\ worker[j] = "finish" => failedFiles[j] > 0
  /\ worker[j] \in {"log", "announce"} => Settled(j)
  /\ history[j] # {} => /\ worker[j] \in Logged
                        /\ Settled(j)
                        /\ history[j] = {HistoryOf(completedFiles[j], failedFiles[j])}

OutcomeInv == \A j \in Jobs : JobOutcome(j)

(***************************************************************************)
(* A step that tries no file and writes no history row keeps the outcome   *)
(* of a job, if it sends the task only where the outcome allows it.        *)
(***************************************************************************)
LEMMA JobOutcomeKept ==
  ASSUME NEW j \in Jobs, JobOutcome(j),
         UNCHANGED <<size, cur, completedFiles, failedFiles, saved, unsaved, history>>,
         worker'[j] = "finish" => failedFiles[j] > 0,
         worker'[j] \in {"log", "announce"} => Settled(j),
         worker[j] \in Logged /\ history[j] # {} => worker'[j] \in Logged
  PROVE  JobOutcome(j)'
  BY DEF JobOutcome, Imported, Tried, Settled

\* Before the first upload nothing is imported and no file has failed.
LEMMA InitOutcomeInv == Init => OutcomeInv
<1> SUFFICES ASSUME Init, NEW j \in Jobs PROVE JobOutcome(j)
  BY DEF OutcomeInv
<1>1. /\ saved[j] = {} /\ unsaved[j] = {} /\ history[j] = {}
      /\ cur[j] = 1 /\ completedFiles[j] = 0 /\ failedFiles[j] = 0
      /\ worker[j] = "absent"
  BY DEF Init
<1>2. QED
  BY <1>1 DEF JobOutcome, Imported, Tried

\* Every file tried is counted once, as imported or as failed, and only a settled
\* job writes its history row.
LEMMA NextOutcomeInv == TypeInv /\ OutcomeInv /\ [Next]_vars => OutcomeInv'
<1> SUFFICES ASSUME TypeInv, OutcomeInv, [Next]_vars, NEW i \in Jobs PROVE JobOutcome(i)'
  BY DEF OutcomeInv
<1>t. /\ JobOutcome(i)
      /\ worker \in [Jobs -> WorkerStep]
      /\ cur \in [Jobs -> 1 .. MaxFiles + 1] /\ size \in [Jobs -> 1 .. MaxFiles]
      /\ completedFiles \in [Jobs -> 0 .. MaxFiles] /\ failedFiles \in [Jobs -> 0 .. MaxFiles]
      /\ saved \in [Jobs -> SUBSET (1 .. MaxFiles)]
      /\ unsaved \in [Jobs -> SUBSET (1 .. MaxFiles)]
      /\ history \in [Jobs -> SUBSET HistoryStatus]
      /\ \A j \in Jobs : cur[j] \in Nat /\ size[j] \in Nat /\ failedFiles[j] \in Nat
                         /\ completedFiles[j] \in Nat
      /\ MaxFiles \in Nat
  BY FileQueueAssumption DEF TypeInv, TypeOK, OutcomeInv
<1>1. ASSUME NEW j \in Jobs, QueueMultipleFiles(j) PROVE JobOutcome(i)'
  <2>1. /\ UNCHANGED <<cur, completedFiles, failedFiles, saved, unsaved, history>>
        /\ worker[j] = "absent" /\ worker' = [worker EXCEPT ![j] = "scheduled"]
        /\ \E n \in 1 .. MaxFiles : size' = [size EXCEPT ![j] = n]
    BY <1>1 DEF QueueMultipleFiles, Goto
  <2>2. CASE i = j
    <3>1. history[j] = {}
      BY <1>t, <2>1, <2>2 DEF JobOutcome, Logged
    <3>2. QED
      BY <1>t, <2>1, <2>2, <3>1 DEF JobOutcome, Imported, Tried
  <2>3. CASE i # j
    BY <1>t, <2>1, <2>3 DEF JobOutcome, Imported, Tried, Settled
  <2>4. QED
    BY <2>2, <2>3
<1>2. ASSUME NEW j \in Jobs,
             \/ StartTask(j) \/ BeginQueue(j) \/ StartFile(j) \/ AbortQueue(j)
             \/ CommitFile(j) \/ AnnounceCompletion(j) \/ ReleaseJob(j) \/ ForgetQueue(j)
      PROVE JobOutcome(i)'
  <2>1. /\ UNCHANGED <<size, cur, completedFiles, failedFiles, saved, unsaved, history>>
        /\ \E step \in WorkerStep \ {"finish", "log", "announce"} :
             /\ worker' = [worker EXCEPT ![j] = step]
             /\ worker[j] \in Logged => step \in Logged
    BY <1>2 DEF StartTask, BeginQueue, StartFile, AbortQueue, AbortThen, CommitFile,
       AnnounceCompletion, ReleaseJob, ForgetQueue, Goto, WorkerStep, Logged
  <2>2. /\ worker'[i] = "finish" => failedFiles[i] > 0
        /\ worker'[i] \in {"log", "announce"} => Settled(i)
        /\ worker[i] \in Logged => worker'[i] \in Logged
    BY <1>t, <2>1 DEF JobOutcome
  <2>3. QED
    BY <1>t, <2>1, <2>2, JobOutcomeKept
<1>3. ASSUME NEW j \in Jobs, FailFile(j) PROVE JobOutcome(i)'
  <2>1. /\ UNCHANGED <<size, completedFiles, saved, unsaved, history>>
        /\ worker[j] = "importing"
        /\ worker' = [worker EXCEPT ![j] = AfterFailure(j)]
        /\ cur' = [cur EXCEPT ![j] = @ + 1]
        /\ failedFiles' = [failedFiles EXCEPT ![j] = @ + 1]
    BY <1>3 DEF FailFile, Goto
  <2>2. CASE i = j
    <3>1. history[i] = {}
      BY <1>t, <2>1, <2>2 DEF JobOutcome, Logged
    <3>2. /\ Imported(i)' = Imported(i)
          /\ failedFiles'[i] > 0
          /\ cur[i] \in Tried(i)' /\ cur[i] \notin Imported(i)
          /\ Tried(i) \subseteq Tried(i)'
      BY <1>t, <2>1, <2>2 DEF JobOutcome, Imported, Tried
    <3>3. worker'[i] \in {"loop", "finish"}
      BY <1>t, <2>1, <2>2 DEF AfterFailure
    <3>4. QED
      BY <1>t, <2>1, <3>1, <3>2, <3>3 DEF JobOutcome
  <2>3. CASE i # j
    BY <1>t, <2>1, <2>3 DEF JobOutcome, Imported, Tried, Settled
  <2>4. QED
    BY <2>2, <2>3
<1>4. ASSUME NEW j \in Jobs, SaveFile(j) PROVE JobOutcome(i)'
  <2>1. /\ UNCHANGED <<size, failedFiles, history>>
        /\ worker[j] = "saving"
        /\ worker' = [worker EXCEPT ![j] = "loop"]
        /\ cur' = [cur EXCEPT ![j] = @ + 1]
        /\ completedFiles' = [completedFiles EXCEPT ![j] = @ + 1]
    BY <1>4 DEF SaveFile, Goto
  <2>2. \/ saved' = [saved EXCEPT ![j] = @ \cup {cur[j]}] /\ UNCHANGED unsaved
        \/ unsaved' = [unsaved EXCEPT ![j] = @ \cup {cur[j]}] /\ UNCHANGED saved
    BY <1>4 DEF SaveFile
  <2>3. CASE i = j
    <3>1. history[i] = {}
      BY <1>t, <2>1, <2>3 DEF JobOutcome, Logged
    <3>2. Imported(i)' = Imported(i) \cup {cur[i]}
      BY <1>t, <2>2, <2>3 DEF Imported
    <3>3. Tried(i)' = Tried(i) \cup {cur[i]} /\ cur[i] \notin Tried(i)
      BY <1>t, <2>1, <2>3 DEF Tried
    <3>4. /\ completedFiles'[i] > 0 /\ worker'[i] = "loop"
          /\ failedFiles'[i] = failedFiles[i] /\ history'[i] = {}
      BY <1>t, <2>1, <2>3, <3>1
    <3>5. QED
      BY <1>t, <3>2, <3>3, <3>4 DEF JobOutcome
  <2>4. CASE i # j
    <3>1. Imported(i)' = Imported(i)
      BY <1>t, <2>2, <2>4 DEF Imported
    <3>2. QED
      BY <1>t, <2>1, <2>4, <3>1 DEF JobOutcome, Tried, Settled
  <2>5. QED
    BY <2>3, <2>4
<1>5. ASSUME NEW j \in Jobs, FinishQueue(j) PROVE JobOutcome(i)'
  <2>1. /\ UNCHANGED <<size, cur, completedFiles, failedFiles, saved, unsaved, history>>
        /\ worker' = [worker EXCEPT ![j] = "log"]
        /\ worker[j] \notin Logged
    BY <1>5 DEF FinishQueue, Goto, Logged
  <2>2. i = j => Settled(i)
    <3>1. CASE worker[j] = "finish"
      BY <1>t, <3>1 DEF JobOutcome, Settled
    <3>2. CASE worker[j] = "loop" /\ cur[j] \notin FilesOf(j)
      <4>1. cur[j] <= size[j] + 1 /\ cur[j] >= 1
        BY <1>t DEF TypeInv, CountersOK
      <4>2. QED
        BY <1>t, <3>2, <4>1 DEF FilesOf, Settled
    <3>3. QED
      BY <1>5, <3>1, <3>2 DEF FinishQueue
  <2>3. /\ worker'[i] = "finish" => failedFiles[i] > 0
        /\ worker'[i] \in {"log", "announce"} => Settled(i)
        /\ worker[i] \in Logged => worker'[i] \in Logged
    BY <1>t, <2>1, <2>2 DEF JobOutcome
  <2>4. QED
    BY <1>t, <2>1, <2>3, JobOutcomeKept
<1>6. ASSUME NEW j \in Jobs, LogQueueCompletionHistory(j) PROVE JobOutcome(i)'
  <2>1. /\ UNCHANGED <<size, cur, completedFiles, failedFiles, saved, unsaved>>
        /\ worker[j] = "log"
        /\ worker' = [worker EXCEPT ![j] = "announce"]
        /\ \/ history' = [history EXCEPT ![j] =
                            @ \cup {HistoryOf(completedFiles[j], failedFiles[j])}]
           \/ UNCHANGED history
    BY <1>6 DEF LogQueueCompletionHistory, Goto
  <2>2. CASE i = j
    <3>1. history[i] = {} /\ Settled(i)
      BY <1>t, <2>1, <2>2 DEF JobOutcome, Logged
    <3>2. history'[i] \in {{}, {HistoryOf(completedFiles[i], failedFiles[i])}}
      BY <1>t, <2>1, <2>2, <3>1
    <3>3. worker'[i] = "announce"
      BY <1>t, <2>1, <2>2
    <3>4. QED
      BY <1>t, <2>1, <3>1, <3>2, <3>3 DEF JobOutcome, Imported, Tried, Settled, Logged
  <2>3. CASE i # j
    BY <1>t, <2>1, <2>3 DEF JobOutcome, Imported, Tried, Settled
  <2>4. QED
    BY <2>2, <2>3
<1>7. ASSUME NEW r \in Requests, RequestStep(r) PROVE JobOutcome(i)'
  <2>1. UNCHANGED <<worker, size, cur, completedFiles, failedFiles, saved, unsaved, history>>
    BY <1>7 DEF RequestStep, LookupJob, SignalJob, CancelQueue, CancelMigration,
       GetQueueStatus, jobVars
  <2>2. QED
    BY <1>t, <2>1, JobOutcomeKept DEF JobOutcome
<1>8. CASE RestartServer
  <2>1. /\ UNCHANGED <<size, cur, completedFiles, failedFiles, saved, unsaved, history>>
        /\ worker'[i] \in {"absent", "forgotten", "lost"}
        /\ worker[i] \in Logged => worker'[i] \in Logged
    BY <1>8, <1>t DEF RestartServer, Running, WorkerStep, Logged
  <2>2. QED
    BY <1>t, <2>1, JobOutcomeKept
<1>9. CASE UNCHANGED vars
  BY <1>9, <1>t, JobOutcomeKept DEF vars, jobVars, JobOutcome
<1>10. QED
  BY <1>1, <1>2, <1>3, <1>4, <1>5, <1>6, <1>7, <1>8, <1>9 DEF Next, TaskStep

(***************************************************************************)
(* A settled job whose counters agree with what was imported is recorded   *)
(* as what it is.                                                          *)
(***************************************************************************)
LEMMA HistoryOfSettledJob ==
  ASSUME TypeInv, NEW j \in Jobs, JobOutcome(j), Settled(j)
  PROVE  LET h == HistoryOf(completedFiles[j], failedFiles[j])
         IN  /\ h = "Success" <=> Imported(j) = FilesOf(j)
             /\ h = "Failed" <=> Imported(j) = {}
<1>1. /\ cur[j] \in Nat /\ size[j] \in Nat \ {0}
      /\ completedFiles[j] \in Nat /\ failedFiles[j] \in Nat
      /\ completedFiles[j] + failedFiles[j] = cur[j] - 1
      /\ cur[j] <= size[j] + 1
  BY FileQueueAssumption DEF TypeInv, TypeOK, CountersOK
<1>2. Tried(j) \subseteq FilesOf(j)
  BY <1>1 DEF Tried, FilesOf
<1>3. CASE failedFiles[j] = 0
  <2>1. cur[j] = size[j] + 1 /\ completedFiles[j] # 0
    BY <1>1, <1>3 DEF Settled
  <2>2. Imported(j) = FilesOf(j)
    BY <1>1, <1>3, <2>1 DEF JobOutcome, Tried, FilesOf
  <2>3. Imported(j) # {}
    BY <1>1, <2>2 DEF FilesOf
  <2>4. QED
    BY <1>3, <2>2, <2>3 DEF HistoryOf
<1>4. CASE failedFiles[j] > 0
  <2>1. PICK i \in Tried(j) : i \notin Imported(j)
    BY <1>4 DEF JobOutcome
  <2>2. Imported(j) # FilesOf(j)
    BY <1>2, <2>1
  <2>3. QED
    BY <1>1, <1>4, <2>2 DEF HistoryOf, JobOutcome
<1>5. QED
  BY <1>1, <1>3, <1>4

(***************************************************************************)
(* The row in BulkUploadHistories tells what happened to the files.        *)
(***************************************************************************)
THEOREM HistoryTruthful == Spec => []HistoryTellsOutcome
<1>1. TypeInv /\ OutcomeInv => HistoryTellsOutcome
  <2> SUFFICES ASSUME TypeInv, OutcomeInv, NEW j \in Jobs, NEW h \in history[j]
               PROVE  /\ h = "Success" <=> Imported(j) = FilesOf(j)
                      /\ h = "Failed" <=> Imported(j) = {}
    BY DEF HistoryTellsOutcome
  <2>1. /\ JobOutcome(j) /\ Settled(j)
        /\ h = HistoryOf(completedFiles[j], failedFiles[j])
    BY DEF OutcomeInv, JobOutcome
  <2>2. QED
    BY <2>1, HistoryOfSettledJob
<1>2. Init => TypeInv /\ OutcomeInv
  BY InitTypeInv, InitOutcomeInv
<1>3. (TypeInv /\ OutcomeInv) /\ [Next]_vars => (TypeInv /\ OutcomeInv)'
  BY NextTypeInv, NextOutcomeInv
<1>4. QED
  BY <1>1, <1>2, <1>3, PTL DEF Spec

-----------------------------------------------------------------------------
Verdict == {"JobSucceeded", "JobFailed"}
VerdictsIn(e) == {n \in DOMAIN e : e[n] \in Verdict}
Announced == {"release", "retained", "forgotten"}

(***************************************************************************)
(* The verdict of a job is sent once, by the step that ends its task's     *)
(* work, and it is a success only for a settled job without a failure.     *)
(***************************************************************************)
JobVerdict(j) ==
  /\ worker[j] \in Announced => \E n \in Nat : VerdictsIn(events[j]) = {n}
  /\ worker[j] = "lost" => \/ VerdictsIn(events[j]) = {}
                           \/ \E n \in Nat : VerdictsIn(events[j]) = {n}
  /\ worker[j] \notin Announced \cup {"lost"} => VerdictsIn(events[j]) = {}
  /\ Sent(j, "JobSucceeded") => failedFiles[j] = 0 /\ Settled(j)

VerdictInv == \A j \in Jobs : JobVerdict(j)

\* A message appended to those of a job adds at most its own place to the verdicts.
LEMMA AppendVerdict ==
  ASSUME NEW e \in Seq(Event), NEW x \in Event
  PROVE  /\ Append(e, x) \in Seq(Event)
         /\ x \notin Verdict => VerdictsIn(Append(e, x)) = VerdictsIn(e)
         /\ x \in Verdict => VerdictsIn(Append(e, x)) = VerdictsIn(e) \cup {Len(e) + 1}
<1>1. /\ Append(e, x) \in Seq(Event)
      /\ DOMAIN e = 1 .. Len(e) /\ Len(e) \in Nat
      /\ DOMAIN Append(e, x) = 1 .. Len(e) + 1
      /\ \A n \in 1 .. Len(e) : Append(e, x)[n] = e[n]
      /\ Append(e, x)[Len(e) + 1] = x
  OBVIOUS
<1>2. QED
  BY <1>1 DEF VerdictsIn

\* A message has been sent after another one is appended if it was sent before or
\* is that one.
LEMMA AppendSent ==
  ASSUME NEW e \in Seq(Event), NEW x \in Event,
         NEW n \in DOMAIN Append(e, x)
  PROVE  \/ n \in DOMAIN e /\ Append(e, x)[n] = e[n]
         \/ Append(e, x)[n] = x
  OBVIOUS

(***************************************************************************)
(* A step that sends no verdict and does not try a file keeps JobVerdict.  *)
(***************************************************************************)
LEMMA JobVerdictKept ==
  ASSUME NEW j \in Jobs, JobVerdict(j), events[j] \in Seq(Event),
         \/ events'[j] = events[j]
         \/ \E x \in Event \ Verdict : events'[j] = Append(events[j], x),
         UNCHANGED <<size, cur, failedFiles>>,
         \/ worker'[j] = worker[j]
         \/ worker[j] \in Announced /\ worker'[j] \in Announced
         \/ worker[j] \notin Announced \cup {"lost"} /\ worker'[j] \notin Announced
         \/ worker'[j] = "lost"
  PROVE  JobVerdict(j)'
<1>1. VerdictsIn(events'[j]) = VerdictsIn(events[j])
  BY AppendVerdict
<1>2. Sent(j, "JobSucceeded")' => Sent(j, "JobSucceeded")
  <2>1. CASE events'[j] = events[j]
    BY <2>1 DEF Sent
  <2>2. CASE \E x \in Event \ Verdict : events'[j] = Append(events[j], x)
    <3>1. PICK x \in Event \ Verdict : events'[j] = Append(events[j], x)
      BY <2>2
    <3>2. ASSUME NEW n \in DOMAIN events'[j], events'[j][n] = "JobSucceeded"
          PROVE  n \in DOMAIN events[j] /\ events[j][n] = "JobSucceeded"
      <4>1. x # "JobSucceeded"
        BY DEF Verdict
      <4>2. QED
        BY <3>1, <3>2, <4>1, AppendSent
    <3>3. QED
      BY <3>2 DEF Sent
  <2>3. QED
    BY <2>1, <2>2
<1>3. Settled(j)' = Settled(j) /\ failedFiles'[j] = failedFiles[j]
  BY DEF Settled
<1>4. QED
  BY <1>1, <1>2, <1>3 DEF JobVerdict, Announced

\* Before its verdict a job has not been called a success.
LEMMA NothingSent ==
  ASSUME NEW j, VerdictsIn(events[j]) = {}
  PROVE  ~Sent(j, "JobSucceeded") /\ ~Sent(j, "JobFailed")
  BY DEF VerdictsIn, Sent, Verdict

(***************************************************************************)
(* The step that sends the verdict of a job that has none yet.             *)
(***************************************************************************)
LEMMA JobVerdictSent ==
  ASSUME NEW j \in Jobs, JobVerdict(j), events[j] \in Seq(Event),
         NEW x \in Verdict, events'[j] = Append(events[j], x),
         worker[j] \notin Announced \cup {"lost"}, worker'[j] \in Announced,
         UNCHANGED <<size, cur, failedFiles>>,
         x = "JobSucceeded" => failedFiles[j] = 0 /\ Settled(j)
  PROVE  JobVerdict(j)'
<1>1. VerdictsIn(events[j]) = {} /\ x \in Event
  BY DEF JobVerdict, Verdict, Event
<1>2. VerdictsIn(events'[j]) = {Len(events[j]) + 1} /\ Len(events[j]) + 1 \in Nat
  BY <1>1, AppendVerdict
<1>3. Sent(j, "JobSucceeded")' => x = "JobSucceeded"
  <2>1. ASSUME NEW n \in DOMAIN events'[j], events'[j][n] = "JobSucceeded"
        PROVE  x = "JobSucceeded"
    BY <1>1, <2>1, AppendSent, NothingSent DEF Sent
  <2>2. QED
    BY <2>1 DEF Sent
<1>4. Settled(j)' = Settled(j) /\ failedFiles'[j] = failedFiles[j]
  BY DEF Settled
<1>5. QED
  BY <1>2, <1>3, <1>4 DEF JobVerdict, Announced

\* Before the first upload no job has a verdict.
LEMMA InitVerdictInv == Init => VerdictInv
<1> SUFFICES ASSUME Init, NEW j \in Jobs PROVE JobVerdict(j)
  BY DEF VerdictInv
<1>1. events[j] = << >> /\ worker[j] = "absent"
  BY DEF Init
<1>2. VerdictsIn(events[j]) = {}
  BY <1>1 DEF VerdictsIn
<1>3. QED
  BY <1>1, <1>2, NothingSent DEF JobVerdict, Announced

\* Only AbortQueue and AnnounceCompletion send a verdict, each to a job that has none.
LEMMA NextVerdictInv == TypeInv /\ OutcomeInv /\ VerdictInv /\ [Next]_vars => VerdictInv'
<1> SUFFICES ASSUME TypeInv, OutcomeInv, VerdictInv, [Next]_vars, NEW i \in Jobs
             PROVE  JobVerdict(i)'
  BY DEF VerdictInv
<1>t. /\ JobVerdict(i) /\ JobOutcome(i)
      /\ worker \in [Jobs -> WorkerStep]
      /\ events \in [Jobs -> Seq(Event)] /\ events[i] \in Seq(Event)
      /\ size \in [Jobs -> 1 .. MaxFiles] /\ cur \in [Jobs -> 1 .. MaxFiles + 1]
      /\ failedFiles \in [Jobs -> 0 .. MaxFiles]
  BY DEF TypeInv, TypeOK, VerdictInv, OutcomeInv
<1>1. ASSUME NEW j \in Jobs, QueueMultipleFiles(j) \/ FailFile(j) \/ SaveFile(j)
      PROVE JobVerdict(i)'
  <2>1. /\ UNCHANGED events
        /\ worker[j] \notin Announced \cup {"lost"}
        /\ \E step \in WorkerStep \ (Announced \cup {"lost"}) :
             worker' = [worker EXCEPT ![j] = step]
        /\ \A k \in Jobs \ {j} : /\ size'[k] = size[k] /\ cur'[k] = cur[k]
                                 /\ failedFiles'[k] = failedFiles[k]
    BY <1>1, <1>t DEF QueueMultipleFiles, FailFile, SaveFile, AfterFailure, Goto, Announced,
       WorkerStep
  <2>2. CASE i = j
    <3>1. VerdictsIn(events'[i]) = {} /\ worker'[i] \notin Announced \cup {"lost"}
      BY <1>t, <2>1, <2>2 DEF JobVerdict
    <3>2. ~Sent(i, "JobSucceeded")'
      BY <3>1 DEF VerdictsIn, Sent, Verdict
    <3>3. QED
      BY <3>1, <3>2 DEF JobVerdict
  <2>3. CASE i # j
    BY <1>t, <2>1, <2>3 DEF JobVerdict, Sent, Settled
  <2>4. QED
    BY <2>2, <2>3
<1>2. ASSUME NEW j \in Jobs,
             \/ StartTask(j) \/ BeginQueue(j) \/ StartFile(j) \/ CommitFile(j)
             \/ FinishQueue(j) \/ LogQueueCompletionHistory(j)
             \/ ReleaseJob(j) \/ ForgetQueue(j)
      PROVE JobVerdict(i)'
  <2>1. /\ UNCHANGED events \/ events' = [events EXCEPT ![j] = Append(@, "JobStarted")]
        /\ UNCHANGED <<size, cur, failedFiles>>
        /\ \E step \in WorkerStep :
             /\ worker' = [worker EXCEPT ![j] = step]
             /\ \/ worker[j] \in Announced /\ step \in Announced
                \/ worker[j] \notin Announced \cup {"lost"} /\ step \notin Announced
    BY <1>2 DEF StartTask, BeginQueue, StartFile, CommitFile, FinishQueue, Notify,
       LogQueueCompletionHistory, ReleaseJob, ForgetQueue, Goto, Announced, WorkerStep
  <2>2. /\ "JobStarted" \in Event \ Verdict
        /\ events'[i] = events[i] \/ events'[i] = Append(events[i], "JobStarted")
        /\ \/ worker'[i] = worker[i]
           \/ worker[i] \in Announced /\ worker'[i] \in Announced
           \/ worker[i] \notin Announced \cup {"lost"} /\ worker'[i] \notin Announced
    BY <1>t, <2>1 DEF Event, Verdict
  <2>3. QED
    BY <1>t, <2>1, <2>2, JobVerdictKept
<1>3. ASSUME NEW j \in Jobs, AbortQueue(j) \/ AnnounceCompletion(j) PROVE JobVerdict(i)'
  <2>1. /\ UNCHANGED <<size, cur, failedFiles>>
        /\ worker' = [worker EXCEPT ![j] = "release"]
        /\ worker[j] \notin Announced \cup {"lost"}
        /\ \E x \in Verdict : /\ events' = [events EXCEPT ![j] = Append(@, x)]
                              /\ x = "JobSucceeded" => /\ worker[j] = "announce"
                                                       /\ failedFiles[j] = 0
    BY <1>3 DEF AbortQueue, AbortThen, AnnounceCompletion, Notify, Goto, Verdict, Announced
  <2>2. CASE i = j
    <3>1. worker[i] = "announce" => Settled(i)
      BY <1>t DEF JobOutcome
    <3>2. QED
      BY <1>t, <2>1, <2>2, <3>1, JobVerdictSent DEF Announced
  <2>3. CASE i # j
    BY <1>t, <2>1, <2>3, JobVerdictKept
  <2>4. QED
    BY <2>2, <2>3
<1>4. ASSUME NEW r \in Requests, RequestStep(r) PROVE JobVerdict(i)'
  <2>1. /\ UNCHANGED <<worker, size, cur, failedFiles>>
        /\ \/ UNCHANGED events
           \/ events' = [events EXCEPT ![call[r].job] = Append(@, "JobError")]
    BY <1>4 DEF RequestStep, LookupJob, SignalJob, CancelQueue, CancelMigration,
       GetQueueStatus, jobVars, Notify
  <2>2. /\ "JobError" \in Event \ Verdict
        /\ events'[i] = events[i] \/ events'[i] = Append(events[i], "JobError")
    BY <1>t, <2>1 DEF Event, Verdict
  <2>3. QED
    BY <1>t, <2>1, <2>2, JobVerdictKept
<1>5. CASE RestartServer
  <2>1. /\ UNCHANGED <<events, size, cur, failedFiles>>
        /\ \/ worker'[i] = worker[i] \/ worker'[i] = "lost"
           \/ worker[i] \in Announced /\ worker'[i] \in Announced
    BY <1>5, <1>t DEF RestartServer, Announced
  <2>2. QED
    BY <1>t, <2>1, JobVerdictKept
<1>6. CASE UNCHANGED vars
  BY <1>6, <1>t, JobVerdictKept DEF vars, jobVars
<1>7. QED
  BY <1>1, <1>2, <1>3, <1>4, <1>5, <1>6 DEF Next, TaskStep

(***************************************************************************)
(* The client hears one verdict of a job, after its task has done its      *)
(* work, and a success only when every file was imported.                  *)
(***************************************************************************)
THEOREM OneVerdictPerJob == Spec => []OneVerdict
<1>1. TypeInv /\ OutcomeInv /\ VerdictInv => OneVerdict
  <2> SUFFICES ASSUME TypeInv, OutcomeInv, VerdictInv, NEW j \in Jobs
               PROVE  /\ \A m, n \in VerdictsIn(events[j]) : m = n
                      /\ worker[j] \in Over \cup {"release"} => VerdictsIn(events[j]) # {}
                      /\ VerdictsIn(events[j]) # {} =>
                           worker[j] \in Over \cup {"release", "lost"}
                      /\ Sent(j, "JobSucceeded") => Imported(j) = FilesOf(j)
    BY DEF OneVerdict, VerdictsIn, Verdict
  <2>1. JobVerdict(j) /\ JobOutcome(j)
    BY DEF VerdictInv, OutcomeInv
  <2>2. Sent(j, "JobSucceeded") => Imported(j) = FilesOf(j)
    BY <2>1, HistoryOfSettledJob DEF JobVerdict, HistoryOf
  <2>3. QED
    BY <2>1, <2>2 DEF JobVerdict, Announced, Over
<1>2. Init => TypeInv /\ OutcomeInv /\ VerdictInv
  BY InitTypeInv, InitOutcomeInv, InitVerdictInv
<1>3. (TypeInv /\ OutcomeInv /\ VerdictInv) /\ [Next]_vars
        => (TypeInv /\ OutcomeInv /\ VerdictInv)'
  BY NextTypeInv, NextOutcomeInv, NextVerdictInv
<1>4. QED
  BY <1>1, <1>2, <1>3, PTL DEF Spec

-----------------------------------------------------------------------------
(***************************************************************************)
(* The marks of a job's files: what they say when a queue is over, and     *)
(* that a queue is called cancelled only after a request that reached its  *)
(* token.  Both rest on service objects that are not shared, so that no    *)
(* request writes to the queue of a job.                                   *)
(***************************************************************************)
Asks == {"CancelQueue", "CancelMigration"}

\* Request r has cancelled the token of job j, or has found it gone.
Reached(r, j) == /\ call[r].job = j /\ call[r].op \in Asks
                 /\ call[r].step \in {"signalled", "answered"}

(***************************************************************************)
(* A token is cancelled by the request that found it, and a queue is in no *)
(* other service object than that of its job.                              *)
(***************************************************************************)
RequestInv ==
  /\ \A r \in Requests : call[r].step = "found" => call[r].op \in Asks
  /\ \A j \in Jobs : sources[j].cancelled => \E r \in Requests : Reached(r, j)
  /\ \A s \in Instances : \A j \in activeQueues[s] : s = ServiceFor[j]

\* The file before the current one failed.
Broken(j) == cur[j] > 1 /\ file[j][cur[j] - 1] = "Failed"

\* The files before the current one have been tried, those after it have not.
MarksOK(j) ==
  /\ \A i \in 1 .. MaxFiles : /\ i < cur[j] => file[j][i] \in {"Completed", "Failed"}
                              /\ i > cur[j] => file[j][i] = "Queued"
  /\ cur[j] <= MaxFiles =>
       \/ file[j][cur[j]] = "Queued"
       \/ /\ file[j][cur[j]] = "Processing"
          /\ worker[j] \in {"importing", "saving", "lost"}

\* The task is past its loop, or has left it by a cancellation.
Ending == {"release", "retained", "forgotten"}

MarkedCancelled(j) ==
  /\ worker[j] \in Ending \cup {"lost"}
  /\ sources[j].cancelled
  /\ \A i \in FilesOf(j) : file[j][i] \notin {"Queued", "Processing"}

(***************************************************************************)
(* The strengthening that is inductive: marks follow the task, and past    *)
(* the loop a file is left only behind one that failed.                    *)
(***************************************************************************)
JobFiles(j) ==
  /\ status[j] = "Cancelled" => MarkedCancelled(j)
  /\ status[j] # "Cancelled" => MarksOK(j)
  /\ worker[j] = "finish" => ~continueOnError[j] /\ Broken(j)
  /\ worker[j] \in {"log", "announce"} \cup Ending /\ status[j] # "Cancelled" =>
       \/ cur[j] = size[j] + 1
       \/ ~continueOnError[j] /\ Broken(j) /\ status[j] = "CompletedWithErrors"

FilesInv == Scoped => \A j \in Jobs : JobFiles(j)

-----------------------------------------------------------------------------
\* Before the first upload nothing is asked, nothing cancelled, no queue there.
LEMMA InitRequestInv == Init => RequestInv
<1> SUFFICES ASSUME Init PROVE RequestInv
  OBVIOUS
<1>1. Uploads = Jobs /\ JobIds = Jobs
  BY FileQueueAssumption DEF Jobs
<1>2. \A r \in Requests : call[r].step = "idle"
  BY DEF Init, Idle
<1>3. \A j \in Jobs : ~sources[j].cancelled
  BY <1>1 DEF Init, CancellationInit
<1>4. \A s \in Instances : activeQueues[s] = {}
  BY DEF Init
<1>5. QED
  BY <1>2, <1>3, <1>4 DEF RequestInv

\* A step that leaves the requests and the queues alone and cancels no token.
LEMMA RequestInvKept ==
  ASSUME RequestInv, UNCHANGED <<call, activeQueues>>,
         \A j \in Jobs : sources'[j].cancelled => sources[j].cancelled
  PROVE  RequestInv'
  BY DEF RequestInv, Reached

\* A request that goes on keeps what was reached, its own job included.
LEMMA ReachedKept ==
  ASSUME call \in [Requests -> CallRecord], NEW r \in Requests, NEW c,
         call' = [call EXCEPT ![r] = c],
         call[r].step \in {"signalled", "answered"} =>
           /\ c.job = call[r].job /\ c.op = call[r].op
           /\ c.step \in {"signalled", "answered"},
         NEW j, \E q \in Requests : Reached(q, j)
  PROVE  \E q \in Requests : Reached(q, j)'
<1>1. PICK q \in Requests : Reached(q, j)
  OBVIOUS
<1>2. CASE q = r
  BY <1>1, <1>2 DEF Reached
<1>3. CASE q # r
  BY <1>1, <1>3 DEF Reached
<1>4. QED
  BY <1>2, <1>3

\* A step sets the state of request r, and it has a token only to cancel it.
Asking(r) == \E c : /\ call' = [call EXCEPT ![r] = c]
                    /\ c.step = "found" => c.op \in Asks

\* SignalJob alone cancels a token, and its request has then reached the job; a
\* queue goes where its upload was served.
LEMMA NextRequestInv == TypeInv /\ RequestInv /\ [Next]_vars => RequestInv'
<1> SUFFICES ASSUME TypeInv, RequestInv, [Next]_vars PROVE RequestInv'
  OBVIOUS
<1> USE FileQueueAssumption
<1>t. /\ Uploads = Jobs /\ JobIds = Jobs
      /\ activeJobs \in [Jobs -> Jobs \cup {NoSource}]
      /\ sources \in [Jobs -> SourceState]
      /\ call \in [Requests -> CallRecord]
      /\ activeQueues \in [Instances -> SUBSET Jobs]
  BY DEF TypeInv, TypeOK, CancellationTypeOK, Jobs
<1>1. ASSUME NEW j \in Jobs, QueueMultipleFiles(j) PROVE RequestInv'
  <2>1. /\ activeQueues' = [activeQueues EXCEPT ![ServiceFor[j]] = @ \cup {j}]
        /\ UNCHANGED <<call, sources>>
    BY <1>1 DEF QueueMultipleFiles, cancellationVars
  <2>2. \A s \in Instances : \A i \in activeQueues'[s] : s = ServiceFor[i]
    BY <1>t, <2>1 DEF RequestInv
  <2>3. QED
    BY <2>1, <2>2 DEF RequestInv, Reached
<1>2. ASSUME NEW j \in Jobs,
             \/ StartTask(j) \/ BeginQueue(j) \/ StartFile(j) \/ AbortQueue(j)
             \/ FailFile(j) \/ CommitFile(j) \/ SaveFile(j) \/ FinishQueue(j)
             \/ LogQueueCompletionHistory(j) \/ AnnounceCompletion(j) \/ ReleaseJob(j)
      PROVE RequestInv'
  <2>1. UNCHANGED <<call, activeQueues>>
    BY <1>2 DEF StartTask, BeginQueue, StartFile, AbortQueue, AbortThen, FailFile,
       CommitFile, SaveFile, FinishQueue, LogQueueCompletionHistory,
       AnnounceCompletion, ReleaseJob
  <2>2. \/ UNCHANGED sources
        \/ \E u \in Jobs : \/ sources' = [sources EXCEPT ![u].created = TRUE]
                            \/ sources' = [sources EXCEPT ![u].disposed = TRUE]
    BY <1>2, <1>t DEF StartTask, BeginQueue, StartFile, AbortQueue, AbortThen, FailFile,
       CommitFile, SaveFile, FinishQueue, LogQueueCompletionHistory,
       AnnounceCompletion, ReleaseJob, CreateJobCancellation, RemoveJob, cancellationVars
  <2>3. ASSUME NEW i \in Jobs PROVE sources'[i].cancelled = sources[i].cancelled
    <3>1. sources[i] \in SourceState
      BY <1>t
    <3>2. /\ [sources[i] EXCEPT !.created = TRUE].cancelled = sources[i].cancelled
          /\ [sources[i] EXCEPT !.disposed = TRUE].cancelled = sources[i].cancelled
      BY <3>1 DEF SourceState
    <3>3. sources'[i] \in {sources[i], [sources[i] EXCEPT !.created = TRUE],
                          [sources[i] EXCEPT !.disposed = TRUE]}
      BY <1>t, <2>2
    <3>4. QED
      BY <3>2, <3>3
  <2>4. QED
    BY <2>1, <2>3, RequestInvKept
<1>3. ASSUME NEW j \in Jobs, ForgetQueue(j) PROVE RequestInv'
  <2>1. /\ activeQueues' = [activeQueues EXCEPT ![ServiceFor[j]] = @ \ {j}]
        /\ UNCHANGED <<call, sources>>
    BY <1>3 DEF ForgetQueue, cancellationVars
  <2>2. \A s \in Instances : activeQueues'[s] \subseteq activeQueues[s]
    BY <1>t, <2>1
  <2>3. QED
    BY <2>1, <2>2 DEF RequestInv, Reached
<1>4. ASSUME NEW r \in Requests, NEW j \in Jobs,
             \/ \E op \in Asks : LookupJob(r, j, op)
             \/ GetQueueStatus(r, j)
      PROVE RequestInv'
  <2>1. UNCHANGED <<activeQueues, sources>> /\ call[r] = Idle
    BY <1>4 DEF LookupJob, GetQueueStatus, cancellationVars
  <2>2. Asking(r)
    <3>1. ASSUME NEW op \in Asks, LookupJob(r, j, op)
          PROVE  Asking(r)
      <4> DEFINE c == [Idle EXCEPT !.op = op, !.job = j,
                         !.step = IF LookupSource(j) = NoSource
                                    THEN "signalled" ELSE "found"]
      <4>1. c.op = op
        BY DEF Idle
      <4>2. call' = [call EXCEPT ![r] = c]
        BY <3>1 DEF LookupJob
      <4> HIDE DEF c
      <4>3. QED
        BY <4>1, <4>2 DEF Asking
    <3>2. ASSUME GetQueueStatus(r, j)
          PROVE  Asking(r)
      <4> DEFINE c == [Idle EXCEPT !.op = "GetQueueStatus", !.job = j,
                         !.step = "answered",
                         !.answer = IF Sees(r, j) THEN status[j] ELSE "NotFound"]
      <4>1. c.step = "answered"
        BY DEF Idle
      <4>2. call' = [call EXCEPT ![r] = c]
        BY <3>2 DEF GetQueueStatus
      <4> HIDE DEF c
      <4>3. QED
        BY <4>1, <4>2 DEF Asking
    <3>3. CASE \E op \in Asks : LookupJob(r, j, op)
      BY <3>1, <3>3
    <3>4. CASE GetQueueStatus(r, j)
      BY <3>2, <3>4
    <3>5. QED
      BY <1>4, <3>3, <3>4
  <2>3. PICK c : /\ call' = [call EXCEPT ![r] = c]
                 /\ c.step = "found" => c.op \in Asks
    BY <2>2 DEF Asking
  <2>4. call[r].step = "idle"
    BY <2>1 DEF Idle
  <2>5. \A i \in Jobs : sources'[i].cancelled => \E q \in Requests : Reached(q, i)'
    BY <1>t, <2>1, <2>3, <2>4, ReachedKept DEF RequestInv
  <2>6. \A q \in Requests : call'[q].step = "found" => call'[q].op \in Asks
    BY <1>t, <2>3 DEF RequestInv
  <2>7. QED
    BY <2>1, <2>5, <2>6 DEF RequestInv
<1>5. ASSUME NEW r \in Requests, SignalJob(r) PROVE RequestInv'
  <2> DEFINE c == [call[r] EXCEPT !.step = "signalled",
                                  !.ok = ~sources[call[r].job].disposed]
  <2>1. call[r] \in CallRecord /\ call[r].step = "found" /\ call[r].op \in Asks
    BY <1>5, <1>t DEF SignalJob, RequestInv
  <2>2. call' = [call EXCEPT ![r] = c] /\ UNCHANGED activeQueues
    BY <1>5 DEF SignalJob, jobVars
  <2>3. c.job = call[r].job /\ c.op = call[r].op /\ c.step = "signalled"
    BY <2>1 DEF CallRecord
  <2> HIDE DEF c
  <2>4. ASSUME NEW i \in Jobs, i = call[r].job PROVE Reached(r, i)'
    BY <1>t, <2>1, <2>2, <2>3, <2>4 DEF Reached
  <2>5. \A i \in Jobs : sources'[i].cancelled => sources[i].cancelled \/ i = call[r].job
    BY <1>5, <1>t DEF SignalJob, CancelSource, SourceState
  <2>6. \A i \in Jobs : sources'[i].cancelled => \E q \in Requests : Reached(q, i)'
    <3> SUFFICES ASSUME NEW i \in Jobs, sources'[i].cancelled
                 PROVE  \E q \in Requests : Reached(q, i)'
      OBVIOUS
    <3>1. CASE i = call[r].job
      BY <2>4, <3>1
    <3>2. CASE sources[i].cancelled
      BY <1>t, <2>1, <2>2, <2>3, <3>2, ReachedKept DEF RequestInv
    <3>3. QED
      BY <2>5, <3>1, <3>2
  <2>7. \A q \in Requests : call'[q].step = "found" => call'[q].op \in Asks
    BY <1>t, <2>2, <2>3 DEF RequestInv
  <2>8. QED
    BY <2>2, <2>6, <2>7 DEF RequestInv
<1>6. ASSUME NEW r \in Requests, CancelQueue(r) \/ CancelMigration(r) PROVE RequestInv'
  <2> DEFINE c == [call[r] EXCEPT !.step = "answered"]
  <2>1. call[r] \in CallRecord
    BY <1>t
  <2>2. /\ call' = [call EXCEPT ![r] = c]
        /\ UNCHANGED <<activeQueues, sources>>
    BY <1>6 DEF CancelQueue, CancelMigration, cancellationVars
  <2>3. c.job = call[r].job /\ c.op = call[r].op /\ c.step = "answered"
    BY <2>1 DEF CallRecord
  <2> HIDE DEF c
  <2>4. \A i \in Jobs : sources'[i].cancelled => \E q \in Requests : Reached(q, i)'
    BY <1>t, <2>2, <2>3, ReachedKept DEF RequestInv
  <2>5. \A q \in Requests : call'[q].step = "found" => call'[q].op \in Asks
    BY <1>t, <2>2, <2>3 DEF RequestInv
  <2>6. QED
    BY <2>2, <2>4, <2>5 DEF RequestInv
<1>7. CASE RestartServer
  <2>1. /\ activeQueues' = [s \in Instances |-> {}]
        /\ UNCHANGED sources
    BY <1>7 DEF RestartServer, ForgetAllJobs
  <2>2. ASSUME NEW r \in Requests
        PROVE  /\ call'[r].step # "found"
               /\ call'[r].job = call[r].job /\ call'[r].op = call[r].op
               /\ call[r].step \in {"signalled", "answered"} => call'[r].step = "answered"
    <3>1. call[r] \in CallRecord
      BY <1>t
    <3>2. /\ [call[r] EXCEPT !.step = "answered", !.ok = FALSE].step = "answered"
          /\ [call[r] EXCEPT !.step = "answered", !.ok = FALSE].job = call[r].job
          /\ [call[r] EXCEPT !.step = "answered", !.ok = FALSE].op = call[r].op
      BY <3>1 DEF CallRecord
    <3>3. call'[r] = IF call[r].step \in {"found", "signalled"}
                     THEN [call[r] EXCEPT !.step = "answered", !.ok = FALSE] ELSE call[r]
      BY <1>7 DEF RestartServer
    <3>4. QED
      BY <3>2, <3>3
  <2>3. QED
    BY <2>1, <2>2 DEF RequestInv, Reached
<1>8. CASE UNCHANGED vars
  BY <1>8, RequestInvKept DEF vars, cancellationVars
<1>9. QED
  BY <1>1, <1>2, <1>3, <1>4, <1>5, <1>6, <1>7, <1>8
  DEF Next, TaskStep, RequestStep, Asks

-----------------------------------------------------------------------------
\* With objects that are not shared no request sees the queue of a job.
LEMMA NothingShared ==
  ASSUME Scoped, TypeInv, RequestInv, NEW r \in Requests, NEW j
  PROVE  ~Sees(r, j)
<1>1. ServiceFor[r] \in Instances /\ activeQueues[ServiceFor[r]] \subseteq Jobs
  BY FileQueueAssumption DEF TypeInv, TypeOK
<1>2. j \in activeQueues[ServiceFor[r]] => j \in Jobs /\ ServiceFor[r] = ServiceFor[j]
  BY <1>1 DEF RequestInv
<1>3. j \in Jobs => r # j
  BY FileQueueAssumption
<1>4. QED
  BY <1>2, <1>3 DEF Sees, Scoped

(***************************************************************************)
(* A step that marks no file of a job, sends its task on in order and      *)
(* takes no cancellation back.                                             *)
(***************************************************************************)
LEMMA JobFilesKept ==
  ASSUME NEW j \in Jobs, JobFiles(j),
         size'[j] = size[j], cur'[j] = cur[j], file'[j] = file[j],
         status'[j] = status[j], continueOnError'[j] = continueOnError[j],
         sources[j].cancelled => sources'[j].cancelled,
         \/ worker'[j] = worker[j]
         \/ worker'[j] = "lost"
         \/ worker[j] = "importing" /\ worker'[j] = "saving"
         \/ /\ worker[j] \in {"absent", "scheduled", "registered"}
            /\ worker'[j] \in {"scheduled", "registered", "loop"}
         \/ /\ worker[j] \in {"log", "announce"}
            /\ worker'[j] \in {"announce", "release"}
         \/ worker[j] \in Ending /\ worker'[j] \in Ending
  PROVE  JobFiles(j)'
<1>1. MarkedCancelled(j) /\ status[j] = "Cancelled" => MarkedCancelled(j)'
  BY DEF MarkedCancelled, Ending, FilesOf
<1>2. MarksOK(j) => MarksOK(j)'
  BY DEF MarksOK, Ending
<1>3. Broken(j)' = Broken(j)
  BY DEF Broken
<1>4. QED
  BY <1>1, <1>2, <1>3 DEF JobFiles, Ending

\* Before the first upload every file is queued.
LEMMA InitFilesInv == Init => FilesInv
<1> SUFFICES ASSUME Init, NEW j \in Jobs PROVE JobFiles(j)
  BY DEF FilesInv
<1>1. /\ status[j] = "Queued" /\ worker[j] = "absent" /\ cur[j] = 1
      /\ \A i \in 1 .. MaxFiles : file[j][i] = "Queued"
  BY DEF Init
<1>2. MarksOK(j)
  BY <1>1, FileQueueAssumption DEF MarksOK
<1>3. QED
  BY <1>1, <1>2 DEF JobFiles, Ending

\* No step takes a cancellation back.
LEMMA CancelledStays ==
  ASSUME TypeInv, [Next]_vars, NEW i \in Jobs, sources[i].cancelled
  PROVE  sources'[i].cancelled
<1>t. /\ Uploads = Jobs /\ JobIds = Jobs
      /\ sources \in [Jobs -> SourceState] /\ sources[i] \in SourceState
  BY FileQueueAssumption DEF TypeInv, TypeOK, CancellationTypeOK, Jobs
<1>1. \/ UNCHANGED sources
      \/ \E u : \/ sources' = [sources EXCEPT ![u].created = TRUE]
                \/ sources' = [sources EXCEPT ![u].disposed = TRUE]
                \/ sources' = [sources EXCEPT ![u].cancelled = TRUE]
  BY DEF Next, TaskStep, RequestStep, vars, cancellationVars, QueueMultipleFiles, StartTask,
     BeginQueue, StartFile, AbortQueue, AbortThen, FailFile, CommitFile, SaveFile,
     FinishQueue, LogQueueCompletionHistory, AnnounceCompletion, ReleaseJob, ForgetQueue,
     LookupJob, SignalJob, CancelQueue, CancelMigration, GetQueueStatus, RestartServer,
     CreateJobCancellation, RemoveJob, CancelSource, ForgetAllJobs
<1>2. /\ [sources[i] EXCEPT !.created = TRUE].cancelled
      /\ [sources[i] EXCEPT !.disposed = TRUE].cancelled
      /\ [sources[i] EXCEPT !.cancelled = TRUE].cancelled
  BY <1>t DEF SourceState
<1>3. sources'[i] \in {sources[i], [sources[i] EXCEPT !.created = TRUE],
                      [sources[i] EXCEPT !.disposed = TRUE],
                      [sources[i] EXCEPT !.cancelled = TRUE]}
  BY <1>1, <1>t
<1>4. QED
  BY <1>2, <1>3

\* While the task has not left its loop by a cancellation, the marks follow it.
LEMMA MarksFollow ==
  ASSUME NEW j \in Jobs, JobFiles(j), worker[j] \notin Ending \cup {"lost"}
  PROVE  status[j] # "Cancelled" /\ MarksOK(j)
  BY DEF JobFiles, MarkedCancelled

(***************************************************************************)
(* The end of a file: it is marked and the loop goes on to the next one.   *)
(***************************************************************************)
LEMMA MarksAdvance ==
  ASSUME NEW j \in Jobs, MarksOK(j), cur[j] \in 1 .. MaxFiles,
         file[j] \in [1 .. MaxFiles -> FileStatus],
         NEW m \in {"Completed", "Failed"},
         file'[j] = [file[j] EXCEPT ![cur[j]] = m], cur'[j] = cur[j] + 1
  PROVE  MarksOK(j)' /\ (m = "Failed" => Broken(j)')
<1>1. MaxFiles \in Nat
  BY FileQueueAssumption
<1>2. \A k \in 1 .. MaxFiles : file'[j][k] = IF k = cur[j] THEN m ELSE file[j][k]
  OBVIOUS
<1>3. \A k \in 1 .. MaxFiles : k < cur[j] + 1 => k < cur[j] \/ k = cur[j]
  BY <1>1
<1>4. \A k \in 1 .. MaxFiles : k >= cur[j] + 1 => k > cur[j]
  BY <1>1
<1>5. cur[j] + 1 <= MaxFiles => cur[j] + 1 \in 1 .. MaxFiles
  BY <1>1
<1>6. \A k \in 1 .. MaxFiles : k < cur'[j] => file'[j][k] \in {"Completed", "Failed"}
  BY <1>2, <1>3 DEF MarksOK
<1>7. \A k \in 1 .. MaxFiles : k >= cur'[j] => file'[j][k] = "Queued"
  BY <1>1, <1>2, <1>4 DEF MarksOK
<1>8. MarksOK(j)'
  BY <1>1, <1>5, <1>6, <1>7 DEF MarksOK
<1>9. m = "Failed" => Broken(j)'
  BY <1>2 DEF Broken
<1>10. QED
  BY <1>8, <1>9

\* The marks follow every step of the task, and no request touches them.
LEMMA NextFilesInv ==
  TypeInv /\ OutcomeInv /\ RequestInv /\ FilesInv /\ [Next]_vars => FilesInv'
<1> SUFFICES ASSUME TypeInv, OutcomeInv, RequestInv, FilesInv, [Next]_vars,
                    Scoped, NEW i \in Jobs
             PROVE  JobFiles(i)'
  BY DEF FilesInv, Scoped
<1> USE FileQueueAssumption
<1>t. /\ JobFiles(i)
      /\ status \in [Jobs -> QueueStatus] /\ worker \in [Jobs -> WorkerStep]
      /\ file \in [Jobs -> [1 .. MaxFiles -> FileStatus]]
      /\ cur \in [Jobs -> 1 .. MaxFiles + 1] /\ size \in [Jobs -> 1 .. MaxFiles]
      /\ continueOnError \in [Jobs -> BOOLEAN]
      /\ failedFiles \in [Jobs -> 0 .. MaxFiles]
      /\ sources[i].cancelled => sources'[i].cancelled
  BY CancelledStays DEF TypeInv, TypeOK, FilesInv
<1>1. ASSUME NEW j \in Jobs, QueueMultipleFiles(j) PROVE JobFiles(i)'
  <2>1. /\ UNCHANGED <<status, file, cur>>
        /\ worker[j] = "absent" /\ worker' = [worker EXCEPT ![j] = "scheduled"]
        /\ \E n, c : /\ size' = [size EXCEPT ![j] = n]
                     /\ continueOnError' = [continueOnError EXCEPT ![j] = c]
    BY <1>1 DEF QueueMultipleFiles, Goto
  <2>2. CASE i = j
    <3>1. status[i] # "Cancelled" /\ MarksOK(i)
      BY <1>t, <2>1, <2>2, MarksFollow DEF Ending
    <3>2. MarksOK(i)' /\ worker'[i] = "scheduled"
      BY <1>t, <2>1, <2>2, <3>1 DEF MarksOK
    <3>3. QED
      BY <2>1, <3>1, <3>2 DEF JobFiles, Ending
  <2>3. CASE i # j
    BY <1>t, <2>1, <2>3, JobFilesKept
  <2>4. QED
    BY <2>2, <2>3
<1>2. ASSUME NEW j \in Jobs,
             \/ StartTask(j) \/ CommitFile(j) \/ LogQueueCompletionHistory(j)
             \/ AnnounceCompletion(j) \/ ReleaseJob(j) \/ ForgetQueue(j)
      PROVE JobFiles(i)'
  <2>1. /\ UNCHANGED <<size, cur, file, status, continueOnError>>
        /\ \E step : /\ worker' = [worker EXCEPT ![j] = step]
                     /\ \/ worker[j] = "importing" /\ step = "saving"
                        \/ worker[j] = "scheduled" /\ step = "registered"
                        \/ /\ worker[j] \in {"log", "announce"}
                           /\ step \in {"announce", "release"}
                        \/ worker[j] \in Ending /\ step \in Ending
    BY <1>2 DEF StartTask, CommitFile, LogQueueCompletionHistory, AnnounceCompletion,
       ReleaseJob, ForgetQueue, Goto, Ending
  <2>2. QED
    BY <1>t, <2>1, JobFilesKept
<1>3. ASSUME NEW j \in Jobs, BeginQueue(j) PROVE JobFiles(i)'
  <2>1. /\ UNCHANGED <<size, cur, file, continueOnError>>
        /\ worker[j] = "registered" /\ worker' = [worker EXCEPT ![j] = "loop"]
        /\ status' = [status EXCEPT ![j] = "Processing"]
    BY <1>3 DEF BeginQueue, Goto
  <2>2. CASE i = j
    <3>1. MarksOK(i)
      BY <1>t, <2>1, <2>2, MarksFollow DEF Ending
    <3>2. MarksOK(i)' /\ worker'[i] = "loop" /\ status'[i] = "Processing"
      BY <1>t, <2>1, <2>2, <3>1 DEF MarksOK
    <3>3. QED
      BY <3>2 DEF JobFiles, Ending
  <2>3. CASE i # j
    BY <1>t, <2>1, <2>3, JobFilesKept
  <2>4. QED
    BY <2>2, <2>3
<1>4. ASSUME NEW j \in Jobs, StartFile(j) PROVE JobFiles(i)'
  <2>1. /\ UNCHANGED <<size, cur, status, continueOnError>>
        /\ worker[j] = "loop" /\ worker' = [worker EXCEPT ![j] = "importing"]
        /\ file' = [file EXCEPT ![j][cur[j]] = "Processing"]
    BY <1>4 DEF StartFile, Goto
  <2>2. CASE i = j
    <3>1. status[i] # "Cancelled" /\ MarksOK(i)
      BY <1>t, <2>1, <2>2, MarksFollow DEF Ending
    <3>2. /\ worker'[i] = "importing"
          /\ \A k \in 1 .. MaxFiles :
               file'[i][k] = IF k = cur[i] THEN "Processing" ELSE file[i][k]
      BY <1>t, <2>1, <2>2
    <3>3. MarksOK(i)'
      BY <1>t, <2>1, <3>1, <3>2 DEF MarksOK
    <3>4. QED
      BY <2>1, <3>1, <3>2, <3>3 DEF JobFiles, Ending
  <2>3. CASE i # j
    BY <1>t, <2>1, <2>3, JobFilesKept
  <2>4. QED
    BY <2>2, <2>3
<1>5. ASSUME NEW j \in Jobs, AbortQueue(j) PROVE JobFiles(i)'
  <2>1. /\ UNCHANGED <<size, cur, continueOnError, sources>>
        /\ sources[j].cancelled
        /\ worker' = [worker EXCEPT ![j] = "release"]
        /\ status' = [status EXCEPT ![j] = "Cancelled"]
        /\ CancelOpenFiles(j)
    BY <1>5 DEF AbortQueue, AbortThen, Goto, CancellationRequested, cancellationVars
  <2>2. CASE i = j
    <3>1. /\ worker'[i] = "release" /\ status'[i] = "Cancelled" /\ sources'[i].cancelled
          /\ size'[i] = size[i] /\ size[i] \in 1 .. MaxFiles
      BY <1>t, <2>1, <2>2
    <3>2. file'[i] = [k \in 1 .. MaxFiles |->
                        IF k \in FilesOf(i) /\ file[i][k] \in {"Queued", "Processing"}
                          THEN "Cancelled" ELSE file[i][k]]
      BY <1>t, <2>1, <2>2 DEF CancelOpenFiles
    <3>3. \A k \in FilesOf(i) : file'[i][k] \notin {"Queued", "Processing"}
      BY <3>1, <3>2 DEF FilesOf
    <3>4. QED
      BY <3>1, <3>3 DEF JobFiles, MarkedCancelled, FilesOf, Ending
  <2>3. CASE i # j
    <3>1. file'[i] = file[i]
      BY <1>t, <2>1, <2>3 DEF CancelOpenFiles
    <3>2. QED
      BY <1>t, <2>1, <2>3, <3>1, JobFilesKept
  <2>4. QED
    BY <2>2, <2>3
<1>6. ASSUME NEW j \in Jobs, FailFile(j) \/ SaveFile(j) PROVE JobFiles(i)'
  <2>1. /\ UNCHANGED <<size, status, continueOnError>>
        /\ worker[j] \in {"importing", "saving"}
        /\ cur' = [cur EXCEPT ![j] = @ + 1]
        /\ \E m \in {"Completed", "Failed"}, step \in {"loop", "finish"} :
             /\ file' = [file EXCEPT ![j][cur[j]] = m]
             /\ worker' = [worker EXCEPT ![j] = step]
             /\ step = "finish" => m = "Failed" /\ ~continueOnError[j]
    BY <1>6 DEF FailFile, SaveFile, AfterFailure, Goto
  <2>2. CASE i = j
    <3>1. PICK m \in {"Completed", "Failed"}, step \in {"loop", "finish"} :
            /\ file' = [file EXCEPT ![j][cur[j]] = m]
            /\ worker' = [worker EXCEPT ![j] = step]
            /\ step = "finish" => m = "Failed" /\ ~continueOnError[j]
      BY <2>1
    <3>2. status[i] # "Cancelled" /\ MarksOK(i)
      BY <1>t, <2>1, <2>2, MarksFollow DEF Ending
    <3>3. cur[i] \in 1 .. MaxFiles
      <4>1. cur[i] <= size[i]
        BY <2>1, <2>2 DEF TypeInv, CountersOK
      <4>2. cur[i] \in 1 .. MaxFiles + 1 /\ size[i] \in 1 .. MaxFiles
        BY <1>t
      <4>3. QED
        BY <4>1, <4>2
    <3>4. /\ cur[i] \in 1 .. MaxFiles /\ cur'[i] = cur[i] + 1
          /\ file[i] \in [1 .. MaxFiles -> FileStatus]
          /\ file'[i] = [file[i] EXCEPT ![cur[i]] = m]
      BY <1>t, <2>1, <2>2, <3>1, <3>3
    <3>5. MarksOK(i)' /\ (m = "Failed" => Broken(i)')
      BY <3>2, <3>4, MarksAdvance
    <3>6. worker'[i] = step
      BY <1>t, <2>2, <3>1
    <3>7. QED
      BY <2>1, <2>2, <3>1, <3>2, <3>5, <3>6 DEF JobFiles, Ending
  <2>3. CASE i # j
    BY <1>t, <2>1, <2>3, JobFilesKept
  <2>4. QED
    BY <2>2, <2>3
<1>7. ASSUME NEW j \in Jobs, FinishQueue(j) PROVE JobFiles(i)'
  <2>1. /\ UNCHANGED <<size, cur, file, continueOnError>>
        /\ \/ worker[j] = "loop" /\ cur[j] \notin FilesOf(j)
           \/ worker[j] = "finish"
        /\ worker' = [worker EXCEPT ![j] = "log"]
        /\ status' = [status EXCEPT ![j] = FinalStatus(failedFiles[j])]
    BY <1>7 DEF FinishQueue, Goto
  <2>2. CASE i = j
    <3>1. MarksOK(i)
      BY <1>t, <2>1, <2>2, MarksFollow DEF Ending
    <3>2. /\ worker'[i] = "log" /\ status'[i] = FinalStatus(failedFiles[i])
          /\ status'[i] # "Cancelled"
      BY <1>t, <2>1, <2>2 DEF FinalStatus
    <3>3. MarksOK(i)' /\ Broken(i)' = Broken(i)
      BY <1>t, <2>1, <3>1, <3>2, <2>2 DEF MarksOK, Broken
    <3>4. CASE worker[i] = "loop"
      <4>1. cur[i] \notin FilesOf(i)
        BY <2>1, <2>2, <3>4
      <4>2. cur[i] \in Nat \ {0} /\ size[i] \in Nat /\ cur[i] <= size[i] + 1
        BY <1>t DEF TypeInv, CountersOK
      <4>3. cur'[i] = size'[i] + 1
        BY <2>1, <4>1, <4>2 DEF FilesOf
      <4>4. QED
        BY <3>2, <3>3, <4>3 DEF JobFiles, Ending
    <3>5. CASE worker[i] = "finish"
      <4>1. failedFiles[i] > 0 /\ ~continueOnError[i] /\ Broken(i)
        BY <1>t, <3>5 DEF OutcomeInv, JobOutcome, JobFiles
      <4>2. status'[i] = "CompletedWithErrors"
        BY <1>t, <3>2, <4>1 DEF FinalStatus
      <4>3. QED
        BY <2>1, <3>2, <3>3, <4>1, <4>2 DEF JobFiles, Ending
    <3>6. QED
      BY <2>1, <2>2, <3>4, <3>5
  <2>3. CASE i # j
    BY <1>t, <2>1, <2>3, JobFilesKept
  <2>4. QED
    BY <2>2, <2>3
<1>8. ASSUME NEW r \in Requests, RequestStep(r) PROVE JobFiles(i)'
  <2>1. UNCHANGED <<size, cur, continueOnError, worker, status, file>>
    BY <1>8, NothingShared DEF RequestStep, LookupJob, SignalJob, CancelQueue,
       CancelMigration, GetQueueStatus, jobVars
  <2>2. QED
    BY <1>t, <2>1, JobFilesKept
<1>9. CASE RestartServer
  <2>1. /\ UNCHANGED <<size, cur, continueOnError, status, file>>
        /\ \/ worker'[i] = worker[i] \/ worker'[i] = "lost"
           \/ worker[i] = "retained" /\ worker'[i] = "forgotten"
    BY <1>9 DEF RestartServer
  <2>2. QED
    BY <1>t, <2>1, JobFilesKept DEF Ending
<1>10. CASE UNCHANGED vars
  BY <1>10, <1>t, JobFilesKept DEF vars, jobVars
<1>11. QED
  BY <1>1, <1>2, <1>3, <1>4, <1>5, <1>6, <1>7, <1>8, <1>9, <1>10 DEF Next, TaskStep

\* The invariants behind both theorems, together.
MarksInv == TypeInv /\ OutcomeInv /\ RequestInv /\ FilesInv

\* They hold in every reachable state.
LEMMA MarksInvHolds == Spec => []MarksInv
<1>1. Init => MarksInv
  BY InitTypeInv, InitOutcomeInv, InitRequestInv, InitFilesInv DEF MarksInv
<1>2. MarksInv /\ [Next]_vars => MarksInv'
  BY NextTypeInv, NextOutcomeInv, NextRequestInv, NextFilesInv DEF MarksInv
<1>3. QED
  BY <1>1, <1>2, PTL DEF Spec

(***************************************************************************)
(* When ProcessQueueAsync is over no file is left under way, and one is    *)
(* left queued only behind a failed one that the upload asked to stop at.  *)
(***************************************************************************)
THEOREM EveryFileAccounted == Spec => []EveryFileAccountedFor
<1>1. MarksInv => EveryFileAccountedFor
  <2> SUFFICES ASSUME MarksInv, Scoped, NEW j \in Jobs, worker[j] \in Over, NEW i \in FilesOf(j)
               PROVE  /\ file[j][i] # "Processing"
                      /\ file[j][i] = "Queued" => /\ ~continueOnError[j]
                                                  /\ i > 1 /\ file[j][cur[j] - 1] = "Failed"
                                                  /\ status[j] = "CompletedWithErrors"
    BY DEF EveryFileAccountedFor
  <2>1. /\ JobFiles(j) /\ worker[j] \in Ending /\ worker[j] \notin {"importing", "saving", "lost"}
        /\ i \in 1 .. MaxFiles /\ i \in Nat /\ i <= size[j]
        /\ cur[j] \in Nat /\ size[j] \in Nat /\ MaxFiles \in Nat
    BY FileQueueAssumption
    DEF MarksInv, FilesInv, TypeInv, TypeOK, Over, Ending, FilesOf
  <2>2. CASE status[j] = "Cancelled"
    BY <2>1, <2>2 DEF JobFiles, MarkedCancelled
  <2>3. CASE status[j] # "Cancelled"
    <3>1. MarksOK(j)
      BY <2>1, <2>3 DEF JobFiles
    <3>2. /\ i < cur[j] => file[j][i] \in {"Completed", "Failed"}
          /\ i >= cur[j] => file[j][i] = "Queued"
      BY <2>1, <3>1 DEF MarksOK
    <3>3. \/ cur[j] = size[j] + 1
          \/ ~continueOnError[j] /\ Broken(j) /\ status[j] = "CompletedWithErrors"
      BY <2>1, <2>3 DEF JobFiles
    <3>4. QED
      BY <2>1, <3>2, <3>3 DEF Broken
  <2>4. QED
    BY <2>2, <2>3
<1>2. QED
  BY <1>1, MarksInvHolds, PTL

(***************************************************************************)
(* The queue of a job ends as cancelled only after CancelQueue or          *)
(* CancelMigration cancelled its token, and then no file is under way.     *)
(***************************************************************************)
THEOREM CancelledOnRequest == Spec => []CancelledOnlyOnRequest
<1>1. MarksInv => CancelledOnlyOnRequest
  <2> SUFFICES ASSUME MarksInv, Scoped, NEW j \in Jobs, status[j] = "Cancelled"
               PROVE  /\ sources[j].cancelled
                      /\ \E r \in Requests :
                           /\ call[r].job = j
                           /\ call[r].op \in {"CancelQueue", "CancelMigration"}
                           /\ call[r].step \in {"signalled", "answered"}
                      /\ \A i \in FilesOf(j) : file[j][i] # "Processing"
    BY DEF CancelledOnlyOnRequest
  <2>1. MarkedCancelled(j)
    BY DEF MarksInv, FilesInv, JobFiles
  <2>2. \E r \in Requests : Reached(r, j)
    BY <2>1 DEF MarksInv, RequestInv, MarkedCancelled
  <2>3. QED
    BY <2>1, <2>2 DEF MarkedCancelled, Reached, Asks
<1>2. QED
  BY <1>1, MarksInvHolds, PTL

-----------------------------------------------------------------------------
(***************************************************************************)
(* The promise of UploadJob, step by step.  A cancellation reaches only a  *)
(* task that runs: a request that has found a token finds it disposed of   *)
(* once the task is over, and dies with the server.                        *)
(***************************************************************************)
FoundInv ==
  /\ \A r \in Requests : call[r].step = "found" =>
       call[r].job \in Jobs /\ worker[call[r].job] \in Running \cup Over
  /\ \A j \in Jobs : worker[j] \in Over => sources[j].disposed

\* A step that sends no task out of its run, and finds no token, keeps it.
LEMMA FoundInvKept ==
  ASSUME FoundInv,
         \A r \in Requests : call'[r].step = "found" =>
           call[r].step = "found" /\ call'[r].job = call[r].job,
         \A j \in Jobs : /\ worker[j] \in Running \cup Over => worker'[j] \in Running \cup Over
                         /\ worker'[j] \in Over => worker[j] \in Over \/ sources'[j].disposed
                         /\ sources[j].disposed => sources'[j].disposed
  PROVE  FoundInv'
BY DEF FoundInv

\* Only ReleaseJob ends a run, and it disposes of the token first.
LEMMA NextFoundInv == TypeInv /\ TokenInv /\ FoundInv /\ [Next]_vars => FoundInv'
<1> SUFFICES ASSUME TypeInv, TokenInv, FoundInv, [Next]_vars PROVE FoundInv'
  OBVIOUS
<1> USE FileQueueAssumption, NoSourceAssumption
<1>t. /\ Uploads = Jobs /\ JobIds = Jobs /\ NoSource \notin Jobs
      /\ worker \in [Jobs -> WorkerStep]
      /\ activeJobs \in [Jobs -> Jobs \cup {NoSource}]
      /\ sources \in [Jobs -> SourceState] /\ call \in [Requests -> CallRecord]
  BY DEF TypeInv, TypeOK, CancellationTypeOK, Jobs
<1>1. ASSUME NEW j \in Jobs, QueueMultipleFiles(j) \/ (TaskStep(j) /\ ~ReleaseJob(j))
      PROVE  FoundInv'
  <2>1. /\ UNCHANGED call
        /\ \/ UNCHANGED sources \/ sources' = [sources EXCEPT ![j].created = TRUE]
        /\ \E s \in WorkerStep :
             /\ worker' = [worker EXCEPT ![j] = s]
             /\ worker[j] \in Running \cup Over => s \in Running \cup Over
             /\ s \in Over => worker[j] \in Over
    BY <1>1 DEF QueueMultipleFiles, TaskStep, StartTask, BeginQueue, StartFile, AbortQueue,
      AbortThen, FailFile, AfterFailure, CommitFile, SaveFile, FinishQueue,
      LogQueueCompletionHistory, AnnounceCompletion, ForgetQueue, Goto, WorkerStep, Running,
      Over, CreateJobCancellation, cancellationVars
  <2>2. \A i \in Jobs : sources[i].disposed => sources'[i].disposed
    BY <1>t, <2>1 DEF SourceState
  <2>3. \A i \in Jobs : /\ worker[i] \in Running \cup Over => worker'[i] \in Running \cup Over
                        /\ worker'[i] \in Over => worker[i] \in Over
    BY <1>t, <2>1
  <2>4. QED
    BY <2>1, <2>2, <2>3, FoundInvKept
<1>2. ASSUME NEW j \in Jobs, ReleaseJob(j) PROVE FoundInv'
  <2>1. worker[j] = "release" /\ activeJobs[j] = j
    BY <1>2 DEF ReleaseJob, TokenInv, Running
  <2>2. /\ UNCHANGED call /\ worker' = [worker EXCEPT ![j] = "retained"]
        /\ sources' = [sources EXCEPT ![j].disposed = TRUE]
    BY <1>2, <1>t, <2>1 DEF ReleaseJob, RemoveJob, Goto
  <2>3. sources'[j].disposed /\ \A i \in Jobs : sources[i].disposed => sources'[i].disposed
    BY <1>t, <2>2 DEF SourceState
  <2>4. \A i \in Jobs : /\ worker[i] \in Running \cup Over => worker'[i] \in Running \cup Over
                        /\ worker'[i] \in Over => worker[i] \in Over \/ i = j
    BY <1>t, <2>1, <2>2 DEF Running, Over
  <2>5. QED
    BY <2>2, <2>3, <2>4, FoundInvKept
<1>3. ASSUME NEW r \in Requests, NEW j \in Jobs, NEW op \in Asks, LookupJob(r, j, op)
      PROVE  FoundInv'
  <2>1. /\ UNCHANGED <<worker, sources>>
        /\ \A q \in Requests \ {r} : call'[q] = call[q]
        /\ call'[r].job = j
        /\ call'[r].step = IF activeJobs[j] = NoSource THEN "signalled" ELSE "found"
    BY <1>3, <1>t DEF LookupJob, LookupSource, Idle, jobVars, cancellationVars
  <2>2. activeJobs[j] # NoSource => worker[j] \in Running
    BY <1>t DEF TokenInv
  <2>3. QED
    BY <2>1, <2>2 DEF FoundInv
<1>4. ASSUME NEW r \in Requests,
             \/ SignalJob(r) \/ CancelQueue(r) \/ CancelMigration(r)
             \/ \E j \in Jobs : GetQueueStatus(r, j)
      PROVE  FoundInv'
  <2>c. call[r] \in CallRecord
    BY <1>t
  <2>w. UNCHANGED worker
    BY <1>4 DEF SignalJob, CancelQueue, CancelMigration, GetQueueStatus, jobVars
  <2>1. /\ \A q \in Requests \ {r} : call'[q] = call[q]
        /\ call'[r].step \in {"signalled", "answered"}
    <3>1. CASE SignalJob(r)
      <4>1. PICK x : call' = [call EXCEPT ![r] = [[call[r] EXCEPT !.step = "signalled"]
                                                    EXCEPT !.ok = x]]
        BY <1>t, <3>1 DEF SignalJob
      <4>2. QED
        BY <1>t, <2>c, <4>1 DEF CallRecord
    <3>2. CASE CancelQueue(r) \/ CancelMigration(r)
      <4>1. call' = [call EXCEPT ![r] = [call[r] EXCEPT !.step = "answered"]]
        BY <1>t, <3>2 DEF CancelQueue, CancelMigration
      <4>2. QED
        BY <1>t, <2>c, <4>1 DEF CallRecord
    <3>3. CASE \E j \in Jobs : GetQueueStatus(r, j)
      BY <1>t, <3>3 DEF GetQueueStatus, Idle
    <3>4. QED
      BY <1>4, <3>1, <3>2, <3>3
  <2>2. \/ UNCHANGED sources
        \/ sources' = [sources EXCEPT ![call[r].job].cancelled = TRUE]
    BY <1>4 DEF SignalJob, CancelQueue, CancelMigration, GetQueueStatus, CancelSource,
      cancellationVars
  <2>3. \A i \in Jobs : sources[i].disposed => sources'[i].disposed
    BY <1>t, <2>2 DEF SourceState
  <2>4. QED
    BY <2>w, <2>1, <2>3, FoundInvKept
<1>5. CASE RestartServer
  <2>1. /\ UNCHANGED sources
        /\ \A r \in Requests : call'[r].step # "found"
        /\ \A j \in Jobs : worker'[j] \in Over => worker[j] \in Over
    BY <1>5, <1>t DEF RestartServer, ForgetAllJobs, CallRecord, Over
  <2>2. QED
    BY <2>1 DEF FoundInv
<1>6. CASE UNCHANGED vars
  BY <1>6, FoundInvKept DEF vars, jobVars, cancellationVars
<1>7. QED
  BY <1>1, <1>2, <1>3, <1>4, <1>5, <1>6 DEF Next, RequestStep, Asks

\* Before the first upload no request has found anything.
LEMMA InitFoundInv == Init => FoundInv
BY DEF Init, FoundInv, Idle, Over

\* What the invariants know of a job, together.
PromiseInv == TypeInv /\ TokenInv /\ OutcomeInv /\ VerdictInv /\ FoundInv

\* It holds throughout.
LEMMA PromiseInvHolds ==
  /\ Init => PromiseInv
  /\ PromiseInv /\ [Next]_vars => PromiseInv'
BY InitTypeInv, InitTokenInv, InitOutcomeInv, InitVerdictInv, InitFoundInv,
   NextTypeInv, NextTokenInv, NextOutcomeInv, NextVerdictInv, NextFoundInv DEF PromiseInv

\* What the client has heard is the one verdict sent, if any.
LEMMA HeardIs ==
  ASSUME NEW j \in Jobs
  PROVE  /\ Heard(j) # "none" <=> VerdictsIn(events[j]) # {}
         /\ Heard(j) \in {"none", "success", "failure"}
BY DEF Heard, Sent, VerdictsIn, Verdict

\* Another message leaves what was heard alone, and a first verdict is heard.
LEMMA HeardAfter ==
  ASSUME NEW j \in Jobs, events[j] \in Seq(Event), NEW x \in Event,
         events'[j] = Append(events[j], x)
  PROVE  /\ x \notin Verdict => Heard(j)' = Heard(j)
         /\ Heard(j) = "none" /\ x = "JobSucceeded" => Heard(j)' = "success"
         /\ Heard(j) = "none" /\ x = "JobFailed" => Heard(j)' = "failure"
<1>1. /\ DOMAIN events[j] = 1 .. Len(events[j]) /\ Len(events[j]) \in Nat
      /\ DOMAIN events'[j] = 1 .. Len(events[j]) + 1
      /\ \A n \in 1 .. Len(events[j]) : events'[j][n] = events[j][n]
      /\ events'[j][Len(events[j]) + 1] = x
  OBVIOUS
<1>2. \A y : Sent(j, y)' <=> Sent(j, y) \/ x = y
  BY <1>1 DEF Sent
<1>3. QED
  BY <1>2 DEF Heard, Verdict

\* The state of job j in UploadJob stays.
Unmoved(j) ==
  /\ Phase(j)' = Phase(j) /\ FilesOf(j)' = FilesOf(j) /\ Imported(j)' = Imported(j)
  /\ Heard(j)' = Heard(j) /\ sources'[j].cancelled = sources[j].cancelled
  /\ OpenTo(j)' = OpenTo(j)

\* A job whose own part of the state stays has not moved.
LEMMA UnmovedIf ==
  ASSUME NEW j \in Jobs, worker'[j] = worker[j], size'[j] = size[j], saved'[j] = saved[j],
         unsaved'[j] = unsaved[j], events'[j] = events[j],
         sources'[j].cancelled = sources[j].cancelled
  PROVE  Unmoved(j)
<1>1. /\ Phase(j)' = Phase(j) /\ FilesOf(j)' = FilesOf(j) /\ Imported(j)' = Imported(j)
      /\ sources'[j].cancelled = sources[j].cancelled
  BY DEF Phase, FilesOf, Imported
<1>2. Heard(j)' = Heard(j)
  BY DEF Heard, Sent
<1>3. OpenTo(j)' = OpenTo(j)
  BY DEF OpenTo
<1>4. QED
  BY <1>1, <1>2, <1>3 DEF Unmoved

\* If no job has moved, the step is none of UploadJob's.
LEMMA NothingMoved ==
  ASSUME \A j \in Jobs : Unmoved(j)
  PROVE  UNCHANGED Job!vars
BY DEF Unmoved, Job!vars

\* Where a task is, for its client.
LEMMA PhaseIs ==
  ASSUME NEW j \in Jobs
  PROVE  /\ worker[j] = "absent" => Phase(j) = "none"
         /\ worker[j] = "scheduled" => Phase(j) = "accepted"
         /\ worker[j] \in Running => Phase(j) = "running"
         /\ worker[j] \in Over => Phase(j) = "over"
         /\ worker[j] = "lost" => Phase(j) = "lost"
BY DEF Phase, Running, Over

\* A task moves no job but its own.
LEMMA OthersUnmoved ==
  ASSUME TypeInv, TokenInv, NEW j \in Jobs, QueueMultipleFiles(j) \/ TaskStep(j),
         NEW i \in Jobs, i # j
  PROVE  Unmoved(i)
<1>t. /\ Uploads = Jobs /\ JobIds = Jobs
      /\ worker \in [Jobs -> WorkerStep] /\ sources \in [Jobs -> SourceState]
      /\ size \in [Jobs -> 1 .. MaxFiles] /\ events \in [Jobs -> Seq(Event)]
      /\ saved \in [Jobs -> SUBSET (1 .. MaxFiles)]
      /\ unsaved \in [Jobs -> SUBSET (1 .. MaxFiles)]
  BY FileQueueAssumption DEF TypeInv, TypeOK, CancellationTypeOK, Jobs
<1>1. activeJobs[j] \in {j, NoSource}
  BY DEF TokenInv
<1>2. worker'[i] = worker[i]
  BY <1>t DEF QueueMultipleFiles, TaskStep, StartTask, BeginQueue, StartFile, AbortQueue,
    AbortThen, FailFile, CommitFile, SaveFile, FinishQueue, LogQueueCompletionHistory,
    AnnounceCompletion, ReleaseJob, ForgetQueue, Goto
<1>3. size'[i] = size[i] /\ saved'[i] = saved[i] /\ unsaved'[i] = unsaved[i]
  BY <1>t DEF QueueMultipleFiles, TaskStep, StartTask, BeginQueue, StartFile, AbortQueue,
    AbortThen, FailFile, CommitFile, SaveFile, FinishQueue, LogQueueCompletionHistory,
    AnnounceCompletion, ReleaseJob, ForgetQueue
<1>4. events'[i] = events[i]
  BY <1>t DEF QueueMultipleFiles, TaskStep, StartTask, BeginQueue, StartFile, AbortQueue,
    AbortThen, FailFile, CommitFile, SaveFile, FinishQueue, LogQueueCompletionHistory,
    AnnounceCompletion, ReleaseJob, ForgetQueue, Notify
<1>5. sources'[i] = sources[i]
  BY <1>t, <1>1 DEF QueueMultipleFiles, TaskStep, StartTask, BeginQueue, StartFile,
    AbortQueue, AbortThen, FailFile, CommitFile, SaveFile, FinishQueue,
    LogQueueCompletionHistory, AnnounceCompletion, ReleaseJob, ForgetQueue,
    CreateJobCancellation, RemoveJob, cancellationVars
<1>6. QED
  BY <1>2, <1>3, <1>4, <1>5, UnmovedIf

\* Of a job that moves, what does not change with the step named.
SameJob(j) == /\ FilesOf(j)' = FilesOf(j) /\ sources'[j].cancelled = sources[j].cancelled
Imports(j) == /\ Imported(j)' = Imported(j) /\ OpenTo(j)' = OpenTo(j)

\* How a task moves its job.
TaskMove(j) ==
  \/ Unmoved(j)
  \/ /\ Phase(j) = "accepted" /\ Phase(j)' = "running"
     /\ SameJob(j) /\ Imports(j) /\ Heard(j)' = Heard(j)
  \/ /\ Phase(j) = "running" /\ Phase(j)' = "running" /\ SameJob(j)
     /\ Heard(j) = "none" /\ Heard(j)' = Heard(j)
     /\ OpenTo(j) = TRUE /\ OpenTo(j)' = ~sources[j].cancelled
     /\ \E f \in FilesOf(j) \ Imported(j) : Imported(j)' = Imported(j) \cup {f}
  \/ /\ Phase(j) = "running" /\ Phase(j)' = "running" /\ SameJob(j) /\ Imports(j)
     /\ Heard(j) = "none"
     /\ Heard(j)' = IF Imported(j) = FilesOf(j) THEN "success" ELSE "failure"
  \/ /\ Phase(j) = "running" /\ Phase(j)' = "over" /\ SameJob(j) /\ Imports(j)
     /\ Heard(j) # "none" /\ Heard(j)' = Heard(j)

\* A task begins, imports, announces and ends its job, and moves it in no other way.
LEMMA TaskMoves ==
  ASSUME PromiseInv, NEW j \in Jobs, TaskStep(j)
  PROVE  TaskMove(j)
<1>t. /\ Uploads = Jobs /\ JobIds = Jobs /\ NoSource \notin Jobs
      /\ worker \in [Jobs -> WorkerStep] /\ sources \in [Jobs -> SourceState]
      /\ size \in [Jobs -> 1 .. MaxFiles] /\ events \in [Jobs -> Seq(Event)]
      /\ cur \in [Jobs -> 1 .. MaxFiles + 1] /\ failedFiles \in [Jobs -> 0 .. MaxFiles]
      /\ saved \in [Jobs -> SUBSET (1 .. MaxFiles)]
      /\ unsaved \in [Jobs -> SUBSET (1 .. MaxFiles)]
      /\ sources[j] \in SourceState /\ events[j] \in Seq(Event)
  BY FileQueueAssumption, NoSourceAssumption
  DEF PromiseInv, TypeInv, TypeOK, CancellationTypeOK, Jobs
<1>i. JobOutcome(j) /\ JobVerdict(j)
  BY DEF PromiseInv, OutcomeInv, VerdictInv
<1>c. /\ worker[j] \in {"importing", "saving"} => cur[j] <= size[j]
      /\ cur[j] <= size[j] + 1
  BY DEF PromiseInv, TypeInv, CountersOK
<1>h. worker[j] \in WorkerStep \ (Announced \cup {"lost"}) => Heard(j) = "none"
  BY <1>i, HeardIs DEF JobVerdict
<1>1. CASE StartTask(j)
  <2>1. /\ worker[j] = "scheduled" /\ worker'[j] = "registered"
        /\ UNCHANGED <<size, saved, unsaved, events>>
        /\ sources'[j].cancelled = sources[j].cancelled
    BY <1>1, <1>t DEF StartTask, CreateJobCancellation, Goto, SourceState
  <2>2. Phase(j) = "accepted" /\ Phase(j)' = "running"
    BY <2>1 DEF Phase, Over
  <2>3. SameJob(j) /\ Imports(j)
    BY <2>1 DEF SameJob, Imports, FilesOf, Imported, OpenTo
  <2>4. Heard(j)' = Heard(j)
    BY <2>1 DEF Heard, Sent
  <2>5. QED
    BY <2>2, <2>3, <2>4 DEF TaskMove
<1>2. CASE \/ BeginQueue(j) \/ StartFile(j) \/ FailFile(j) \/ FinishQueue(j)
           \/ CommitFile(j) \/ LogQueueCompletionHistory(j) \/ ForgetQueue(j)
  <2>1. /\ UNCHANGED <<size, saved, unsaved, sources>>
        /\ \/ UNCHANGED events \/ events' = [events EXCEPT ![j] = Append(@, "JobStarted")]
        /\ \E s \in WorkerStep :
             /\ worker' = [worker EXCEPT ![j] = s]
             /\ \/ worker[j] \in Running /\ s \in Running
                \/ worker[j] \in Over /\ s \in Over
             /\ worker[j] # "saving"
             /\ s = "saving" => ~sources[j].cancelled
    BY <1>2 DEF BeginQueue, StartFile, FailFile, AfterFailure, FinishQueue, CommitFile,
      CommitAllowed, CancellationRequested, LogQueueCompletionHistory, ForgetQueue, Goto,
      Notify, Running, Over, WorkerStep, cancellationVars
  <2>2. \/ events'[j] = events[j] \/ events'[j] = Append(events[j], "JobStarted")
    BY <1>t, <2>1
  <2>3. /\ \/ worker[j] \in Running /\ worker'[j] \in Running
           \/ worker[j] \in Over /\ worker'[j] \in Over
        /\ worker[j] # "saving" /\ (worker'[j] = "saving" => ~sources[j].cancelled)
    BY <1>t, <2>1
  <2>4. Heard(j)' = Heard(j)
    <3>1. CASE events'[j] = events[j]
      BY <3>1 DEF Heard, Sent
    <3>2. CASE events'[j] = Append(events[j], "JobStarted")
      BY <1>t, <3>2, HeardAfter DEF Event, Verdict
    <3>3. QED
      BY <2>2, <3>1, <3>2
  <2>5. Phase(j)' = Phase(j)
    BY <2>3 DEF Phase, Running, Over
  <2>6. OpenTo(j)' = OpenTo(j)
    BY <2>1, <2>3 DEF OpenTo
  <2>7. QED
    BY <2>1, <2>4, <2>5, <2>6 DEF TaskMove, Unmoved, FilesOf, Imported
<1>3. CASE SaveFile(j)
  <2>1. /\ worker[j] = "saving" /\ worker'[j] = "loop"
        /\ UNCHANGED <<size, events, sources>>
        /\ \/ saved' = [saved EXCEPT ![j] = @ \cup {cur[j]}] /\ UNCHANGED unsaved
           \/ unsaved' = [unsaved EXCEPT ![j] = @ \cup {cur[j]}] /\ UNCHANGED saved
    BY <1>3, <1>t DEF SaveFile, Goto, cancellationVars
  <2>2. Imported(j)' = Imported(j) \cup {cur[j]}
    BY <1>t, <2>1 DEF Imported
  <2>3. cur[j] \in FilesOf(j) \ Imported(j)
    BY <1>t, <1>i, <1>c, <2>1 DEF JobOutcome, Tried, FilesOf
  <2>4. Phase(j) = "running" /\ Phase(j)' = "running"
    BY <2>1 DEF Phase, Over
  <2>5. Heard(j) = "none" /\ Heard(j)' = Heard(j)
    BY <1>h, <2>1 DEF Heard, Sent, WorkerStep, Announced
  <2>6. OpenTo(j) = TRUE /\ OpenTo(j)' = ~sources[j].cancelled
    BY <1>t, <2>1 DEF OpenTo, SourceState
  <2>7. SameJob(j)
    BY <2>1 DEF SameJob, FilesOf
  <2>8. QED
    BY <2>2, <2>3, <2>4, <2>5, <2>6, <2>7 DEF TaskMove
<1>4. CASE AbortQueue(j) \/ AnnounceCompletion(j)
  <2>1. /\ worker[j] \in {"loop", "announce"} /\ worker'[j] = "release"
        /\ UNCHANGED <<size, saved, unsaved, sources>>
    BY <1>4, <1>t DEF AbortQueue, AbortThen, AnnounceCompletion, Goto, cancellationVars
  <2>2. Phase(j) = "running" /\ Phase(j)' = "running"
    BY <2>1 DEF Phase, Over
  <2>3. SameJob(j) /\ Imports(j)
    BY <2>1 DEF SameJob, Imports, FilesOf, Imported, OpenTo
  <2>4. Heard(j) = "none"
    BY <1>h, <2>1 DEF WorkerStep, Announced
  <2>5. Heard(j)' = IF Imported(j) = FilesOf(j) THEN "success" ELSE "failure"
    <3>1. CASE AbortQueue(j)
      <4>1. events'[j] = Append(events[j], "JobFailed") /\ cur[j] \in FilesOf(j)
        BY <1>t, <3>1 DEF AbortQueue, AbortThen, Notify
      <4>2. cur[j] \notin Imported(j)
        BY <1>t, <1>i DEF JobOutcome, Tried
      <4>3. Heard(j)' = "failure"
        BY <1>t, <2>4, <4>1, HeardAfter DEF Event
      <4>4. QED
        BY <4>1, <4>2, <4>3
    <3>2. CASE AnnounceCompletion(j)
      <4>1. /\ events'[j] = Append(events[j], IF failedFiles[j] = 0 THEN "JobSucceeded"
                                                                  ELSE "JobFailed")
            /\ worker[j] = "announce"
        BY <1>t, <3>2 DEF AnnounceCompletion, Notify
      <4>2. Settled(j)
        BY <1>i, <4>1 DEF JobOutcome
      <4>3. Imported(j) = FilesOf(j) <=> failedFiles[j] = 0
        <5>1. Tried(j) \subseteq FilesOf(j) /\ (cur[j] = size[j] + 1 => Tried(j) = FilesOf(j))
          <6>1. cur[j] \in Nat /\ size[j] \in Nat
            BY <1>t, FileQueueAssumption
          <6>2. cur[j] - 1 <= size[j] /\ (cur[j] = size[j] + 1 => cur[j] - 1 = size[j])
            BY <1>c, <6>1
          <6>3. QED
            BY <6>1, <6>2 DEF Tried, FilesOf
        <5>2. CASE failedFiles[j] = 0
          BY <1>i, <4>2, <5>1, <5>2 DEF JobOutcome, Settled
        <5>3. CASE failedFiles[j] # 0
          <6>1. failedFiles[j] > 0
            BY <1>t, <5>3
          <6>2. QED
            BY <1>i, <5>1, <5>3, <6>1 DEF JobOutcome
        <5>4. QED
          BY <5>2, <5>3
      <4>4. Heard(j)' = IF failedFiles[j] = 0 THEN "success" ELSE "failure"
        BY <1>t, <2>4, <4>1, HeardAfter DEF Event
      <4>5. QED
        BY <4>3, <4>4
    <3>3. QED
      BY <1>4, <3>1, <3>2
  <2>6. QED
    BY <2>2, <2>3, <2>4, <2>5 DEF TaskMove
<1>5. CASE ReleaseJob(j)
  <2>1. worker[j] = "release" /\ activeJobs[j] = j
    BY <1>5 DEF ReleaseJob, PromiseInv, TokenInv, Running
  <2>2. /\ worker'[j] = "retained" /\ UNCHANGED <<size, saved, unsaved, events>>
        /\ sources'[j].cancelled = sources[j].cancelled
    BY <1>5, <1>t, <2>1 DEF ReleaseJob, RemoveJob, Goto, SourceState
  <2>3. Phase(j) = "running" /\ Phase(j)' = "over"
    BY <2>1, <2>2 DEF Phase, Over
  <2>4. SameJob(j) /\ Imports(j)
    BY <2>1, <2>2 DEF SameJob, Imports, FilesOf, Imported, OpenTo
  <2>5. Heard(j) # "none"
    BY <1>i, <2>1, HeardIs DEF JobVerdict, Announced
  <2>6. Heard(j)' = Heard(j)
    BY <2>2 DEF Heard, Sent
  <2>7. QED
    BY <2>3, <2>4, <2>5, <2>6 DEF TaskMove
<1>6. QED
  BY <1>1, <1>2, <1>3, <1>4, <1>5 DEF TaskStep

\* The empty server is the initial state of UploadJob.
LEMMA JobInit == Init => Job!Init
<1> SUFFICES ASSUME Init PROVE Job!Init
  OBVIOUS
<1>1. ASSUME NEW j \in Jobs
      PROVE  /\ Phase(j) = "none" /\ FilesOf(j) \in SUBSET (1 .. MaxFiles)
             /\ Imported(j) = {} /\ Heard(j) = "none"
             /\ sources[j].cancelled = FALSE /\ OpenTo(j) = TRUE
  <2>1. worker[j] = "absent" /\ size[j] = 1 /\ saved[j] = {} /\ unsaved[j] = {}
    BY DEF Init
  <2>2. events[j] = << >> /\ sources[j].cancelled = FALSE
    BY FileQueueAssumption DEF Init, CancellationInit, Jobs
  <2>3. Heard(j) = "none"
    BY <2>2, HeardIs DEF VerdictsIn
  <2>4. FilesOf(j) \in SUBSET (1 .. MaxFiles)
    BY <2>1, FileQueueAssumption DEF FilesOf
  <2>5. Phase(j) = "none" /\ Imported(j) = {}
    BY <2>1, PhaseIs DEF Imported
  <2>6. OpenTo(j) = TRUE
    BY <2>2 DEF OpenTo
  <2>7. QED
    BY <2>2, <2>3, <2>4, <2>5, <2>6
<1>2. QED
  BY <1>1 DEF Job!Init

\* Every step of the server moves one job as UploadJob allows, or none, or all when it
\* restarts.
LEMMA JobStep == PromiseInv /\ [Next]_vars => [Job!Next]_(Job!vars)
<1> SUFFICES ASSUME PromiseInv, [Next]_vars PROVE [Job!Next]_(Job!vars)
  OBVIOUS
<1>t. /\ Uploads = Jobs /\ JobIds = Jobs /\ NoSource \notin Jobs
      /\ worker \in [Jobs -> WorkerStep] /\ sources \in [Jobs -> SourceState]
      /\ size \in [Jobs -> 1 .. MaxFiles] /\ events \in [Jobs -> Seq(Event)]
      /\ call \in [Requests -> CallRecord]
  BY FileQueueAssumption, NoSourceAssumption
  DEF PromiseInv, TypeInv, TypeOK, CancellationTypeOK, Jobs
<1>v. TypeInv /\ TokenInv /\ FoundInv /\ \A j \in Jobs : JobVerdict(j)
  BY DEF PromiseInv, VerdictInv
<1>1. ASSUME NEW j \in Jobs, QueueMultipleFiles(j) PROVE [Job!Next]_(Job!vars)
  <2>1. \A i \in Jobs \ {j} : Unmoved(i)
    BY <1>1, <1>v, OthersUnmoved
  <2>2. PICK n \in 1 .. MaxFiles : size' = [size EXCEPT ![j] = n]
    BY <1>1 DEF QueueMultipleFiles
  <2>3. /\ worker[j] = "absent" /\ worker'[j] = "scheduled"
        /\ UNCHANGED <<saved, unsaved, events, sources>>
    BY <1>1, <1>t DEF QueueMultipleFiles, Goto, cancellationVars
  <2>4. Phase(j) = "none" /\ Phase(j)' = "accepted"
    BY <2>3 DEF Phase, Over
  <2>5. /\ Imported(j)' = Imported(j) /\ OpenTo(j)' = OpenTo(j)
        /\ sources'[j].cancelled = sources[j].cancelled
    BY <2>3 DEF Imported, OpenTo
  <2>6. Heard(j)' = Heard(j)
    BY <2>3 DEF Heard, Sent
  <2>7. FilesOf(j)' = 1 .. n /\ 1 .. n # {} /\ 1 .. n \in SUBSET (1 .. MaxFiles)
    <3>1. size'[j] = n /\ 1 \in 1 .. n
      BY <1>t, <2>2
    <3>2. QED
      BY <3>1, FileQueueAssumption DEF FilesOf
  <2>8. Job!Accept(j)
    BY <2>1, <2>4, <2>5, <2>6, <2>7 DEF Unmoved, Job!Accept
  <2>9. QED
    BY <2>8 DEF Job!Next
<1>2. ASSUME NEW j \in Jobs, TaskStep(j) PROVE [Job!Next]_(Job!vars)
  <2>1. \A i \in Jobs \ {j} : Unmoved(i)
    BY <1>2, <1>v, OthersUnmoved
  <2>2. TaskMove(j)
    BY <1>2, TaskMoves
  <2>3. CASE Unmoved(j)
    BY <2>1, <2>3, NothingMoved
  <2>4. CASE /\ Phase(j) = "accepted" /\ Phase(j)' = "running"
             /\ SameJob(j) /\ Imports(j) /\ Heard(j)' = Heard(j)
    <3>1. Job!Begin(j)
      BY <2>1, <2>4 DEF Unmoved, SameJob, Imports, Job!Begin
    <3>2. QED
      BY <3>1 DEF Job!Next, Job!Progress
  <2>5. CASE /\ Phase(j) = "running" /\ Phase(j)' = "running" /\ SameJob(j)
             /\ Heard(j) = "none" /\ Heard(j)' = Heard(j)
             /\ OpenTo(j) = TRUE /\ OpenTo(j)' = ~sources[j].cancelled
             /\ \E f \in FilesOf(j) \ Imported(j) : Imported(j)' = Imported(j) \cup {f}
    <3>1. Job!Import(j)
      BY <2>1, <2>5 DEF Unmoved, SameJob, Job!Import
    <3>2. QED
      BY <3>1 DEF Job!Next, Job!Progress
  <2>6. CASE /\ Phase(j) = "running" /\ Phase(j)' = "running" /\ SameJob(j) /\ Imports(j)
             /\ Heard(j) = "none"
             /\ Heard(j)' = IF Imported(j) = FilesOf(j) THEN "success" ELSE "failure"
    <3>1. Job!Announce(j)
      BY <2>1, <2>6 DEF Unmoved, SameJob, Imports, Job!Announce
    <3>2. QED
      BY <3>1 DEF Job!Next, Job!Progress
  <2>7. CASE /\ Phase(j) = "running" /\ Phase(j)' = "over" /\ SameJob(j) /\ Imports(j)
             /\ Heard(j) # "none" /\ Heard(j)' = Heard(j)
    <3>1. Job!End(j)
      BY <2>1, <2>7 DEF Unmoved, SameJob, Imports, Job!End
    <3>2. QED
      BY <3>1 DEF Job!Next, Job!Progress
  <2>8. QED
    BY <2>2, <2>3, <2>4, <2>5, <2>6, <2>7 DEF TaskMove
<1>3. ASSUME NEW r \in Requests, SignalJob(r) PROVE [Job!Next]_(Job!vars)
  <2>1. PICK j \in Jobs : j = call[r].job /\ worker[j] \in Running \cup Over
    BY <1>3, <1>v DEF SignalJob, FoundInv
  <2>2. /\ UNCHANGED <<worker, size, saved, unsaved, events>>
        /\ sources' = IF sources[j].disposed THEN sources
                      ELSE [sources EXCEPT ![j].cancelled = TRUE]
    BY <1>3, <2>1 DEF SignalJob, CancelSource, jobVars
  <2>3. \A i \in Jobs \ {j} : Unmoved(i)
    BY <1>t, <2>1, <2>2, UnmovedIf
  <2>4. CASE UNCHANGED sources
    BY <2>2, <2>4, UnmovedIf, NothingMoved
  <2>5. CASE ~sources[j].disposed
    <3>1. Phase(j) = "running" /\ Phase(j)' = Phase(j)
      BY <1>v, <2>1, <2>2, <2>5 DEF FoundInv, Phase, Running, Over
    <3>2. sources'[j].cancelled = TRUE
      BY <1>t, <2>1, <2>2, <2>5 DEF SourceState
    <3>3. /\ FilesOf(j)' = FilesOf(j) /\ Imported(j)' = Imported(j) /\ Heard(j)' = Heard(j)
      BY <2>2 DEF FilesOf, Imported, Heard, Sent
    <3>4. OpenTo(j)' = OpenTo(j) \/ OpenTo(j)' = FALSE
      BY <1>t, <2>1, <2>2, <3>2 DEF OpenTo, SourceState
    <3>5. Job!Cancel(j)
      BY <2>1, <2>3, <3>1, <3>2, <3>3, <3>4 DEF Unmoved, Job!Cancel
    <3>6. QED
      BY <2>1, <3>5 DEF Job!Next
  <2>6. QED
    BY <2>2, <2>4, <2>5
<1>4. ASSUME NEW r \in Requests, RequestStep(r), ~SignalJob(r)
      PROVE  [Job!Next]_(Job!vars)
  <2>1. /\ UNCHANGED <<worker, size, saved, unsaved, sources>>
        /\ \/ UNCHANGED events
           \/ events' = [events EXCEPT ![call[r].job] = Append(@, "JobError")]
    BY <1>4 DEF RequestStep, LookupJob, CancelQueue, CancelMigration, GetQueueStatus,
      jobVars, Notify, cancellationVars
  <2>2. ASSUME NEW i \in Jobs PROVE Unmoved(i)
    <3>1. events'[i] = events[i] \/ events'[i] = Append(events[i], "JobError")
      BY <1>t, <2>1
    <3>2. CASE events'[i] = events[i]
      BY <2>1, <3>2, UnmovedIf
    <3>3. CASE events'[i] = Append(events[i], "JobError")
      <4>1. Heard(i)' = Heard(i)
        BY <1>t, <3>3, HeardAfter DEF Event, Verdict
      <4>2. QED
        BY <2>1, <4>1 DEF Unmoved, Phase, FilesOf, Imported, OpenTo
    <3>4. QED
      BY <3>1, <3>2, <3>3
  <2>3. QED
    BY <2>2, NothingMoved
<1>5. CASE RestartServer
  <2>1. /\ UNCHANGED <<size, saved, unsaved, events, sources>>
        /\ worker' = [j \in Jobs |-> IF worker[j] \in Running \cup {"scheduled"} THEN "lost"
                                     ELSE IF worker[j] = "retained" THEN "forgotten"
                                     ELSE worker[j]]
    BY <1>5 DEF RestartServer, ForgetAllJobs
  <2>2. ASSUME NEW j \in Jobs
        PROVE  /\ FilesOf(j)' = FilesOf(j) /\ Imported(j)' = Imported(j)
               /\ Heard(j)' = Heard(j) /\ sources'[j].cancelled = sources[j].cancelled
    BY <2>1 DEF FilesOf, Imported, Heard, Sent
  <2>3. ASSUME NEW j \in Jobs
        PROVE  Phase(j)' = IF Phase(j) \in {"accepted", "running"} THEN "lost" ELSE Phase(j)
    <3>1. worker[j] \in WorkerStep
      BY <1>t
    <3>2. CASE worker[j] \in Running \cup {"scheduled"}
      BY <2>1, <3>2 DEF Phase, Running, Over
    <3>3. CASE worker[j] \in {"absent", "retained", "forgotten", "lost"}
      BY <2>1, <3>3 DEF Phase, Running, Over
    <3>4. QED
      BY <3>1, <3>2, <3>3 DEF WorkerStep, Running
  <2>4. ASSUME NEW j \in Jobs
        PROVE  (OpenTo(j)' \in BOOLEAN) /\ (OpenTo(j)' => OpenTo(j))
    BY <2>1 DEF OpenTo, Running
  <2>5. Job!Lose
    BY <2>2, <2>3, <2>4 DEF Job!Lose
  <2>6. QED
    BY <2>5 DEF Job!Next
<1>6. CASE UNCHANGED vars
  BY <1>6, UnmovedIf, NothingMoved DEF vars, jobVars, cancellationVars
<1>7. QED
  BY <1>1, <1>2, <1>3, <1>4, <1>5, <1>6 DEF Next

(***************************************************************************)
(* FileQueueService keeps the safety of UploadJob: one start, one verdict  *)
(* that is a success exactly when every file was imported, and after an    *)
(* accepted cancellation at most the import already committed.             *)
(***************************************************************************)
THEOREM QueueIsUploadJob == Spec => Job!Safety
<1>1. Spec => Job!Init /\ [][Job!Next]_(Job!vars)
  BY JobInit, JobStep, PromiseInvHolds, PTL DEF Spec
<1>2. QED
  BY <1>1 DEF Job!Safety
=============================================================================
