--------------------------- MODULE JobCancellation ---------------------------
(***************************************************************************)
(* The process-wide table of cancellation tokens, JobCancellationService.  *)
(* Program.cs registers the service as a singleton, so every request and   *)
(* every background worker of the server shares this one table.  The table *)
(* is a ConcurrentDictionary from job ids to CancellationTokenSources; a   *)
(* source is identified here by the upload that created it.                *)
(*                                                                         *)
(* The module defines the state and the operations; the modules that use   *)
(* the service (FileQueue, BulkImport) EXTEND it and call them.        *)
(***************************************************************************)
CONSTANTS JobIds,   \* the job ids uploads run under
          Uploads,  \* the uploads, each creating at most one token source
          NoSource  \* what a lookup of an unregistered id returns

ASSUME NoSourceAssumption == NoSource \notin Uploads

VARIABLES activeJobs,  \* the table: job id -> the registered source, or NoSource
          sources      \* upload -> the state of the source it created

cancellationVars == <<activeJobs, sources>>

SourceState == [created : BOOLEAN, cancelled : BOOLEAN, disposed : BOOLEAN]

CancellationTypeOK ==
  /\ activeJobs \in [JobIds -> Uploads \cup {NoSource}]
  /\ sources \in [Uploads -> SourceState]

CancellationInit ==
  /\ activeJobs = [j \in JobIds |-> NoSource]
  /\ sources = [u \in Uploads |->
                  [created |-> FALSE, cancelled |-> FALSE, disposed |-> FALSE]]

(***************************************************************************)
(* A new source is always created, but TryAdd keeps the one already        *)
(* registered under the same id.                                           *)
(***************************************************************************)
CreateJobCancellation(j, u) ==
  /\ sources' = [sources EXCEPT ![u].created = TRUE]
  /\ activeJobs' = IF activeJobs[j] = NoSource
                     THEN [activeJobs EXCEPT ![j] = u]
                     ELSE activeJobs

\* The token an upload holds stays readable after its source is disposed.
CancellationRequested(u) == sources[u].cancelled

\* The TryGetValue half of CancelJob.
LookupSource(j) == activeJobs[j]

(***************************************************************************)
(* The Cancel half of CancelJob, on the source the lookup returned, which  *)
(* may have been removed and disposed of since: Cancel then throws and     *)
(* CancelJob returns false.                                                *)
(***************************************************************************)
CancelSource(u) ==
  /\ sources' = IF sources[u].disposed
                  THEN sources
                  ELSE [sources EXCEPT ![u].cancelled = TRUE]
  /\ UNCHANGED activeJobs

\* Mutant: the source is disposed of but stays in the table.
RemoveJobKeepsEntry(j) ==
  /\ UNCHANGED activeJobs
  /\ sources' = IF activeJobs[j] = NoSource
                  THEN sources
                  ELSE [sources EXCEPT ![activeJobs[j]].disposed = TRUE]

\* Removal is by id: whichever source is registered under it is disposed.
RemoveJob(j) ==
  /\ activeJobs' = [activeJobs EXCEPT ![j] = NoSource]
  /\ sources' = IF activeJobs[j] = NoSource
                  THEN sources
                  ELSE [sources EXCEPT ![activeJobs[j]].disposed = TRUE]

\* The service lives in memory only: a restarted server has an empty table.
ForgetAllJobs ==
  /\ activeJobs' = [j \in JobIds |-> NoSource]
  /\ UNCHANGED sources
=============================================================================
