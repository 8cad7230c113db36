---------------------------- MODULE UserRequests ----------------------------
(***************************************************************************)
(* Requests for access to a tool, UserRequestsNavigationController: a user *)
(* makes one and may cancel it, administrators set its status.             *)
(*                                                                         *)
(* A call reads the row into the change tracker of its own context,        *)
(* changes the copy, and saves later.  There is no concurrency token, and  *)
(* the UPDATE sets only the columns in which the copy differs from what    *)
(* was read.                                                               *)
(***************************************************************************)
EXTENDS Naturals

CONSTANTS Calls,    \* HTTP calls that change something, each made once
          Users, Admins,
          None,     \* no row, user or call
          MaxFaults \* database errors

ASSUME UserRequestsAssumption ==
  /\ Admins \subseteq Users
  /\ None \notin Calls \cup Users
  /\ MaxFaults \in Nat

Status == {"Pending", "Approved", "Denied", "Cancelled"}

\* A row of UserRequests.  ReviewedAt stands for the review it is the time of;
\* Comments goes the way of ReviewedBy.
Row == [owner : Users, status : Status, reviewedBy : Users \cup {None},
        reviewedAt : Calls \cup {None}]

ASSUME NoneAssumption == None \notin Row

VARIABLES row,    \* the request made by a call, or None
          call,   \* what a call is for and what it has read
          step,   \* where it is
          answer, \* how it was answered
          saved,  \* calls whose change is in the database, never read by the program
          logged, \* calls with a row in UserActivityLogs
          faults

vars == <<row, call, step, answer, saved, logged, faults>>

NoCall == [op |-> "none", by |-> None, target |-> None, wanted |-> "Pending",
           loaded |-> None, before |-> {}]

Call == [op : {"none", "CreateRequest", "UpdateRequestStatus", "CancelRequest"},
         by : Users \cup {None}, target : Calls \cup {None}, wanted : Status,
         loaded : Row \cup {None}, \* the row as it was read
         before : SUBSET Calls]    \* what was saved then

Init ==
  /\ row = [i \in Calls |-> None]
  /\ call = [c \in Calls |-> NoCall]
  /\ step = [c \in Calls |-> "new"]
  /\ answer = [c \in Calls |-> "none"]
  /\ saved = {} /\ logged = {}
  /\ faults = 0

Fault == faults < MaxFaults /\ faults' = faults + 1

Goto(c, s) == step' = [step EXCEPT ![c] = s]
Answer(c, a) == Goto(c, "answered") /\ answer' = [answer EXCEPT ![c] = a]

(***************************************************************************)
(* A new request is inserted by the call that makes it; one without a tool *)
(* or a reason is refused.                                                 *)
(***************************************************************************)
CreateRequest(c) ==
  /\ step[c] = "new"
  /\ \/ /\ \E u \in Users :
             /\ row' = [row EXCEPT ![c] = [owner |-> u, status |-> "Pending",
                                           reviewedBy |-> None, reviewedAt |-> None]]
             /\ call' = [call EXCEPT ![c] =
                         [op |-> "CreateRequest", by |-> u, target |-> c, wanted |-> "Pending",
                          loaded |-> None, before |-> {}]]
        /\ saved' = saved \cup {c}
        /\ Goto(c, "log")
        /\ UNCHANGED <<answer, faults>>
     \/ Answer(c, "refused") /\ UNCHANGED <<row, call, saved, faults>>
     \/ Answer(c, "error") /\ Fault /\ UNCHANGED <<row, call, saved>>
  /\ UNCHANGED logged

\* The role decides for a review; for a cancellation the owner and the status.
Allowed(op, u, i) ==
  /\ row[i] # None
  /\ op = "UpdateRequestStatus" => u \in Admins
  /\ op = "CancelRequest" => row[i].owner = u /\ row[i].status = "Pending"

(***************************************************************************)
(* The call looks the request up and decides on what it finds.             *)
(***************************************************************************)
LoadRequest(c) ==
  /\ step[c] = "new"
  /\ \/ /\ \E op \in {"UpdateRequestStatus", "CancelRequest"}, u \in Users, i \in Calls, s \in Status :
             /\ op = "CancelRequest" => s = "Cancelled"
             /\ IF Allowed(op, u, i)
                  THEN /\ call' = [call EXCEPT ![c] = [op |-> op, by |-> u, target |-> i,
                                     wanted |-> s, loaded |-> row[i], before |-> saved]]
                       /\ Goto(c, "loaded")
                       /\ UNCHANGED answer
                  ELSE Answer(c, "refused") /\ UNCHANGED call
        /\ UNCHANGED faults
     \/ Answer(c, "error") /\ Fault /\ UNCHANGED call
  /\ UNCHANGED <<row, saved, logged>>

\* The copy of the row as the call leaves it, when a review is signed with "by".
Copy(c, reviewing, by) ==
  LET old == call[c].loaded
  IN  [owner |-> old.owner, status |-> call[c].wanted,
       reviewedBy |-> IF reviewing THEN by ELSE old.reviewedBy,
       reviewedAt |-> IF reviewing THEN c ELSE old.reviewedAt]

Reviewing(c) == call[c].op = "UpdateRequestStatus"

\* Mutant: the first reviewer stays.
AskedKeeping(c) ==
  Copy(c, Reviewing(c),
       IF call[c].loaded.reviewedBy = None THEN call[c].by ELSE call[c].loaded.reviewedBy)

\* Mutant: only an approval is signed.
AskedUnsigned(c) == Copy(c, Reviewing(c) /\ call[c].wanted = "Approved", call[c].by)

Asked(c) == Copy(c, Reviewing(c), call[c].by)

\* SaveChangesAsync: the columns changed in the copy, the others as they are by now.
SaveRequest(c) ==
  LET i == call[c].target
      column(new, old, now) == IF new # old THEN new ELSE now
      old == call[c].loaded
  IN  /\ step[c] = "loaded"
      /\ row' = [row EXCEPT ![i] =
           [owner |-> @.owner,
            status |-> column(Asked(c).status, old.status, @.status),
            reviewedBy |-> column(Asked(c).reviewedBy, old.reviewedBy, @.reviewedBy),
            reviewedAt |-> column(Asked(c).reviewedAt, old.reviewedAt, @.reviewedAt)]]
      /\ Goto(c, "log")
      /\ saved' = saved \cup {c}
      /\ UNCHANGED <<call, answer, logged, faults>>

\* Mutant: the failed call is logged like the others.
AfterFailureLog(c) == Goto(c, "log") /\ UNCHANGED answer

AfterFailure(c) == Answer(c, "error")

\* ... or it fails, with nothing written.
SaveFails(c) ==
  /\ step[c] = "loaded"
  /\ Fault
  /\ AfterFailure(c)
  /\ UNCHANGED <<row, call, saved, logged>>

\* LogUserActivity: its errors are swallowed, the answer is the same.
LogUserActivity(c) ==
  /\ step[c] = "log"
  /\ \/ logged' = logged \cup {c} /\ UNCHANGED faults
     \/ Fault /\ UNCHANGED logged
  /\ Answer(c, "ok")
  /\ UNCHANGED <<row, call, saved>>

Next == \E c \in Calls :
  CreateRequest(c) \/ LoadRequest(c) \/ SaveRequest(c) \/ SaveFails(c) \/ LogUserActivity(c)

\* A call that has read a request goes on to its answer; none has to be made.
Spec == Init /\ [][Next]_vars
             /\ \A c \in Calls : WF_vars(SaveRequest(c) \/ SaveFails(c) \/ LogUserActivity(c))
-----------------------------------------------------------------------------
(* Properties.                                                             *)

\* Every variable stays in its type, and what is logged was saved.
TypeOK ==
  /\ row \in [Calls -> Row \cup {None}]
  /\ call \in [Calls -> Call]
  /\ step \in [Calls -> {"new", "loaded", "log", "answered"}]
  /\ answer \in [Calls -> {"none", "ok", "refused", "error"}]
  /\ saved \subseteq Calls /\ logged \subseteq saved
  /\ faults \in 0 .. MaxFaults

Changes(i) == {c \in saved : call[c].target = i /\ call[c].op # "CreateRequest"}
Reviews(i) == {c \in Changes(i) : call[c].op = "UpdateRequestStatus"}

\* c began when all other calls of C had been saved.
AfterAll(c, C) == \A d \in C \ {c} : d \in call[c].before

(***************************************************************************)
(* What is decided last stands: when a change of a request began after all *)
(* other changes had been saved, the row shows its status, and if it was a *)
(* review its reviewer, although only some columns are written.            *)
(***************************************************************************)
LastChangeStands ==
  \A i \in Calls : \A c \in Changes(i) : AfterAll(c, Changes(i)) =>
    /\ row[i].status = call[c].wanted
    /\ c \in Reviews(i) => row[i].reviewedBy = call[c].by /\ row[i].reviewedAt = c

(***************************************************************************)
(* However reviews overlap, a decision never stands without a reviewer, and*)
(* the reviewer it shows really reviewed that request.                     *)
(***************************************************************************)
DecisionIsSigned ==
  \A i \in Calls : row[i] # None =>
    /\ row[i].status \in {"Approved", "Denied"} => row[i].reviewedBy # None
    /\ row[i].reviewedBy # None => \E c \in Reviews(i) : call[c].by = row[i].reviewedBy
    /\ row[i].reviewedBy = None <=> row[i].reviewedAt = None

(***************************************************************************)
(* A call is answered "ok" exactly when its change was saved, whatever     *)
(* became of its log row, and a change that was saved is logged unless the *)
(* database failed.                                                        *)
(***************************************************************************)
AnswersTellWhatWasSaved ==
  \A c \in Calls : step[c] = "answered" =>
    /\ answer[c] = "ok" <=> c \in saved
    /\ faults = 0 => (c \in saved <=> c \in logged)

-----------------------------------------------------------------------------
(* A comment of the source, checked by a run of its own.                   *)

(***************************************************************************)
(* CancelRequest says "Only allow cancellation of pending requests".       *)
(***************************************************************************)
OnlyPendingCancelled ==
  [][\A c \in saved' \ saved : call[c].op = "CancelRequest" =>
       row[call[c].target].status = "Pending"]_vars
=============================================================================
