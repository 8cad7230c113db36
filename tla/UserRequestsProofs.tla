-------------------------- MODULE UserRequestsProofs --------------------------
(***************************************************************************)
(* Proofs about UserRequests, for any calls, users and administrators.     *)
(***************************************************************************)
EXTENDS UserRequests, TLAPS

(***************************************************************************)
(* What is known of a call that has read a request: it aims at a row, and  *)
(* what it saw saved is saved.                                             *)
(***************************************************************************)
ChangeOK(c) ==
  /\ call[c].op \in {"UpdateRequestStatus", "CancelRequest"}
  /\ call[c].op = "CancelRequest" => call[c].wanted = "Cancelled"
  /\ call[c].by \in Users
  /\ call[c].target \in Calls
  /\ call[c].loaded \in Row
  /\ row[call[c].target] \in Row
  /\ call[c].before \subseteq saved

StepOK ==
  \A c \in Calls :
    /\ step[c] = "new" => c \notin saved /\ row[c] = None
    /\ step[c] = "loaded" => c \notin saved /\ ChangeOK(c)
    /\ c \in saved /\ call[c].op # "CreateRequest" => ChangeOK(c)
    /\ step[c] = "log" => c \in saved

\* Unless a change was saved since, the row is still as it was read.
ReadOK ==
  \A c \in Calls :
    step[c] = "loaded" /\ Changes(call[c].target) \subseteq call[c].before =>
      row[call[c].target] = call[c].loaded

(***************************************************************************)
(* What was read is signed like the row, and a row that was signed when it *)
(* was read is signed for good.                                            *)
(***************************************************************************)
SignedOK ==
  \A c \in Calls : step[c] = "loaded" =>
    /\ call[c].loaded.status \in {"Approved", "Denied"} => call[c].loaded.reviewedBy # None
    /\ call[c].loaded.reviewedBy = None <=> call[c].loaded.reviewedAt = None
    /\ call[c].loaded.reviewedBy # None => row[call[c].target].reviewedBy # None

RequestInv == TypeOK /\ StepOK /\ ReadOK /\ LastChangeStands /\ SignedOK /\ DecisionIsSigned

\* Before the first call there is no request.
LEMMA InitRequestInv == Init => RequestInv
<1> SUFFICES ASSUME Init
             PROVE  RequestInv
  OBVIOUS
<1> USE UserRequestsAssumption DEF Init
<1>1. TypeOK
  BY DEF TypeOK, NoCall, Call, Status
<1>2. StepOK /\ ReadOK /\ SignedOK
  BY DEF StepOK, ReadOK, SignedOK
<1>3. LastChangeStands /\ DecisionIsSigned
  BY DEF LastChangeStands, DecisionIsSigned, Changes
<1>4. QED
  BY <1>1, <1>2, <1>3 DEF RequestInv

(***************************************************************************)
(* A call that goes on without touching the requests disturbs nothing.     *)
(***************************************************************************)
LEMMA StepOnly ==
  ASSUME RequestInv, NEW c \in Calls, NEW s \in {"log", "answered"},
         step' = [step EXCEPT ![c] = s], s = "log" => c \in saved,
         UNCHANGED <<row, call, saved>>,
         answer' \in [Calls -> {"none", "ok", "refused", "error"}],
         logged' \subseteq saved, faults' \in 0 .. MaxFaults
  PROVE  RequestInv'
<1>1. TypeOK'
  BY DEF RequestInv, TypeOK
<1>2. \A d \in Calls : ChangeOK(d)' <=> ChangeOK(d)
  BY DEF ChangeOK
<1>3. StepOK'
  BY <1>2 DEF RequestInv, TypeOK, StepOK
<1>4. \A i : Changes(i)' = Changes(i) /\ Reviews(i)' = Reviews(i)
  BY DEF Changes, Reviews
<1>5. ReadOK'
  BY <1>4 DEF RequestInv, TypeOK, ReadOK
<1>6. SignedOK'
  BY DEF RequestInv, TypeOK, SignedOK
<1>7. LastChangeStands' /\ DecisionIsSigned'
  BY <1>4 DEF RequestInv, LastChangeStands, DecisionIsSigned, AfterAll
<1>8. QED
  BY <1>1, <1>3, <1>5, <1>6, <1>7 DEF RequestInv

(***************************************************************************)
(* A new request: nothing can have changed it before.                      *)
(***************************************************************************)
LEMMA InsertStep ==
  ASSUME RequestInv, NEW c \in Calls, NEW u \in Users, step[c] = "new",
         row' = [row EXCEPT ![c] = [owner |-> u, status |-> "Pending",
                                    reviewedBy |-> None, reviewedAt |-> None]],
         call' = [call EXCEPT ![c] =
                   [op |-> "CreateRequest", by |-> u, target |-> c, wanted |-> "Pending",
                    loaded |-> None, before |-> {}]],
         step' = [step EXCEPT ![c] = "log"],
         saved' = saved \cup {c}, UNCHANGED <<answer, logged, faults>>
  PROVE  RequestInv'
<1> DEFINE new == [owner |-> u, status |-> "Pending", reviewedBy |-> None, reviewedAt |-> None]
           made == [op |-> "CreateRequest", by |-> u, target |-> c, wanted |-> "Pending",
                    loaded |-> None, before |-> {}]
<1>1. /\ new \in Row
      /\ new.status = "Pending" /\ new.reviewedBy = None /\ new.reviewedAt = None
  BY DEF Row, Status
<1>2. made \in Call /\ made.op = "CreateRequest"
  BY DEF Call, Status
<1>3. /\ call' = [call EXCEPT ![c] = made]
      /\ row' = [row EXCEPT ![c] = new]
      /\ c \notin saved /\ row[c] = None
  BY DEF RequestInv, StepOK
<1> HIDE DEF new, made
<1>4. TypeOK'
  BY <1>1, <1>2, <1>3 DEF RequestInv, TypeOK
<1>5. \A d \in Calls : d # c => /\ call'[d] = call[d]
                                /\ step'[d] = step[d]
                                /\ row'[d] = row[d]
  BY <1>3 DEF RequestInv, TypeOK
<1>6. row'[c] = new /\ call'[c].op = "CreateRequest" /\ step'[c] = "log"
  BY <1>2, <1>3 DEF RequestInv, TypeOK
<1>7. \A d \in Calls : ChangeOK(d) => call[d].target # c
  BY <1>3, NoneAssumption DEF ChangeOK
<1>8. \A d \in Calls : d # c /\ ChangeOK(d) =>
        ChangeOK(d)' /\ row'[call[d].target] = row[call[d].target]
  BY <1>5, <1>7 DEF ChangeOK
<1>9. StepOK'
  BY <1>3, <1>5, <1>6, <1>8 DEF RequestInv, StepOK
<1>10. \A i : Changes(i)' = Changes(i) /\ Reviews(i)' = Reviews(i)
  BY <1>3, <1>5, <1>6 DEF Changes, Reviews, RequestInv, TypeOK
<1>11. ReadOK'
  BY <1>5, <1>6, <1>8, <1>10 DEF RequestInv, StepOK, ReadOK
<1>12. SignedOK'
  BY <1>5, <1>6, <1>8 DEF RequestInv, StepOK, SignedOK
<1>13. Changes(c) = {} /\ \A i : c \notin Changes(i)
  BY <1>3, <1>7 DEF RequestInv, StepOK, TypeOK, Changes
<1>14. LastChangeStands'
  BY <1>5, <1>10, <1>13 DEF RequestInv, LastChangeStands, AfterAll, Changes, TypeOK
<1>15. DecisionIsSigned'
  BY <1>1, <1>5, <1>6, <1>10, <1>13 DEF RequestInv, DecisionIsSigned, Reviews
<1>16. QED
  BY <1>4, <1>9, <1>11, <1>12, <1>14, <1>15 DEF RequestInv

(***************************************************************************)
(* A call that reads a request sees it as it is, and signed if decided.    *)
(***************************************************************************)
LEMMA ReadStep ==
  ASSUME RequestInv, NEW c \in Calls, NEW op \in {"UpdateRequestStatus", "CancelRequest"},
         NEW u \in Users, NEW i \in Calls, NEW s \in Status,
         step[c] = "new", op = "CancelRequest" => s = "Cancelled", row[i] # None,
         call' = [call EXCEPT ![c] = [op |-> op, by |-> u, target |-> i, wanted |-> s,
                                      loaded |-> row[i], before |-> saved]],
         step' = [step EXCEPT ![c] = "loaded"],
         UNCHANGED <<row, answer, saved, logged, faults>>
  PROVE  RequestInv'
<1> DEFINE asked == [op |-> op, by |-> u, target |-> i, wanted |-> s,
                     loaded |-> row[i], before |-> saved]
<1>1. row[i] \in Row /\ c \notin saved
  BY DEF RequestInv, TypeOK, StepOK
<1>2. /\ asked \in Call
      /\ asked.op = op /\ asked.by = u /\ asked.target = i /\ asked.wanted = s
      /\ asked.loaded = row[i] /\ asked.before = saved
  BY <1>1 DEF RequestInv, TypeOK, Call
<1>3. call' = [call EXCEPT ![c] = asked]
  OBVIOUS
<1> HIDE DEF asked
<1>4. TypeOK'
  BY <1>2, <1>3 DEF RequestInv, TypeOK
<1>5. /\ call'[c] = asked /\ step'[c] = "loaded"
      /\ \A d \in Calls : d # c => call'[d] = call[d] /\ step'[d] = step[d]
  BY <1>3 DEF RequestInv, TypeOK
<1>6. ChangeOK(c)'
  BY <1>1, <1>2, <1>5 DEF ChangeOK
<1>7. \A d \in Calls : d # c => (ChangeOK(d)' <=> ChangeOK(d))
  BY <1>5 DEF ChangeOK
<1>8. StepOK'
  BY <1>1, <1>5, <1>6, <1>7 DEF RequestInv, StepOK
<1>9. \A j : Changes(j)' = Changes(j) /\ Reviews(j)' = Reviews(j)
  BY <1>1, <1>5 DEF Changes, Reviews, RequestInv, TypeOK
<1>10. ReadOK'
  BY <1>2, <1>5, <1>9 DEF RequestInv, ReadOK
<1>11. SignedOK'
  BY <1>1, <1>2, <1>5 DEF RequestInv, SignedOK, DecisionIsSigned
<1>12. \A j : \A d \in Changes(j) : call'[d] = call[d]
  BY <1>1, <1>5 DEF RequestInv, TypeOK, Changes
<1>13. LastChangeStands'
  BY <1>9, <1>12 DEF RequestInv, LastChangeStands, AfterAll
<1>14. \A j : Reviews(j) \subseteq Changes(j)
  BY DEF Reviews
<1>15. DecisionIsSigned'
  BY <1>9, <1>12, <1>14 DEF RequestInv, DecisionIsSigned
<1>16. QED
  BY <1>4, <1>8, <1>10, <1>11, <1>13, <1>15 DEF RequestInv

(***************************************************************************)
(* The columns a call writes: those it leaves as it read them stay as they *)
(* are by now.                                                             *)
(***************************************************************************)
LEMMA ColumnsWritten ==
  ASSUME RequestInv, NEW c \in Calls, ChangeOK(c), SaveRequest(c)
  PROVE  LET i == call[c].target  old == call[c].loaded
         IN  /\ row' \in [Calls -> Row \cup {None}]
             /\ row'[i] \in Row
             /\ \A j \in Calls : j # i => row'[j] = row[j]
             /\ row'[i].status = IF call[c].wanted # old.status THEN call[c].wanted
                                                                ELSE row[i].status
             /\ Reviewing(c) =>
                  /\ row'[i].reviewedBy = IF call[c].by # old.reviewedBy THEN call[c].by
                                                                         ELSE row[i].reviewedBy
                  /\ row'[i].reviewedAt = IF c # old.reviewedAt THEN c ELSE row[i].reviewedAt
             /\ ~ Reviewing(c) =>
                  /\ row'[i].reviewedBy = row[i].reviewedBy
                  /\ row'[i].reviewedAt = row[i].reviewedAt
<1> DEFINE i == call[c].target
           old == call[c].loaded
           asked == Asked(c)
           now == row[i]
           new == [owner |-> now.owner,
                   status |-> IF asked.status # old.status THEN asked.status ELSE now.status,
                   reviewedBy |-> IF asked.reviewedBy # old.reviewedBy THEN asked.reviewedBy
                                                                       ELSE now.reviewedBy,
                   reviewedAt |-> IF asked.reviewedAt # old.reviewedAt THEN asked.reviewedAt
                                                                       ELSE now.reviewedAt]
<1>1. /\ i \in Calls /\ old \in Row /\ now \in Row /\ call[c].by \in Users
      /\ call[c].wanted \in Status
  BY DEF ChangeOK, RequestInv, TypeOK, Call
<1>2. row' = [row EXCEPT ![i] = new]
  BY <1>1 DEF SaveRequest, RequestInv, TypeOK
<1>3. /\ asked.status = call[c].wanted
      /\ asked.reviewedBy = IF Reviewing(c) THEN call[c].by ELSE old.reviewedBy
      /\ asked.reviewedAt = IF Reviewing(c) THEN c ELSE old.reviewedAt
  BY DEF Asked, Copy
<1> HIDE DEF asked
<1>4. new \in Row
  BY <1>1, <1>3 DEF Row
<1>5. /\ row'[i] = new
      /\ row' \in [Calls -> Row \cup {None}]
      /\ \A j \in Calls : j # i => row'[j] = row[j]
  <2> HIDE DEF new, i
  <2>1. QED
    BY <1>1, <1>2, <1>4 DEF RequestInv, TypeOK
<1>6. /\ new.status = IF asked.status # old.status THEN asked.status ELSE now.status
      /\ new.reviewedBy = IF asked.reviewedBy # old.reviewedBy THEN asked.reviewedBy
                                                               ELSE now.reviewedBy
      /\ new.reviewedAt = IF asked.reviewedAt # old.reviewedAt THEN asked.reviewedAt
                                                               ELSE now.reviewedAt
  OBVIOUS
<1> HIDE DEF new
<1>7. QED
  BY <1>3, <1>4, <1>5, <1>6

(***************************************************************************)
(* A call that saves becomes the last change of its request.  No other call*)
(* can have seen it saved, so all others lose that claim; and if it had    *)
(* seen all others, the row is still as it read it and every column comes  *)
(* out as it asked.                                                        *)
(***************************************************************************)
LEMMA SaveStep ==
  ASSUME RequestInv, NEW c \in Calls, SaveRequest(c)
  PROVE  RequestInv'
<1> DEFINE i == call[c].target
           old == call[c].loaded
<1>1. /\ step[c] = "loaded" /\ c \notin saved /\ ChangeOK(c)
      /\ step' = [step EXCEPT ![c] = "log"]
      /\ saved' = saved \cup {c}
      /\ UNCHANGED <<call, answer, logged, faults>>
  BY DEF SaveRequest, Goto, RequestInv, StepOK
<1>2. /\ i \in Calls /\ old \in Row /\ row[i] \in Row
      /\ call[c].by \in Users /\ call[c].by # None /\ c # None
      /\ call[c].op # "CreateRequest"
      /\ ~ Reviewing(c) => call[c].wanted = "Cancelled"
  BY <1>1, UserRequestsAssumption DEF ChangeOK, Reviewing
<1>3. /\ row' \in [Calls -> Row \cup {None}]
      /\ row'[i] \in Row
      /\ \A j \in Calls : j # i => row'[j] = row[j]
  BY <1>1, ColumnsWritten
<1>4. /\ row'[i].status = IF call[c].wanted # old.status THEN call[c].wanted
                                                         ELSE row[i].status
      /\ Reviewing(c) =>
           /\ row'[i].reviewedBy = IF call[c].by # old.reviewedBy THEN call[c].by
                                                                  ELSE row[i].reviewedBy
           /\ row'[i].reviewedAt = IF c # old.reviewedAt THEN c ELSE row[i].reviewedAt
      /\ ~ Reviewing(c) =>
           /\ row'[i].reviewedBy = row[i].reviewedBy
           /\ row'[i].reviewedAt = row[i].reviewedAt
  BY <1>1, ColumnsWritten
<1>5. TypeOK'
  BY <1>1, <1>3 DEF RequestInv, TypeOK
<1>6. /\ step'[c] = "log"
      /\ \A d \in Calls : d # c => step'[d] = step[d]
  BY <1>1 DEF RequestInv, TypeOK
<1>7. \A d \in Calls : ChangeOK(d) => ChangeOK(d)' /\ c \notin call[d].before
  BY <1>1, <1>3 DEF ChangeOK
<1>8. StepOK'
  <2>1. \A d \in Calls : row[d] = None => row'[d] = None
    BY <1>2, <1>3, NoneAssumption
  <2>2. QED
    BY <1>1, <1>6, <1>7, <2>1 DEF RequestInv, StepOK
<1>9. /\ Changes(i)' = Changes(i) \cup {c}
      /\ Reviews(i)' = IF Reviewing(c) THEN Reviews(i) \cup {c} ELSE Reviews(i)
      /\ \A j : j # i => Changes(j)' = Changes(j) /\ Reviews(j)' = Reviews(j)
  BY <1>1, <1>2 DEF Changes, Reviews, Reviewing
<1>10. \A d \in Calls, j \in Calls : d \in Changes(j) => d # c /\ ChangeOK(d)
  BY <1>1 DEF Changes, RequestInv, StepOK
<1>11. ReadOK'
  BY <1>1, <1>3, <1>6, <1>7, <1>9 DEF RequestInv, StepOK, ReadOK, ChangeOK
<1>12. LastChangeStands'
  <2> SUFFICES ASSUME NEW j \in Calls, NEW d \in Changes(j)', AfterAll(d, Changes(j))'
               PROVE  /\ row'[j].status = call[d].wanted
                      /\ d \in Reviews(j)' => row'[j].reviewedBy = call[d].by
                                              /\ row'[j].reviewedAt = d
    BY <1>1 DEF LastChangeStands
  <2>1. CASE j # i
    BY <1>1, <1>3, <1>9, <2>1 DEF RequestInv, LastChangeStands, AfterAll
  <2>2. CASE j = i /\ d # c
    <3>1. d \in Changes(i) /\ d \in Calls
      BY <1>9, <2>2 DEF Changes, RequestInv, TypeOK
    <3>2. c \in call[d].before
      BY <1>1, <1>9, <2>2 DEF AfterAll
    <3>3. QED
      BY <1>2, <1>7, <1>10, <3>1, <3>2
  <2>3. CASE j = i /\ d = c
    <3>1. Changes(i) \subseteq call[c].before
      BY <1>1, <1>9, <2>3 DEF AfterAll, Changes
    <3>2. row[i] = old
      BY <1>1, <3>1 DEF RequestInv, ReadOK
    <3>3. c \in Reviews(i)' => Reviewing(c)
      BY <1>1 DEF Reviews, Reviewing
    <3>4. row'[i].status = call[c].wanted
      BY <1>4, <3>2
    <3>5. Reviewing(c) => row'[i].reviewedBy = call[c].by /\ row'[i].reviewedAt = c
      BY <1>4, <3>2
    <3>6. QED
      BY <1>1, <2>3, <3>3, <3>4, <3>5
  <2>4. QED
    BY <2>1, <2>2, <2>3
<1>13. row[i].reviewedBy # None => row'[i].reviewedBy # None
  BY <1>2, <1>4
<1>14. SignedOK'
  BY <1>1, <1>3, <1>6, <1>13 DEF RequestInv, StepOK, SignedOK, ChangeOK
<1>15. /\ row[i].status \in {"Approved", "Denied"} => row[i].reviewedBy # None
       /\ row[i].reviewedBy # None => \E d \in Reviews(i) : call[d].by = row[i].reviewedBy
       /\ row[i].reviewedBy = None <=> row[i].reviewedAt = None
       /\ old.reviewedBy # None => row[i].reviewedBy # None
       /\ old.reviewedBy = None <=> old.reviewedAt = None
  BY <1>1, <1>2, NoneAssumption DEF RequestInv, DecisionIsSigned, SignedOK
<1>16. DecisionIsSigned'
  <2>1. /\ row'[i].status \in {"Approved", "Denied"} => row'[i].reviewedBy # None
        /\ row'[i].reviewedBy # None => \E d \in Reviews(i)' : call[d].by = row'[i].reviewedBy
        /\ row'[i].reviewedBy = None <=> row'[i].reviewedAt = None
    <3>1. CASE Reviewing(c)
      BY <1>2, <1>4, <1>9, <1>15, <3>1
    <3>2. CASE ~ Reviewing(c)
      BY <1>2, <1>4, <1>9, <1>15, <3>2
    <3>3. QED
      BY <3>1, <3>2
  <2>2. QED
    BY <1>1, <1>3, <1>9, <2>1 DEF RequestInv, DecisionIsSigned
<1>17. QED
  BY <1>5, <1>8, <1>11, <1>12, <1>14, <1>16 DEF RequestInv

LEMMA NextRequestInv == RequestInv /\ [Next]_vars => RequestInv'
<1> SUFFICES ASSUME RequestInv, [Next]_vars
             PROVE  RequestInv'
  OBVIOUS
<1> USE UserRequestsAssumption
<1>1. CASE UNCHANGED vars
  <2>1. UNCHANGED <<row, call, step, answer, saved, logged, faults>>
    BY <1>1 DEF vars
  <2>2. \A c : ChangeOK(c)' <=> ChangeOK(c)
    BY <2>1 DEF ChangeOK
  <2>3. \A i : Changes(i)' = Changes(i) /\ Reviews(i)' = Reviews(i)
    BY <2>1 DEF Changes, Reviews
  <2>4. TypeOK' /\ StepOK' /\ ReadOK' /\ SignedOK'
    BY <2>1, <2>2, <2>3 DEF RequestInv, TypeOK, StepOK, ReadOK, SignedOK
  <2>5. LastChangeStands' /\ DecisionIsSigned'
    BY <2>1, <2>3 DEF RequestInv, LastChangeStands, DecisionIsSigned, AfterAll
  <2>6. QED
    BY <2>4, <2>5 DEF RequestInv
<1>2. ASSUME NEW c \in Calls, NEW a \in {"ok", "refused", "error"}, Answer(c, a),
             UNCHANGED <<row, call, saved>>, logged' \subseteq saved,
             Fault \/ UNCHANGED faults
      PROVE  RequestInv'
  <2>1. /\ step' = [step EXCEPT ![c] = "answered"]
        /\ answer' \in [Calls -> {"none", "ok", "refused", "error"}]
        /\ faults' \in 0 .. MaxFaults
    BY <1>2 DEF Answer, Goto, Fault, RequestInv, TypeOK
  <2>2. QED
    BY <1>2, <2>1, StepOnly
<1>3. logged \subseteq saved
  BY DEF RequestInv, TypeOK
<1>4. ASSUME NEW c \in Calls, CreateRequest(c)
      PROVE  RequestInv'
  <2>1. CASE \E u \in Users :
               /\ row' = [row EXCEPT ![c] = [owner |-> u, status |-> "Pending",
                                             reviewedBy |-> None, reviewedAt |-> None]]
               /\ call' = [call EXCEPT ![c] =
                            [op |-> "CreateRequest", by |-> u, target |-> c,
                             wanted |-> "Pending", loaded |-> None, before |-> {}]]
               /\ saved' = saved \cup {c} /\ Goto(c, "log")
               /\ UNCHANGED <<answer, faults, logged>>
    BY <1>4, <2>1, InsertStep DEF CreateRequest, Goto
  <2>2. CASE \E a \in {"refused", "error"} : Answer(c, a) /\ UNCHANGED <<row, call, saved, logged>>
                                             /\ (Fault \/ UNCHANGED faults)
    BY <1>2, <1>3, <2>2
  <2>3. QED
    BY <1>4, <2>1, <2>2 DEF CreateRequest
<1>5. ASSUME NEW c \in Calls, LoadRequest(c)
      PROVE  RequestInv'
  <2>1. CASE \E a \in {"refused", "error"} : Answer(c, a) /\ UNCHANGED <<row, call, saved, logged>>
                                             /\ (Fault \/ UNCHANGED faults)
    BY <1>2, <1>3, <2>1
  <2>2. ASSUME NEW op \in {"UpdateRequestStatus", "CancelRequest"}, NEW u \in Users,
               NEW i \in Calls, NEW s \in Status,
               op = "CancelRequest" => s = "Cancelled", Allowed(op, u, i),
               call' = [call EXCEPT ![c] = [op |-> op, by |-> u, target |-> i, wanted |-> s,
                                            loaded |-> row[i], before |-> saved]],
               Goto(c, "loaded"), UNCHANGED <<row, answer, saved, logged, faults>>
        PROVE  RequestInv'
    BY <1>5, <2>2, ReadStep DEF LoadRequest, Allowed, Goto
  <2>3. QED
    BY <1>5, <2>1, <2>2 DEF LoadRequest
<1>6. ASSUME NEW c \in Calls, SaveFails(c)
      PROVE  RequestInv'
  BY <1>2, <1>3, <1>6 DEF SaveFails, AfterFailure
<1>7. ASSUME NEW c \in Calls, LogUserActivity(c)
      PROVE  RequestInv'
  <2>1. c \in saved
    BY <1>7 DEF LogUserActivity, RequestInv, StepOK
  <2>2. QED
    BY <1>2, <1>3, <1>7, <2>1 DEF LogUserActivity
<1>8. QED
  BY <1>1, <1>4, <1>5, <1>6, <1>7, SaveStep DEF Next

LEMMA RequestInvAlways == Spec => []RequestInv
  BY InitRequestInv, NextRequestInv, PTL DEF Spec

(***************************************************************************)
(* Types, and with them that only saved calls are logged.                  *)
(***************************************************************************)
THEOREM TypeCorrect == Spec => []TypeOK
<1>1. RequestInv => TypeOK
  BY DEF RequestInv
<1>2. QED
  BY <1>1, RequestInvAlways, PTL

(***************************************************************************)
(* However many calls overlap, a change that began after all others shows  *)
(* in the row completely, although SaveChanges writes single columns.      *)
(***************************************************************************)
THEOREM LastChangeStandsAlways == Spec => []LastChangeStands
<1>1. RequestInv => LastChangeStands
  BY DEF RequestInv
<1>2. QED
  BY <1>1, RequestInvAlways, PTL

(***************************************************************************)
(* However many reviews overlap, a decision shows a reviewer of its request*)
(***************************************************************************)
THEOREM DecisionSigned == Spec => []DecisionIsSigned
<1>1. RequestInv => DecisionIsSigned
  BY DEF RequestInv
<1>2. QED
  BY <1>1, RequestInvAlways, PTL

(***************************************************************************)
(* A call is answered "ok" exactly when its change was saved, and a saved  *)
(* change lacks its log row only after a database error: a step answers or *)
(* logs one call, and at "log" that call has been saved.                   *)
(***************************************************************************)
THEOREM AnswersTruthful == Spec => []AnswersTellWhatWasSaved
<1>1. Init => AnswersTellWhatWasSaved
  BY DEF Init, AnswersTellWhatWasSaved
<1>2. ASSUME RequestInv, AnswersTellWhatWasSaved, [Next]_vars
      PROVE  AnswersTellWhatWasSaved'
  <2> SUFFICES ASSUME NEW d \in Calls, step'[d] = "answered"
               PROVE  /\ answer'[d] = "ok" <=> d \in saved'
                      /\ faults' = 0 => (d \in saved' <=> d \in logged')
    BY DEF AnswersTellWhatWasSaved
  <2>1. /\ faults \in Nat /\ MaxFaults \in Nat
        /\ logged \subseteq saved
        /\ step[d] = "answered" =>
             /\ answer[d] = "ok" <=> d \in saved
             /\ faults = 0 => (d \in saved <=> d \in logged)
        /\ step[d] \in {"new", "loaded"} => d \notin saved
        /\ step[d] = "log" => d \in saved
    BY <1>2, UserRequestsAssumption DEF RequestInv, TypeOK, StepOK, AnswersTellWhatWasSaved
  <2>2. /\ step \in [Calls -> {"new", "loaded", "log", "answered"}]
        /\ answer \in [Calls -> {"none", "ok", "refused", "error"}]
    BY <1>2 DEF RequestInv, TypeOK
  <2>3. CASE UNCHANGED vars
    BY <2>1, <2>3 DEF vars
  <2>4. ASSUME NEW c \in Calls, CreateRequest(c)
        PROVE  /\ answer'[d] = "ok" <=> d \in saved'
               /\ faults' = 0 => (d \in saved' <=> d \in logged')
    BY <2>1, <2>2, <2>4 DEF CreateRequest, Answer, Goto, Fault
  <2>5. ASSUME NEW c \in Calls, LoadRequest(c)
        PROVE  /\ answer'[d] = "ok" <=> d \in saved'
               /\ faults' = 0 => (d \in saved' <=> d \in logged')
    <3>1. /\ step[c] = "new"
          /\ UNCHANGED <<saved, logged>>
          /\ Fault \/ UNCHANGED faults
          /\ \/ Goto(c, "loaded") /\ UNCHANGED answer
             \/ \E a \in {"refused", "error"} : Answer(c, a)
      BY <2>5 DEF LoadRequest
    <3>2. QED
      BY <2>1, <2>2, <3>1 DEF Answer, Goto, Fault
  <2>6. ASSUME NEW c \in Calls, SaveRequest(c) \/ SaveFails(c)
        PROVE  /\ answer'[d] = "ok" <=> d \in saved'
               /\ faults' = 0 => (d \in saved' <=> d \in logged')
    <3>1. CASE SaveRequest(c)
      <4>1. /\ step[c] = "loaded" /\ Goto(c, "log") /\ saved' = saved \cup {c}
            /\ UNCHANGED <<answer, logged, faults>>
        BY <3>1 DEF SaveRequest
      <4>2. QED
        BY <2>1, <2>2, <4>1 DEF Goto
    <3>2. CASE SaveFails(c)
      BY <2>1, <2>2, <3>2 DEF SaveFails, AfterFailure, Answer, Goto, Fault
    <3>3. QED
      BY <2>6, <3>1, <3>2
  <2>7. ASSUME NEW c \in Calls, LogUserActivity(c)
        PROVE  /\ answer'[d] = "ok" <=> d \in saved'
               /\ faults' = 0 => (d \in saved' <=> d \in logged')
    BY <2>1, <2>2, <2>7 DEF LogUserActivity, Answer, Goto, Fault
  <2>8. QED
    BY <1>2, <2>3, <2>4, <2>5, <2>6, <2>7 DEF Next
<1>3. QED
  BY <1>1, <1>2, RequestInvAlways, PTL DEF Spec
=============================================================================
