------------------------ MODULE MigrationClientProofs ------------------------
(***************************************************************************)
(* Proofs about MigrationClient, for any number of uploads and of          *)
(* connections, answers and servers lost and pages left or reloaded.       *)
(***************************************************************************)
EXTENDS MigrationClient, FiniteSetTheorems, TLAPS

JobState == {"unused", "accepted", "refused", "running", "success", "failure", "gone"}
Steps == {"none", "connect", "join", "post", "over"}
MessageType == [what : {"started", "progress", "completed", "error"}, job : Jobs,
                ok : BOOLEAN]
TimerType == [job : Jobs, ok : BOOLEAN]
ShownType == [status : {"idle", "processing", "completed", "error"},
              job : Jobs \cup {None},
              verdict : {"none", "success", "failure", "cancel", "assumed"}]

\* What the page shows is what it saved, of a job or of none.
ShownTyped == /\ shown \in ShownType /\ stored = shown
              /\ current \in Jobs \cup {None} /\ rejoin \subseteq Jobs

\* What is on its way to the page is about jobs.
ComingTyped == /\ wire \in Seq(MessageType)
               /\ timers \subseteq TimerType /\ polls \subseteq Jobs

\* The types of the server, of the upload procedures and of the bounds.
OtherTyped == /\ job \in [Jobs -> JobState] /\ step \in [Jobs -> Steps]
              /\ drops \in Nat /\ leaves \in Nat

TypeInv == ShownTyped /\ ComingTyped /\ OtherTyped

\* A page that has just been opened has nothing to show.
LEMMA InitTypeInv == Init => TypeInv
<1> SUFFICES ASSUME Init PROVE TypeInv
  OBVIOUS
<1>1. ShownTyped
  BY DEF Init, Blank, ShownTyped, ShownType, None
<1>2. ComingTyped
  BY DEF Init, ComingTyped
<1>3. OtherTyped
  BY BoundsAssumption DEF Init, OtherTyped, JobState, Steps
<1>4. QED
  BY <1>1, <1>2, <1>3 DEF TypeInv

\* What the procedures write of the status and the verdict is one of the kinds.
LEMMA ShowingTyped ==
  ASSUME ShownTyped
  PROVE  /\ Blank \in ShownType
         /\ \A s \in {"idle", "processing", "completed", "error"},
               v \in {"none", "success", "failure", "cancel", "assumed"} :
              Showing(s, v) \in ShownType
         /\ \A j \in Jobs : [shown EXCEPT !.job = j] \in ShownType
         /\ [shown EXCEPT !.status = "processing"] \in ShownType
         /\ \A j \in Jobs :
              [shown EXCEPT !.status = "processing", !.job = j] \in ShownType
BY DEF ShownTyped, ShownType, Showing, Blank, None

\* A render takes over what it is given.
LEMMA CommitTyped ==
  ASSUME ShownTyped, NEW new \in ShownType, NEW u, NEW p, Commit(new, u, p),
         p.current \in Jobs \cup {None}, p.rejoin \subseteq Jobs
  PROVE  ShownTyped'
<1>1. shown' = new /\ stored' = new
  BY DEF Commit
<1>2. MayRestore(new) => new.job \in Jobs
  BY DEF MayRestore, ShownType
<1>3. current' \in Jobs \cup {None} /\ rejoin' \subseteq Jobs
  BY <1>2 DEF Commit, ShownTyped
<1>4. QED
  BY <1>1, <1>3 DEF ShownTyped

\* The page's own state, with what a caller sets of it, names jobs only.
LEMMA NowTyped ==
  ASSUME ShownTyped
  PROVE  /\ Now.current \in Jobs \cup {None} /\ Now.rejoin \subseteq Jobs
         /\ Now.held = held /\ Now.intervals = intervals /\ Now.groups = groups
         /\ Now.current = current /\ Now.rejoin = rejoin
         /\ Over.current = None /\ Over.rejoin = rejoin
         /\ Over.held = held /\ Over.intervals = intervals /\ Over.groups = groups
BY DEF ShownTyped, Now, Over

-----------------------------------------------------------------------------
(* What a step shows.                                                      *)

\* What lets a step show a failure.
FailureTold ==
  \/ \E t \in timers : ~t.ok
  \/ wire # <<>> /\ Head(wire).what = "error"
  \/ \E j \in Jobs : step[j] = "post" /\ (job[j] = "refused" \/ kind[j] = "single")
  \/ trouble'

(***************************************************************************)
(* A verdict that is new on the page comes from a granted cancellation,    *)
(* from a timer, from a message, from the answer of the upload, or from a  *)
(* loss.                                                                   *)
(***************************************************************************)
Told ==
  \/ shown'.verdict \in {shown.verdict, "none"}
  \/ shown'.verdict = "cancel" /\ granted # {}
  \/ shown'.verdict = "success" /\ \E t \in timers : t.ok
  \/ shown'.verdict = "failure" /\ FailureTold
  \/ shown'.verdict = "assumed" /\ trouble'

\* A render that tells something keeps the types.
LEMMA RenderTold ==
  ASSUME ShownTyped, NEW new, NEW u, NEW p, Commit(new, u, p),
         p.current \in Jobs \cup {None}, p.rejoin \subseteq Jobs,
         \/ new \in {shown, Blank, [shown EXCEPT !.status = "processing"],
                    Showing("processing", "none")}
         \/ \E j \in Jobs : new \in {[shown EXCEPT !.job = j],
                                     [shown EXCEPT !.status = "processing", !.job = j]}
         \/ new = Showing("error", "cancel") /\ granted # {}
         \/ new = Showing("completed", "success") /\ \E t \in timers : t.ok
         \/ new = Showing("error", "failure") /\ FailureTold
         \/ new = Showing("completed", "assumed") /\ trouble'
  PROVE  ShownTyped' /\ Told
<1>1. shown' = new
  BY DEF Commit
<1>2. new \in ShownType
  BY ShowingTyped DEF ShownTyped
<1>3. ShownTyped'
  BY <1>2, CommitTyped
<1>4. /\ Blank.verdict = "none" /\ [shown EXCEPT !.status = "processing"].verdict = shown.verdict
      /\ \A s, v : Showing(s, v).verdict = v
      /\ \A j : /\ [shown EXCEPT !.job = j].verdict = shown.verdict
               /\ [shown EXCEPT !.status = "processing", !.job = j].verdict = shown.verdict
  BY DEF Showing, Blank, ShownTyped, ShownType
<1>5. \/ new.verdict \in {shown.verdict, "none"}
      \/ new.verdict = "cancel" /\ granted # {}
      \/ new.verdict = "success" /\ \E t \in timers : t.ok
      \/ new.verdict = "failure" /\ FailureTold
      \/ new.verdict = "assumed" /\ trouble'
  <2>1. CASE new \in {shown, Blank, [shown EXCEPT !.status = "processing"],
                     Showing("processing", "none")}
    <3>1. Showing("processing", "none").verdict = "none"
      BY <1>4
    <3>2. CASE new = [shown EXCEPT !.status = "processing"]
      BY <3>2, <1>4
    <3>3. CASE new \in {shown, Blank, Showing("processing", "none")}
      BY <3>1, <3>3, <1>4
    <3>4. QED
      BY <2>1, <3>2, <3>3
  <2>2. CASE \E j \in Jobs : new \in {[shown EXCEPT !.job = j],
                                     [shown EXCEPT !.status = "processing", !.job = j]}
    BY <2>2, <1>4
  <2>3. CASE new = Showing("error", "cancel") /\ granted # {}
    BY <2>3, <1>4
  <2>4. CASE new = Showing("completed", "success") /\ \E t \in timers : t.ok
    BY <2>4, <1>4
  <2>5. CASE new = Showing("error", "failure") /\ FailureTold
    BY <2>5, <1>4
  <2>6. CASE new = Showing("completed", "assumed") /\ trouble'
    BY <2>6, <1>4
  <2>7. QED
    BY <2>1, <2>2, <2>3, <2>4, <2>5, <2>6
<1>6. Told
  BY <1>1, <1>5 DEF Told
<1>7. QED
  BY <1>3, <1>6

\* A step that leaves the page alone tells nothing.
LEMMA QuietTold ==
  ASSUME ShownTyped, UNCHANGED <<shown, stored, current, rejoin>>
  PROVE  ShownTyped' /\ Told
BY DEF ShownTyped, Told

\* The monitor runs only where an attempt to join was lost.
LossKnown == \A j \in Jobs : Checker(j) \in intervals => trouble

\* Every step tells what it was told, and keeps the types.
LEMMA NextTold ==
  TypeInv /\ LossKnown /\ [Next]_vars => ShownTyped' /\ Told
<1> SUFFICES ASSUME TypeInv, LossKnown, [Next]_vars PROVE ShownTyped' /\ Told
  OBVIOUS
<1>t. ShownTyped /\ ComingTyped
  BY DEF TypeInv
<1>n. None \in Jobs \cup {None}
  OBVIOUS
<1>p. /\ Now.current \in Jobs \cup {None} /\ Now.rejoin \subseteq Jobs
      /\ Over.current \in Jobs \cup {None} /\ Over.rejoin \subseteq Jobs
      /\ \A i : Started(Now, i).current \in Jobs \cup {None} /\ Started(Now, i).rejoin \subseteq Jobs
      /\ Dropped(Over).current \in Jobs \cup {None} /\ Dropped(Over).rejoin \subseteq Jobs
      /\ \A j : Stopped(j).current \in Jobs \cup {None} /\ Stopped(j).rejoin \subseteq Jobs
  BY <1>t DEF ShownTyped, Now, Over, Started, Dropped, Stopped
<1>1. CASE ChooseFiles \/ ClickTab
  BY <1>1, <1>t, <1>p, RenderTold DEF ChooseFiles, ClickTab, Update, Render
<1>2. CASE Reset
  BY <1>2, <1>t, <1>p, RenderTold DEF Reset, Render
<1>3. ASSUME NEW j \in Jobs, StartMigration(j) PROVE ShownTyped' /\ Told
  BY <1>3, <1>t, <1>p, <1>n, RenderTold DEF StartMigration, Update, Render
<1>4. CASE AskCancel \/ ComeUp \/ Drop \/ Restart
  BY <1>4, <1>t, QuietTold DEF AskCancel, ComeUp, Drop, Restart, rendered
<1>5. ASSUME NEW j \in Jobs, Connect(j) PROVE ShownTyped' /\ Told
  <2>1. PICK c \in {j, current} : Commit(shown, link = "up", [Now EXCEPT !.current = c])
    BY <1>5 DEF Connect
  <2>2. /\ [Now EXCEPT !.current = c].current \in Jobs \cup {None}
        /\ [Now EXCEPT !.current = c].rejoin \subseteq Jobs
    BY <1>t DEF Now, ShownTyped
  <2>3. QED
    BY <1>t, <2>1, <2>2, RenderTold
<1>6. ASSUME NEW j \in Jobs, JoinFirst(j) PROVE ShownTyped' /\ Told
  <2>1. /\ [Now EXCEPT !.groups = @ \cup {j}].current \in Jobs \cup {None}
        /\ [Now EXCEPT !.groups = @ \cup {j}].rejoin \subseteq Jobs
    BY <1>t DEF Now, ShownTyped
  <2>2. QED
    BY <1>6, <1>t, <1>p, <2>1, RenderTold DEF JoinFirst, Update, Render
<1>7. ASSUME NEW j \in Jobs, QueueAnswered(j) PROVE ShownTyped' /\ Told
  <2>1. /\ [Now EXCEPT !.current = j].current \in Jobs \cup {None}
        /\ [Now EXCEPT !.current = j].rejoin \subseteq Jobs
    BY <1>t DEF Now, ShownTyped
  <2>2. QED
    BY <1>7, <1>t, <2>1, RenderTold DEF QueueAnswered, Render
<1>8. ASSUME NEW j \in Jobs, JoinAfter(j) PROVE ShownTyped' /\ Told
  <2>1. /\ [Now EXCEPT !.groups = @ \cup {j}].current \in Jobs \cup {None}
        /\ [Now EXCEPT !.groups = @ \cup {j}].rejoin \subseteq Jobs
    BY <1>t DEF Now, ShownTyped
  <2>2. QED
    BY <1>8, <1>t, <1>p, <2>1, RenderTold DEF JoinAfter
<1>9. ASSUME NEW j \in Jobs, UploadAnsweredBadly(j) \/ UploadLost(j)
      PROVE  ShownTyped' /\ Told
  <2>1. CASE UploadAnsweredBadly(j)
    <3>1. FailureTold
      BY <2>1 DEF UploadAnsweredBadly, FailureTold
    <3>2. QED
      BY <2>1, <3>1, <1>t, <1>p, RenderTold DEF UploadAnsweredBadly, Update, Render
  <2>2. CASE UploadLost(j)
    <3>1. FailureTold
      BY <2>2 DEF UploadLost, FailureTold
    <3>2. QED
      BY <2>2, <3>1, <1>t, <1>p, RenderTold DEF UploadLost, Update, Render
  <2>3. QED
    BY <1>9, <2>1, <2>2
<1>10. ASSUME NEW j \in Jobs, Server(j) \/ AskStatus(j) PROVE ShownTyped' /\ Told
  BY <1>10, <1>t, QuietTold DEF Server, Accept, Run, End, AskStatus, rendered
<1>11. CASE Receive
  <2>1. Head(wire) \in MessageType
    BY <1>11, <1>t DEF Receive, ComingTyped
  <2> DEFINE m == Head(wire)
  <2>2. m.job \in Jobs
    BY <2>1 DEF MessageType
  <2>3. /\ [Now EXCEPT !.current = m.job].current \in Jobs \cup {None}
        /\ [Now EXCEPT !.current = m.job].rejoin \subseteq Jobs
    BY <1>t, <2>2 DEF Now, ShownTyped
  <2>4. \/ HandleJobStarted(m) \/ HandleProgressUpdate(m) \/ HandleJobError(m)
        \/ UNCHANGED rendered
    BY <1>11 DEF Receive, HandleJobCompleted
  <2> HIDE DEF m
  <2>5. CASE HandleJobStarted(m)
    BY <1>t, <2>2, <2>3, <2>5, RenderTold DEF HandleJobStarted, Render
  <2>6. CASE HandleProgressUpdate(m)
    BY <1>t, <1>p, <2>6, RenderTold DEF HandleProgressUpdate, Update, Render
  <2>7. CASE HandleJobError(m)
    <3>1. FailureTold
      BY <1>11, <2>7 DEF m, Receive, HandleJobError, FailureTold
    <3>2. QED
      BY <1>t, <1>p, <2>7, <3>1, RenderTold DEF HandleJobError, Render
  <2>8. CASE UNCHANGED rendered
    BY <1>t, <2>8, QuietTold DEF rendered
  <2>9. QED
    BY <2>4, <2>5, <2>6, <2>7, <2>8
<1>12. ASSUME NEW t \in timers, TimerFires(t) PROVE ShownTyped' /\ Told
  <2>1. t.ok \/ FailureTold
    BY DEF FailureTold
  <2>2. QED
    BY <1>12, <1>t, <1>p, <2>1, RenderTold DEF TimerFires, Render
<1>13. ASSUME NEW j \in Jobs, Rejoined(j) \/ RejoinFails(j) PROVE ShownTyped' /\ Told
  <2>1. CASE Rejoined(j)
    <3> DEFINE p == [Now EXCEPT !.groups = @ \cup {j}, !.rejoin = @ \ {j}]
    <3>1. p.current \in Jobs \cup {None} /\ p.rejoin \subseteq Jobs
      BY <1>t DEF Now, ShownTyped
    <3>2. Commit(shown, FALSE, p)
      BY <2>1 DEF Rejoined
    <3> HIDE DEF p
    <3>3. QED
      BY <1>t, <3>1, <3>2, RenderTold
  <2>2. CASE RejoinFails(j)
    <3>1. PICK rej \in {rejoin, rejoin \ {j}} :
            Render([shown EXCEPT !.status = "processing"],
                   Started([Now EXCEPT !.rejoin = rej], Checker(j)))
      BY <2>2 DEF RejoinFails
    <3> DEFINE p == Started([Now EXCEPT !.rejoin = rej], Checker(j))
    <3>2. p.current \in Jobs \cup {None} /\ p.rejoin \subseteq Jobs
      BY <1>t DEF Now, Started, ShownTyped
    <3>3. Commit([shown EXCEPT !.status = "processing"], TRUE, p)
      BY <3>1 DEF Render
    <3> HIDE DEF p
    <3>4. QED
      BY <1>t, <3>2, <3>3, RenderTold
  <2>3. QED
    BY <1>13, <2>1, <2>2
<1>14. ASSUME NEW j \in Jobs, Monitor(j) PROVE ShownTyped' /\ Told
  <2>1. CASE CheckReconnects(j)
    <3> DEFINE p == [Stopped(j) EXCEPT !.groups = @ \cup {j}]
    <3>1. p.current \in Jobs \cup {None} /\ p.rejoin \subseteq Jobs
      BY <1>t DEF Now, Stopped, Dropped, ShownTyped
    <3>2. Commit(shown, FALSE, p)
      BY <2>1 DEF CheckReconnects
    <3> HIDE DEF p
    <3>3. QED
      BY <1>t, <3>1, <3>2, RenderTold
  <2>2. CASE CheckGivesUp(j)
    <3>1. trouble' /\ FailureTold
      BY <2>2 DEF CheckGivesUp, LossKnown, bounds, FailureTold
    <3>2. QED
      BY <1>t, <1>p, <2>2, <3>1, RenderTold DEF CheckGivesUp, Render
  <2>3. QED
    BY <1>14, <2>1, <2>2 DEF Monitor
<1>15. ASSUME NEW q \in polls, StatusAnswered(q) PROVE ShownTyped' /\ Told
  BY <1>15, <1>t, <1>p, RenderTold DEF StatusAnswered, Update, Render
<1>16. ASSUME NEW g \in granted, CancelAnswered(g) PROVE ShownTyped' /\ Told
  <2> DEFINE p == IF g = NoInterval THEN Over
                  ELSE [Dropped(Over) EXCEPT !.intervals = intervals \ {g}]
  <2>1. p.current \in Jobs \cup {None} /\ p.rejoin \subseteq Jobs
    BY <1>t DEF Now, Over, Dropped, ShownTyped
  <2>2. Commit(Showing("error", "cancel"), TRUE, p) /\ granted # {}
    BY <1>16 DEF CancelAnswered, Render
  <2> HIDE DEF p
  <2>3. QED
    BY <1>t, <2>1, <2>2, RenderTold
<1>17. CASE Leave \/ Return \/ Reload
  <2>1. shown' \in {shown, Blank} /\ stored' = shown'
    BY <1>17, <1>t DEF Leave, Return, Reload, ShownTyped
  <2>2. shown' \in ShownType
    BY <1>t, <2>1, ShowingTyped DEF ShownTyped
  <2>3. current' \in Jobs \cup {None} /\ rejoin' \subseteq Jobs
    <3>1. CASE Leave
      BY <1>t, <3>1 DEF Leave, ShownTyped
    <3>2. CASE Return
      BY <1>t, <3>2 DEF Return, Restore, MayRestore, ShownTyped, ShownType
    <3>3. CASE Reload
      <4>1. PICK kept \in {stored, Blank} : shown' = kept /\ Restore(kept, {})
        BY <3>3 DEF Reload
      <4>2. kept.job \in Jobs \cup {None}
        BY <2>2, <4>1 DEF ShownType
      <4>3. QED
        BY <4>1, <4>2 DEF Restore, MayRestore
    <3>4. QED
      BY <1>17, <3>1, <3>2, <3>3
  <2>4. shown'.verdict \in {shown.verdict, "none"}
    BY <2>1 DEF Blank
  <2>5. QED
    BY <2>1, <2>2, <2>3, <2>4 DEF ShownTyped, Told
<1>18. CASE UNCHANGED vars
  BY <1>18, <1>t, QuietTold DEF vars, rendered
<1>19. QED
  BY <1>1, <1>2, <1>3, <1>4, <1>5, <1>6, <1>7, <1>8, <1>9, <1>10, <1>11, <1>12, <1>13,
     <1>14, <1>15, <1>16, <1>17, <1>18 DEF Next, Upload

-----------------------------------------------------------------------------
(* What is on its way.                                                     *)

\* The server, the upload procedures and the bounds keep their types.
LEMMA NextOther == TypeInv /\ [Next]_vars => OtherTyped'
<1> SUFFICES ASSUME OtherTyped, [Next]_vars PROVE OtherTyped'
  BY DEF TypeInv
<1>1. CASE UNCHANGED <<job, step, drops, leaves>>
  BY <1>1 DEF OtherTyped
<1>2. ASSUME NEW j \in Jobs, NEW s \in Steps, step' = [step EXCEPT ![j] = s],
             UNCHANGED <<job, leaves>>, drops' \in {drops, drops + 1}
      PROVE  OtherTyped'
  BY <1>2 DEF OtherTyped
<1>3. ASSUME NEW j \in Jobs, Server(j) PROVE OtherTyped'
  <2>1. \E s \in JobState : job' = [job EXCEPT ![j] = s]
    BY <1>3 DEF Server, Accept, Run, End, Ended, JobState
  <2>2. UNCHANGED <<step, drops, leaves>>
    BY <1>3 DEF Server, Accept, Run, End, upload, bounds
  <2>3. QED
    BY <2>1, <2>2 DEF OtherTyped
<1>4. CASE Restart
  BY <1>4 DEF Restart, upload, OtherTyped, JobState
<1>5. CASE Drop \/ Leave \/ Return
  BY <1>5 DEF Drop, Leave, Return, server, upload, bounds, OtherTyped
<1>6. CASE Reload
  BY <1>6 DEF Reload, server, OtherTyped, Steps
<1>7. ASSUME NEW j \in Jobs, StartMigration(j) \/ Upload(j) \/ UploadLost(j)
      PROVE  OtherTyped'
  BY <1>2, <1>7 DEF StartMigration, Upload, UploadLost, Connect, JoinFirst, QueueAnswered,
    JoinAfter, UploadAnsweredBadly, server, bounds, Steps
<1>8. CASE \/ ChooseFiles \/ Reset \/ AskCancel \/ ClickTab \/ Receive \/ ComeUp
           \/ UNCHANGED vars
  BY <1>1, <1>8 DEF ChooseFiles, Reset, AskCancel, ClickTab, Receive, ComeUp, vars, server,
    upload, bounds
<1>9. ASSUME NEW j \in Jobs, Rejoined(j) \/ RejoinFails(j) \/ Monitor(j) \/ AskStatus(j)
      PROVE  OtherTyped'
  BY <1>1, <1>9 DEF Rejoined, RejoinFails, Monitor, CheckReconnects, CheckGivesUp,
    AskStatus, server, upload, bounds
<1>10. ASSUME \/ \E t \in timers : TimerFires(t)
              \/ \E q \in polls : StatusAnswered(q)
              \/ \E g \in granted : CancelAnswered(g)
       PROVE  OtherTyped'
  BY <1>1, <1>10 DEF TimerFires, StatusAnswered, CancelAnswered, server, upload, bounds
<1>11. QED
  BY <1>3, <1>4, <1>5, <1>6, <1>7, <1>8, <1>9, <1>10 DEF Next

\* What a job has come to is never taken back.
LEMMA EndStays ==
  ASSUME TypeInv, [Next]_vars, NEW j \in Jobs, job[j] \in Ended \cup {"refused"}
  PROVE  job'[j] = job[j]
<1>t. job \in [Jobs -> JobState]
  BY DEF TypeInv, OtherTyped
<1>1. ASSUME NEW i \in Jobs, Server(i) PROVE job'[j] = job[j]
  BY <1>1, <1>t DEF Server, Accept, Run, End, Ended
<1>2. CASE Restart
  BY <1>2, <1>t DEF Restart, Ended
<1>3. CASE UNCHANGED job
  BY <1>3
<1>4. \/ \E i \in Jobs : Server(i)
      \/ Restart \/ UNCHANGED job
  BY DEF Next, ChooseFiles, Reset, AskCancel, ClickTab, StartMigration, Upload, UploadLost,
    Connect, JoinFirst, QueueAnswered, JoinAfter, UploadAnsweredBadly, Rejoined,
    RejoinFails, Monitor, CheckReconnects, CheckGivesUp, AskStatus, Receive, ComeUp, Drop,
    TimerFires, StatusAnswered, CancelAnswered, Leave, Return, Reload, server, vars
<1>5. QED
  BY <1>1, <1>2, <1>3, <1>4

\* The messages and the timers on their way, one at a time.
Sure(m) == /\ m.what = "completed" => job[m.job] = IF m.ok THEN "success" ELSE "failure"
           /\ m.what = "error" => job[m.job] = "failure"
WireComes == wire \in Seq(MessageType) /\ \A i \in DOMAIN wire : Sure(wire[i])
TimersCome == /\ timers \subseteq TimerType
              /\ \A t \in timers : job[t.job] = IF t.ok THEN "success" ELSE "failure"

ComingInv == TypeInv /\ WireComes /\ TimersCome /\ LossKnown

\* A message of a completed job is sent once its result is settled.
LEMMA NextWire == ComingInv /\ [Next]_vars => WireComes'
<1> SUFFICES ASSUME ComingInv, [Next]_vars PROVE WireComes'
  OBVIOUS
<1>t. TypeInv /\ WireComes /\ job \in [Jobs -> JobState]
  BY DEF ComingInv, TypeInv, OtherTyped
<1>s. \A j \in Jobs : job[j] \in Ended => job'[j] = job[j]
  BY <1>t, EndStays
<1>q. \A i \in DOMAIN wire : wire[i] \in MessageType /\ wire[i].job \in Jobs
  <2>1. wire \in Seq(MessageType)
    BY <1>t DEF WireComes
  <2>2. \A i \in DOMAIN wire : wire[i] \in MessageType
    BY <2>1
  <2>3. \A m \in MessageType : m.job \in Jobs
    BY DEF MessageType
  <2>4. QED
    BY <2>2, <2>3
<1>r. ASSUME NEW m \in MessageType, Sure(m) PROVE Sure(m)'
  <2>1. m.job \in Jobs
    BY DEF MessageType
  <2>2. QED
    BY <1>r, <1>s, <2>1 DEF Sure, Ended
<1>1. ASSUME UNCHANGED wire PROVE WireComes'
  BY <1>1, <1>r, <1>q, <1>t DEF WireComes
<1>2. ASSUME wire' = << >> PROVE WireComes'
  BY <1>2 DEF WireComes
<1>3. ASSUME wire # << >>, wire' = Tail(wire) PROVE WireComes'
  <2>1. wire' \in Seq(MessageType)
    BY <1>3, <1>t DEF WireComes
  <2>2. \A i \in DOMAIN wire' : i + 1 \in DOMAIN wire /\ wire'[i] = wire[i + 1]
    BY <1>3, <1>t DEF WireComes
  <2>3. QED
    BY <1>r, <1>q, <1>t, <2>1, <2>2 DEF WireComes
<1>4. ASSUME NEW more \in Seq(MessageType), wire' = wire \o more,
             \A i \in DOMAIN more : Sure(more[i])'
      PROVE  WireComes'
  <2>1. wire' \in Seq(MessageType)
    BY <1>4, <1>t DEF WireComes
  <2>2. \A i \in DOMAIN wire' :
          \/ i \in DOMAIN wire /\ wire'[i] = wire[i]
          \/ i - Len(wire) \in DOMAIN more /\ wire'[i] = more[i - Len(wire)]
    BY <1>4, <1>t DEF WireComes
  <2>3. QED
    BY <1>r, <1>q, <1>t, <1>4, <2>1, <2>2 DEF WireComes
<1>5. ASSUME NEW j \in Jobs, Run(j) PROVE WireComes'
  <2>1. PICK m \in MessageType : /\ m.what \notin {"completed", "error"}
                                 /\ wire' = wire \/ wire' = wire \o <<m>>
    <3>1. /\ Message("started", j, TRUE) \in MessageType
          /\ Message("progress", j, TRUE) \in MessageType
          /\ Message("started", j, TRUE).what = "started"
          /\ Message("progress", j, TRUE).what = "progress"
      BY DEF Message, MessageType
    <3>2. QED
      BY <1>5, <3>1 DEF Run, Announce
  <2>3. /\ <<m>> \in Seq(MessageType) /\ DOMAIN <<m>> = {1}
        /\ \A i \in DOMAIN <<m>> : <<m>>[i] = m
    BY <2>1
  <2>5. Sure(m)'
    BY <2>1 DEF Sure
  <2>4. QED
    BY <1>1, <1>4, <2>1, <2>3, <2>5
<1>6. ASSUME NEW j \in Jobs, End(j) PROVE WireComes'
  <2>0. PICK outcome \in Ended :
          /\ job' = [job EXCEPT ![j] = outcome]
          /\ \E messages \in Verdicts(j, outcome) : Announce(j, messages, TRUE)
    BY <1>6 DEF End
  <2>1. PICK messages \in Verdicts(j, outcome) : Announce(j, messages, TRUE)
    BY <2>0
  <2> DEFINE c == Message("completed", j, outcome = "success")
             e == Message("error", j, FALSE)
  <2>2. /\ c \in MessageType /\ e \in MessageType /\ e.what = "error"
        /\ c.what = "completed" /\ c.job = j /\ e.job = j
        /\ c.ok = (outcome = "success")
    BY DEF Message, MessageType
  <2>3. /\ messages \in {<<c>>, <<e>>, <<e, c>>}
        /\ outcome = "failure" \/ messages = <<c>>
    BY DEF Verdicts, Ended
  <2> HIDE DEF c, e
  <2>4. /\ messages \in Seq(MessageType)
        /\ \A i \in DOMAIN messages : messages[i] \in {c, e}
    <3>1. /\ <<c>> \in Seq(MessageType) /\ <<e>> \in Seq(MessageType)
          /\ <<e, c>> \in Seq(MessageType)
      BY <2>2
    <3>2. DOMAIN <<c>> = {1} /\ <<c>>[1] = c /\ DOMAIN <<e>> = {1} /\ <<e>>[1] = e
      OBVIOUS
    <3>3. DOMAIN <<e, c>> = {1, 2} /\ <<e, c>>[1] = e /\ <<e, c>>[2] = c
      OBVIOUS
    <3>4. QED
      BY <2>3, <3>1, <3>2, <3>3
  <2>5. job'[j] = outcome
    BY <1>t, <2>0
  <2>6. wire' = wire \/ wire' = wire \o messages
    BY <2>1 DEF Announce
  <2>7. \A i \in DOMAIN messages : Sure(messages[i])'
    <3>1. Sure(c)'
      BY <2>2, <2>5 DEF Sure, Ended
    <3>2. outcome = "failure" => Sure(e)'
      BY <2>2, <2>5 DEF Sure
    <3>3. outcome = "failure" \/ \A i \in DOMAIN messages : messages[i] = c
      <4>1. DOMAIN <<c>> = {1} /\ <<c>>[1] = c
        OBVIOUS
      <4>2. QED
        BY <2>3, <4>1
    <3>4. QED
      BY <2>4, <3>1, <3>2, <3>3
  <2>8. QED
    BY <1>1, <1>4, <2>4, <2>6, <2>7
<1>7. \/ \E j \in Jobs : Run(j) \/ End(j)
      \/ wire' = << >> \/ UNCHANGED wire
      \/ wire # << >> /\ wire' = Tail(wire)
  BY DEF Next, ChooseFiles, Reset, AskCancel, ClickTab, StartMigration, Upload, UploadLost,
    Connect, JoinFirst, QueueAnswered, JoinAfter, UploadAnsweredBadly, Server, Accept,
    Rejoined, RejoinFails, Monitor, CheckReconnects, CheckGivesUp, AskStatus, Receive,
    ComeUp, Drop, Restart, TimerFires, StatusAnswered, CancelAnswered, Leave, Return,
    Reload, vars
<1>8. QED
  BY <1>1, <1>2, <1>3, <1>5, <1>6, <1>7

\* A timer is set by a message that has arrived, and by nothing else.
LEMMA NextTimers == ComingInv /\ [Next]_vars => TimersCome'
<1> SUFFICES ASSUME ComingInv, [Next]_vars PROVE TimersCome'
  OBVIOUS
<1>t. TypeInv /\ WireComes /\ TimersCome
  BY DEF ComingInv
<1>s. \A j \in Jobs : job[j] \in Ended => job'[j] = job[j]
  BY <1>t, EndStays
<1>1. ASSUME timers' \subseteq timers PROVE TimersCome'
  BY <1>1, <1>s, <1>t DEF TimersCome, TimerType, Ended
<1>2. CASE Receive
  <2> DEFINE m == Head(wire)
  <2>1. /\ m \in MessageType
        /\ Sure(m)
    BY <1>2, <1>t DEF Receive, WireComes
  <2>2. timers' = timers \/ HandleJobCompleted(m)
    BY <1>2 DEF Receive, HandleJobStarted, HandleProgressUpdate, HandleJobError
  <2> HIDE DEF m
  <2>3. CASE HandleJobCompleted(m)
    <3>1. timers' = timers \cup {[job |-> m.job, ok |-> m.ok]} /\ m.what = "completed"
      BY <2>3 DEF HandleJobCompleted
    <3>2. m.job \in Jobs /\ m.ok \in BOOLEAN
      BY <2>1 DEF MessageType
    <3>3. QED
      BY <1>s, <1>t, <2>1, <3>1, <3>2 DEF TimersCome, TimerType, Sure, Ended
  <2>4. QED
    BY <1>1, <2>2, <2>3
<1>3. Receive \/ timers' \subseteq timers
  BY DEF Next, ChooseFiles, Reset, AskCancel, ClickTab, StartMigration, Upload, UploadLost,
    Connect, JoinFirst, QueueAnswered, JoinAfter, UploadAnsweredBadly, Server, Accept, Run,
    End, Rejoined, RejoinFails, Monitor, CheckReconnects, CheckGivesUp, AskStatus, ComeUp,
    Drop, Restart, TimerFires, StatusAnswered, CancelAnswered, Leave, Return, Reload, vars,
    clocks
<1>4. QED
  BY <1>1, <1>2, <1>3

\* A monitor is started only by an attempt to join that was lost.
LEMMA NextLoss ==
  TypeInv /\ LossKnown /\ [Next]_vars => LossKnown' /\ (trouble => trouble')
<1> SUFFICES ASSUME TypeInv, LossKnown, [Next]_vars
             PROVE  LossKnown' /\ (trouble => trouble')
  OBVIOUS
<1>t. job \in [Jobs -> JobState]
  BY DEF TypeInv, OtherTyped
<1>1. trouble => trouble'
  <2>1. ASSUME NEW j \in Jobs, Server(j) PROVE trouble => trouble'
    BY <2>1 DEF Server, Accept, Run, End, Announce, bounds
  <2>2. CASE Receive \/ Drop \/ Restart \/ Reload
    BY <2>2 DEF Receive, Drop, Restart, Reload
  <2>3. ASSUME NEW j \in Jobs, \/ UploadLost(j) \/ RejoinFails(j) \/ StartMigration(j)
        PROVE trouble => trouble'
    BY <2>3 DEF UploadLost, RejoinFails, StartMigration
  <2>4. \/ UNCHANGED trouble
        \/ Receive \/ Drop \/ Restart \/ Reload
        \/ \E j \in Jobs : Server(j) \/ UploadLost(j) \/ RejoinFails(j) \/ StartMigration(j)
    BY DEF Next, ChooseFiles, Reset, AskCancel, ClickTab, Upload, Connect, JoinFirst,
      QueueAnswered, JoinAfter, UploadAnsweredBadly, Rejoined, Monitor, CheckReconnects,
      CheckGivesUp, AskStatus, ComeUp, TimerFires, StatusAnswered, CancelAnswered, Leave,
      Return, vars, bounds
  <2>5. QED
    BY <2>1, <2>2, <2>3, <2>4
<1>g. SUFFICES LossKnown'
  BY <1>1
<1>c. ASSUME NEW new, NEW u, NEW p, Commit(new, u, p),
             \A j \in Jobs : Checker(j) \in p.intervals => trouble
      PROVE  LossKnown'
  <2>1. intervals' \subseteq p.intervals
    BY <1>c DEF Commit
  <2>2. QED
    BY <1>c, <1>1, <2>1 DEF LossKnown
<1> DEFINE Fits(p) == \A j \in Jobs : Checker(j) \in p.intervals => trouble
<1>p. /\ Fits(Now) /\ Fits(Over) /\ Fits(Dropped(Over))
      /\ \A i : Fits(Stopped(i)) /\ Fits(Started(Now, Poller(i)))
      /\ \A c : Fits([Now EXCEPT !.current = c])
      /\ \A c : Fits([Now EXCEPT !.groups = c])
      /\ \A i : Fits([Dropped(Over) EXCEPT !.intervals = intervals \ {i}])
      /\ \A c, d : Fits([Now EXCEPT !.groups = c, !.rejoin = d])
      /\ \A i, c : Fits([Stopped(i) EXCEPT !.groups = c])
  BY DEF LossKnown, Now, Over, Dropped, Stopped, Started, Checker, Poller
<1> HIDE DEF Fits
<1>f. ASSUME NEW new, NEW u, NEW p, Commit(new, u, p), Fits(p) PROVE LossKnown'
  BY <1>f, <1>c DEF Fits
<1>q. ASSUME intervals' \subseteq intervals PROVE LossKnown'
  BY <1>q, <1>1 DEF LossKnown
<1>2. CASE ChooseFiles \/ ClickTab \/ Reset
  BY <1>2, <1>f, <1>p DEF ChooseFiles, ClickTab, Reset, Update, Render
<1>3. ASSUME NEW j \in Jobs,
             StartMigration(j) \/ UploadAnsweredBadly(j) \/ UploadLost(j) \/ CheckGivesUp(j)
      PROVE  LossKnown'
  BY <1>3, <1>f, <1>p DEF StartMigration, UploadAnsweredBadly, UploadLost, CheckGivesUp,
    Update, Render
<1>4. ASSUME NEW j \in Jobs, Connect(j) \/ JoinFirst(j) \/ QueueAnswered(j)
      PROVE  LossKnown'
  <2>1. CASE Connect(j)
    <3>1. PICK c \in {j, current} : Commit(shown, link = "up", [Now EXCEPT !.current = c])
      BY <2>1 DEF Connect
    <3>2. QED
      BY <3>1, <1>f, <1>p
  <2>2. CASE JoinFirst(j)
    <3>1. \/ Commit([shown EXCEPT !.job = j], TRUE, [Now EXCEPT !.groups = @ \cup {j}])
          \/ Commit(shown, TRUE, Now)
      BY <2>2 DEF JoinFirst, Update, Render
    <3>2. QED
      BY <3>1, <1>f, <1>p
  <2>3. CASE QueueAnswered(j)
    BY <2>3, <1>f, <1>p DEF QueueAnswered, Render
  <2>4. QED
    BY <1>4, <2>1, <2>2, <2>3
<1>5. ASSUME NEW j \in Jobs, JoinAfter(j) \/ CheckReconnects(j) \/ Rejoined(j)
      PROVE  LossKnown'
  <2>1. \/ Commit(shown, FALSE, [Now EXCEPT !.groups = @ \cup {j}])
        \/ Commit(shown, FALSE, Started(Now, Poller(j)))
        \/ Commit(shown, FALSE, [Stopped(j) EXCEPT !.groups = @ \cup {j}])
        \/ Commit(shown, FALSE, [Now EXCEPT !.groups = @ \cup {j}, !.rejoin = @ \ {j}])
    BY <1>5 DEF JoinAfter, CheckReconnects, Rejoined
  <2>2. QED
    BY <2>1, <1>f, <1>p
<1>6. ASSUME NEW j \in Jobs, RejoinFails(j) PROVE LossKnown'
  BY <1>6 DEF RejoinFails, LossKnown
<1>7. CASE Receive
  <2> DEFINE m == Head(wire)
  <2>1. \/ HandleJobStarted(m) \/ HandleProgressUpdate(m) \/ HandleJobError(m)
        \/ UNCHANGED rendered
    BY <1>7 DEF Receive, HandleJobCompleted
  <2> HIDE DEF m
  <2>2. CASE HandleJobStarted(m) \/ HandleProgressUpdate(m) \/ HandleJobError(m)
    BY <2>2, <1>f, <1>p DEF HandleJobStarted, HandleProgressUpdate, HandleJobError,
      Update, Render
  <2>3. QED
    BY <2>1, <2>2, <1>q DEF rendered
<1>8. ASSUME NEW t \in timers, TimerFires(t) PROVE LossKnown'
  BY <1>8, <1>f, <1>p DEF TimerFires, Render
<1>9. ASSUME NEW q \in polls, StatusAnswered(q) PROVE LossKnown'
  BY <1>9, <1>f, <1>p DEF StatusAnswered, Update, Render
<1>10. ASSUME NEW g \in granted, CancelAnswered(g) PROVE LossKnown'
  <2>1. \/ Commit(Showing("error", "cancel"), TRUE, Over)
        \/ Commit(Showing("error", "cancel"), TRUE,
                  [Dropped(Over) EXCEPT !.intervals = intervals \ {g}])
    BY <1>10 DEF CancelAnswered, Render
  <2>2. QED
    BY <2>1, <1>f, <1>p
<1>11. CASE AskCancel \/ ComeUp \/ Drop \/ Restart \/ Leave \/ Return \/ Reload
  BY <1>11, <1>q DEF AskCancel, ComeUp, Drop, Restart, Leave, Return, Reload, rendered
<1>12. ASSUME NEW j \in Jobs, Server(j) \/ AskStatus(j) PROVE LossKnown'
  BY <1>12, <1>q DEF Server, Accept, Run, End, AskStatus, rendered
<1>13. CASE UNCHANGED vars
  BY <1>13, <1>q DEF vars, rendered
<1>14. QED
  BY <1>2, <1>3, <1>4, <1>5, <1>6, <1>7, <1>8, <1>9, <1>10, <1>11, <1>12, <1>13
  DEF Next, Upload, Monitor

\* A poll asks about a job.
LEMMA NextPolls == TypeInv /\ [Next]_vars => polls' \subseteq Jobs
<1> SUFFICES ASSUME polls \subseteq Jobs, [Next]_vars PROVE polls' \subseteq Jobs
  BY DEF TypeInv, ComingTyped
<1>1. (\E j \in Jobs : AskStatus(j)) \/ polls' \subseteq polls
  BY DEF Next, ChooseFiles, Reset, AskCancel, ClickTab, StartMigration, Upload, UploadLost,
    Connect, JoinFirst, QueueAnswered, JoinAfter, UploadAnsweredBadly, Server, Accept, Run,
    End, Rejoined, RejoinFails, Monitor, CheckReconnects, CheckGivesUp, Receive, ComeUp,
    Drop, Restart, TimerFires, StatusAnswered, CancelAnswered, Leave, Return, Reload, vars,
    clocks
<1>2. QED
  BY <1>1 DEF AskStatus

\* So everything on its way is true when it arrives.
LEMMA NextComing == ComingInv /\ [Next]_vars => ComingInv'
<1> SUFFICES ASSUME ComingInv, [Next]_vars PROVE ComingInv'
  OBVIOUS
<1>1. TypeInv /\ LossKnown
  BY DEF ComingInv
<1>2. WireComes' /\ TimersCome' /\ LossKnown' /\ polls' \subseteq Jobs
  BY <1>1, NextWire, NextTimers, NextLoss, NextPolls
<1>3. ComingTyped'
  BY <1>2 DEF ComingTyped, WireComes, TimersCome
<1>4. ShownTyped' /\ OtherTyped'
  BY <1>1, NextTold, NextOther
<1>5. QED
  BY <1>2, <1>3, <1>4 DEF ComingInv, TypeInv

LEMMA ComingHolds == Spec => []ComingInv
<1>1. Init => ComingInv
  <2> SUFFICES ASSUME Init PROVE ComingInv
    OBVIOUS
  <2>1. TypeInv
    BY InitTypeInv
  <2>2. QED
    BY <2>1 DEF Init, ComingInv, WireComes, TimersCome, LossKnown
<1>2. QED
  BY <1>1, NextComing, PTL DEF Spec

-----------------------------------------------------------------------------
(* What the page says of the last upload.                                  *)

\* Uploads are started in turn, and the server has those that were started.
InTurn == /\ \A i, j \in Jobs : i < j /\ step[j] # "none" => step[i] # "none"
          /\ \A j \in Jobs : step[j] = "none" => job[j] = "unused"

\* Of the earlier uploads nothing comes any more.
Apart(j) == /\ \A i \in Jobs : i < j =>
                  step[i] = "over" /\ job[i] \in Ended \cup {"refused"}
            /\ \A n \in DOMAIN wire : wire[n].job = j
            /\ \A t \in timers : t.job = j
            /\ granted # {} => j \in accepted

\* What is shown is true of j.
TrueOf(j) ==
  /\ shown.verdict = "success" => job[j] = "success"
  /\ shown.verdict = "cancel" => j \in accepted
  /\ shown.verdict = "failure" =>
       kind[j] = "single" \/ job[j] \in {"failure", "refused"} \/ trouble
  /\ shown.verdict = "assumed" => trouble

VerdictInv == InTurn /\ \A j \in Jobs : Latest(j) /\ ~overlap => Apart(j) /\ TrueOf(j)

\* What the steps that start nothing leave as it is.
LEMMA NextSteps ==
  ASSUME TypeInv, [Next]_vars, ~\E k \in Jobs : StartMigration(k)
  PROVE  /\ overlap' = overlap /\ kind' = kind
         /\ \A i \in Jobs : /\ step'[i] = "none" <=> step[i] = "none"
                            /\ step[i] = "over" => step'[i] = "over"
<1>t. step \in [Jobs -> Steps]
  BY DEF TypeInv, OtherTyped
<1>1. CASE UNCHANGED <<step, kind, overlap>>
  BY <1>1
<1>2. ASSUME NEW j \in Jobs, Upload(j) \/ UploadLost(j)
      PROVE  /\ overlap' = overlap /\ kind' = kind
             /\ \A i \in Jobs : /\ step'[i] = "none" <=> step[i] = "none"
                                /\ step[i] = "over" => step'[i] = "over"
  BY <1>2, <1>t DEF Upload, UploadLost, Connect, JoinFirst, QueueAnswered, JoinAfter,
    UploadAnsweredBadly, bounds
<1>3. CASE Reload
  BY <1>3, <1>t DEF Reload
<1>4. \/ UNCHANGED <<step, kind, overlap>> \/ Reload
      \/ \E j \in Jobs : Upload(j) \/ UploadLost(j)
  BY DEF Next, ChooseFiles, Reset, AskCancel, ClickTab, Server, Accept, Run, End, Rejoined,
    RejoinFails, Monitor, CheckReconnects, CheckGivesUp, AskStatus, Receive, ComeUp, Drop,
    Restart, TimerFires, StatusAnswered, CancelAnswered, Leave, Return, vars, upload, bounds
<1>5. QED
  BY <1>1, <1>2, <1>3, <1>4

\* What comes newly is of a job that runs.
LEMMA NextNews ==
  ASSUME ComingInv, [Next]_vars
  PROVE  /\ \A n \in DOMAIN wire' :
              \/ \E o \in DOMAIN wire : wire'[n].job = wire[o].job
              \/ wire'[n].job \in Jobs /\ job[wire'[n].job] \in {"accepted", "running"}
         /\ \A t \in timers' : t \in timers \/ \E o \in DOMAIN wire : t.job = wire[o].job
         /\ \/ granted' \subseteq granted
            \/ current \in Jobs /\ job[current] = "running" /\ current \in accepted'
         /\ accepted \subseteq accepted'
<1>t. TypeInv /\ wire \in Seq(MessageType) /\ current \in Jobs \cup {None}
  BY DEF ComingInv, WireComes, TypeInv, ShownTyped
<1> DEFINE News(n) == \/ \E o \in DOMAIN wire : wire'[n].job = wire[o].job
                      \/ /\ wire'[n].job \in Jobs
                         /\ job[wire'[n].job] \in {"accepted", "running"}
<1>1. \A n \in DOMAIN wire' : News(n)
  <2>1. ASSUME NEW more \in Seq(MessageType), NEW j \in Jobs, wire' = wire \o more,
               job[j] \in {"accepted", "running"}, \A i \in DOMAIN more : more[i].job = j,
               NEW n \in DOMAIN wire'
        PROVE  News(n)
    <3>1. \/ n \in DOMAIN wire /\ wire'[n] = wire[n]
          \/ n - Len(wire) \in DOMAIN more /\ wire'[n] = more[n - Len(wire)]
      BY <1>t, <2>1
    <3>2. QED
      BY <2>1, <3>1
  <2>2. ASSUME NEW j \in Jobs, Run(j) PROVE \A n \in DOMAIN wire' : News(n)
    <3>1. PICK m \in MessageType : m.job = j /\ (wire' = wire \/ wire' = wire \o <<m>>)
      <4>1. /\ Message("started", j, TRUE) \in MessageType
            /\ Message("progress", j, TRUE) \in MessageType
            /\ Message("started", j, TRUE).job = j /\ Message("progress", j, TRUE).job = j
        BY DEF Message, MessageType
      <4>2. QED
        BY <2>2, <4>1 DEF Run, Announce
    <3>2. /\ <<m>> \in Seq(MessageType) /\ DOMAIN <<m>> = {1} /\ <<m>>[1] = m
      OBVIOUS
    <3>3. job[j] = "accepted"
      BY <2>2 DEF Run
    <3>4. CASE wire' = wire
      BY <3>4
    <3>5. CASE wire' = wire \o <<m>>
      <4>1. \A i \in DOMAIN <<m>> : <<m>>[i].job = j
        BY <3>1, <3>2
      <4>2. QED
        BY <2>1, <3>2, <3>3, <3>5, <4>1
    <3>6. QED
      BY <3>1, <3>4, <3>5
  <2>3. ASSUME NEW j \in Jobs, End(j) PROVE \A n \in DOMAIN wire' : News(n)
    <3>0. PICK outcome \in Ended : \E ms \in Verdicts(j, outcome) : Announce(j, ms, TRUE)
      BY <2>3 DEF End
    <3>1. PICK messages \in Verdicts(j, outcome) : wire' = wire \/ wire' = wire \o messages
      BY <3>0 DEF Announce
    <3> DEFINE c == Message("completed", j, outcome = "success")
               e == Message("error", j, FALSE)
    <3>2. messages \in {<<c>>, <<e>>, <<e, c>>}
      BY DEF Verdicts
    <3>3. /\ c \in MessageType /\ e \in MessageType /\ c.job = j /\ e.job = j
      BY DEF Message, MessageType
    <3> HIDE DEF c, e
    <3>4. /\ messages \in Seq(MessageType) /\ \A i \in DOMAIN messages : messages[i] \in {c, e}
      <4>1. /\ <<c>> \in Seq(MessageType) /\ <<e>> \in Seq(MessageType)
            /\ <<e, c>> \in Seq(MessageType)
        BY <3>3
      <4>2. DOMAIN <<c>> = {1} /\ <<c>>[1] = c /\ DOMAIN <<e>> = {1} /\ <<e>>[1] = e
        OBVIOUS
      <4>3. DOMAIN <<e, c>> = {1, 2} /\ <<e, c>>[1] = e /\ <<e, c>>[2] = c
        OBVIOUS
      <4>4. QED
        BY <3>2, <4>1, <4>2, <4>3
    <3>5. job[j] = "running" /\ \A i \in DOMAIN messages : messages[i].job = j
      BY <2>3, <3>3, <3>4 DEF End
    <3>6. CASE wire' = wire
      BY <3>6
    <3>7. CASE wire' = wire \o messages
      BY <2>1, <3>4, <3>5, <3>7
    <3>8. QED
      BY <3>1, <3>6, <3>7
  <2>4. CASE wire' = << >> \/ UNCHANGED wire
    BY <2>4
  <2>5. CASE wire # << >> /\ wire' = Tail(wire)
    <3>1. \A n \in DOMAIN wire' : n + 1 \in DOMAIN wire /\ wire'[n] = wire[n + 1]
      BY <1>t, <2>5
    <3>2. QED
      BY <3>1
  <2> HIDE DEF News
  <2>6. \/ \E j \in Jobs : Run(j) \/ End(j)
        \/ wire' = << >> \/ UNCHANGED wire
        \/ wire # << >> /\ wire' = Tail(wire)
    BY DEF Next, ChooseFiles, Reset, AskCancel, ClickTab, StartMigration, Upload, UploadLost,
      Connect, JoinFirst, QueueAnswered, JoinAfter, UploadAnsweredBadly, Server, Accept,
      Rejoined, RejoinFails, Monitor, CheckReconnects, CheckGivesUp, AskStatus, Receive,
      ComeUp, Drop, Restart, TimerFires, StatusAnswered, CancelAnswered, Leave, Return,
      Reload, vars
  <2>7. QED
    BY <2>2, <2>3, <2>4, <2>5, <2>6
<1>2. \A t \in timers' : t \in timers \/ \E o \in DOMAIN wire : t.job = wire[o].job
  <2>1. CASE Receive
    <3>1. wire # << >> /\ 1 \in DOMAIN wire /\ Head(wire) = wire[1]
      BY <1>t, <2>1 DEF Receive
    <3>2. timers' = timers \/ HandleJobCompleted(wire[1])
      BY <2>1, <3>1 DEF Receive, HandleJobStarted, HandleProgressUpdate, HandleJobError
    <3>3. QED
      BY <3>1, <3>2 DEF HandleJobCompleted
  <2>2. Receive \/ timers' \subseteq timers
    BY DEF Next, ChooseFiles, Reset, AskCancel, ClickTab, StartMigration, Upload, UploadLost,
      Connect, JoinFirst, QueueAnswered, JoinAfter, UploadAnsweredBadly, Server, Accept, Run,
      End, Rejoined, RejoinFails, Monitor, CheckReconnects, CheckGivesUp, AskStatus, ComeUp,
      Drop, Restart, TimerFires, StatusAnswered, CancelAnswered, Leave, Return, Reload,
      vars, clocks
  <2>3. QED
    BY <2>1, <2>2
<1>3. AskCancel \/ (granted' \subseteq granted /\ UNCHANGED accepted)
  BY DEF Next, ChooseFiles, Reset, ClickTab, StartMigration, Upload, UploadLost,
    Connect, JoinFirst, QueueAnswered, JoinAfter, UploadAnsweredBadly, Server, Accept, Run,
    End, Rejoined, RejoinFails, Monitor, CheckReconnects, CheckGivesUp, AskStatus, Receive,
    ComeUp, Drop, Restart, TimerFires, StatusAnswered, CancelAnswered, Leave, Return,
    Reload, vars, server
<1>4. CASE AskCancel
  BY <1>1, <1>2, <1>4, <1>t DEF AskCancel
<1>5. QED
  BY <1>1, <1>2, <1>3, <1>4

\* The server takes nothing it was not sent.
LEMMA NextInTurn == TypeInv /\ InTurn /\ [Next]_vars => InTurn'
<1> SUFFICES ASSUME TypeInv, InTurn, [Next]_vars PROVE InTurn'
  OBVIOUS
<1>t. step \in [Jobs -> Steps] /\ job \in [Jobs -> JobState]
  BY DEF TypeInv, OtherTyped
<1>1. ASSUME NEW k \in Jobs, StartMigration(k) PROVE InTurn'
  <2>1. /\ job' = job /\ \A i \in Jobs : i < k => step[i] # "none"
        /\ step' = [step EXCEPT ![k] = "connect"]
    BY <1>1 DEF StartMigration, server
  <2>2. QED
    BY <1>t, <2>1 DEF InTurn
<1>2. ASSUME ~\E k \in Jobs : StartMigration(k) PROVE InTurn'
  <2>1. \A i \in Jobs : step'[i] = "none" <=> step[i] = "none"
    BY <1>2, NextSteps
  <2>2. \A i \in Jobs : step[i] = "none" => job'[i] = job[i]
    <3>1. ASSUME NEW j \in Jobs, Server(j) PROVE \A i \in Jobs : step[i] = "none" => job'[i] = job[i]
      <4>1. step[j] # "none"
        BY <3>1 DEF Server, Accept, Run, End, InTurn
      <4>2. \E x \in JobState : job' = [job EXCEPT ![j] = x]
        BY <3>1 DEF Server, Accept, Run, End, Ended, JobState
      <4>3. QED
        BY <1>t, <4>1, <4>2
    <3>2. CASE Restart
      BY <3>2, <1>t DEF Restart, InTurn
    <3>3. CASE UNCHANGED job
      BY <3>3
    <3>4. \/ \E i \in Jobs : Server(i)
          \/ Restart \/ UNCHANGED job
      BY DEF Next, ChooseFiles, Reset, AskCancel, ClickTab, StartMigration, Upload,
        UploadLost, Connect, JoinFirst, QueueAnswered, JoinAfter, UploadAnsweredBadly,
        Rejoined, RejoinFails, Monitor, CheckReconnects, CheckGivesUp, AskStatus, Receive,
        ComeUp, Drop, TimerFires, StatusAnswered, CancelAnswered, Leave, Return, Reload,
        server, vars
    <3>5. QED
      BY <3>1, <3>2, <3>3, <3>4
  <2>3. QED
    BY <2>1, <2>2 DEF InTurn
<1>3. QED
  BY <1>1, <1>2

\* Nothing of an earlier upload comes while the last one is under way.
LEMMA NextApart ==
  ASSUME ComingInv, InTurn, [Next]_vars, NEW j \in Jobs, Latest(j), Apart(j),
         ~\E k \in Jobs : StartMigration(k)
  PROVE  Apart(j)'
<1>t. TypeInv
  BY DEF ComingInv
<1>1. \A k \in Jobs : job[k] \in {"accepted", "running"} => k = j
  <2> SUFFICES ASSUME NEW k \in Jobs, job[k] \in {"accepted", "running"}, k # j PROVE FALSE
    OBVIOUS
  <2>1. ~(k < j)
    BY DEF Apart, Ended
  <2>2. ~(k > j)
    BY DEF Latest, InTurn
  <2>3. k \in Nat /\ j \in Nat
    BY DEF Jobs
  <2>4. QED
    BY <2>1, <2>2, <2>3
<1>2. \A i \in Jobs : i < j => step'[i] = "over" /\ job'[i] \in Ended \cup {"refused"}
  BY <1>t, NextSteps, EndStays DEF Apart
<1>3. \A n \in DOMAIN wire' : wire'[n].job = j
  BY <1>1, NextNews DEF Apart
<1>4. \A t \in timers' : t.job = j
  BY NextNews DEF Apart
<1>5. granted' # {} => j \in accepted'
  <2>1. CASE granted' \subseteq granted
    BY <2>1, NextNews DEF Apart
  <2>2. CASE current \in Jobs /\ job[current] = "running" /\ current \in accepted'
    BY <1>1, <2>2
  <2>3. QED
    BY <2>1, <2>2, NextNews
<1>6. QED
  BY <1>2, <1>3, <1>4, <1>5 DEF Apart

\* So what a step tells is true of the last upload.
LEMMA NextTrue ==
  ASSUME ComingInv, InTurn, [Next]_vars, NEW j \in Jobs, Latest(j), Apart(j), TrueOf(j),
         ~\E k \in Jobs : StartMigration(k)
  PROVE  TrueOf(j)'
<1>t. TypeInv /\ LossKnown /\ TimersCome /\ WireComes
  BY DEF ComingInv
<1>1. /\ job[j] \in Ended \cup {"refused"} => job'[j] = job[j]
      /\ accepted \subseteq accepted' /\ kind' = kind /\ (trouble => trouble') /\ Told
  BY <1>t, EndStays, NextNews, NextSteps, NextLoss, NextTold
<1>2. ASSUME NEW t \in timers PROVE job[j] = IF t.ok THEN "success" ELSE "failure"
  BY <1>t DEF TimersCome, Apart
<1>3. ASSUME wire # <<>>, Head(wire).what = "error" PROVE job[j] = "failure"
  <2>1. 1 \in DOMAIN wire /\ Head(wire) = wire[1]
    BY <1>3, <1>t DEF WireComes
  <2>2. QED
    BY <1>3, <1>t, <2>1 DEF WireComes, Sure, Apart
<1>4. ASSUME NEW k \in Jobs, step[k] = "post" PROVE k = j
  <2>1. ~(k < j) /\ ~(k > j)
    BY <1>4 DEF Apart, Latest
  <2>2. QED
    BY <2>1 DEF Jobs
<1>5. CASE shown'.verdict \in {shown.verdict, "none"}
  BY <1>1, <1>5 DEF TrueOf, Ended
<1>6. CASE shown'.verdict = "cancel" /\ granted # {}
  BY <1>1, <1>6 DEF TrueOf, Apart
<1>7. CASE shown'.verdict = "success" /\ \E t \in timers : t.ok
  BY <1>1, <1>2, <1>7 DEF TrueOf, Ended
<1>8. CASE shown'.verdict = "failure" /\ FailureTold
  <2>1. kind[j] = "single" \/ job[j] \in {"failure", "refused"} \/ trouble'
    BY <1>2, <1>3, <1>4, <1>8 DEF FailureTold
  <2>2. QED
    BY <1>1, <1>8, <2>1 DEF TrueOf, Ended
<1>9. CASE shown'.verdict = "assumed" /\ trouble'
  BY <1>9 DEF TrueOf
<1>10. QED
  BY <1>1, <1>5, <1>6, <1>7, <1>8, <1>9 DEF Told

\* An upload that is started on a quiet page is apart from the earlier ones.
LEMMA StartApart ==
  ASSUME ComingInv, InTurn, NEW k \in Jobs, StartMigration(k), NEW j \in Jobs, Latest(j)',
         ~overlap'
  PROVE  Apart(j)' /\ TrueOf(j)'
<1>t. ShownTyped /\ step \in [Jobs -> Steps]
  BY DEF ComingInv, TypeInv, OtherTyped
<1>1. /\ step[k] = "none" /\ step' = [step EXCEPT ![k] = "connect"] /\ Quiet
      /\ UNCHANGED <<job, wire, timers, granted>>
      /\ Commit(Showing("processing", "none"), TRUE, Now)
  BY DEF StartMigration, Update, Render, server, clocks
<1>2. j = k
  <2>1. ~(k > j)
    BY <1>t, <1>1 DEF Latest
  <2>2. ~(j > k)
    BY <1>t, <1>1 DEF Latest, InTurn
  <2>3. QED
    BY <2>1, <2>2 DEF Jobs
<1>3. \A i \in Jobs : i < j => step'[i] # "none" /\ step'[i] = step[i]
  <2>1. \A i \in Jobs : i < k => step[i] # "none"
    BY DEF StartMigration
  <2>2. QED
    BY <1>t, <1>1, <1>2, <2>1 DEF Jobs
<1>4. Apart(j)'
  BY <1>1, <1>3 DEF Apart, Quiet
<1>5. shown'.verdict = "none"
  BY <1>t, <1>1 DEF Commit, Showing, ShownTyped, ShownType
<1>6. QED
  BY <1>4, <1>5 DEF TrueOf

(***************************************************************************)
(* What the page says of the last upload is so, for any number of uploads  *)
(* and any order of messages, timers, answers, leaves, reloads and         *)
(* restarts, if nothing of an earlier upload was under way when it was     *)
(* started.                                                                *)
(***************************************************************************)
THEOREM NoFalseVerdict == Spec => []VerdictIsTrue
<1>1. Init => VerdictInv
  BY DEF Init, VerdictInv, InTurn, Latest
<1>2. ComingInv /\ VerdictInv /\ [Next]_vars => VerdictInv'
  <2> SUFFICES ASSUME ComingInv, VerdictInv, [Next]_vars PROVE VerdictInv'
    OBVIOUS
  <2>1. InTurn'
    BY NextInTurn DEF ComingInv, VerdictInv
  <2>2. ASSUME NEW j \in Jobs, Latest(j)', ~overlap' PROVE Apart(j)' /\ TrueOf(j)'
    <3>1. CASE \E k \in Jobs : StartMigration(k)
      BY <2>2, <3>1, StartApart DEF VerdictInv
    <3>2. CASE ~\E k \in Jobs : StartMigration(k)
      <4>1. /\ overlap' = overlap
            /\ \A i \in Jobs : step'[i] = "none" <=> step[i] = "none"
        BY <3>2, NextSteps DEF ComingInv
      <4>2. Latest(j) /\ ~overlap
        BY <2>2, <4>1 DEF Latest
      <4>3. QED
        BY <3>2, <4>2, NextApart, NextTrue DEF VerdictInv
    <3>3. QED
      BY <3>1, <3>2
  <2>3. QED
    BY <2>1, <2>2 DEF VerdictInv
<1>3. VerdictInv => VerdictIsTrue
  BY DEF VerdictInv, TrueOf, VerdictIsTrue
<1>4. QED
  BY <1>1, <1>2, <1>3, ComingHolds, PTL DEF Spec

-----------------------------------------------------------------------------
(* The status interval.                                                    *)

\* The one that ticks is the one that is held.
MonitorInv == leaves = 0 => mounted /\ intervals \subseteq {held} \ {NoInterval}

\* A render keeps it so, whatever it starts or drops: an interval that is replaced is
\* cleared, and the new one with it.
LEMMA CommitMonitor ==
  ASSUME mounted, NEW new, NEW u \in BOOLEAN, NEW p, Commit(new, u, p),
         p.intervals \subseteq {held, p.held} \ {NoInterval}
  PROVE  intervals' \subseteq {held'} \ {NoInterval}
<1>1. /\ intervals' \subseteq p.intervals \ Cleared(p)
      /\ held' = IF Cleared(p) = {} THEN p.held ELSE NoInterval
  BY DEF Commit
<1>2. CASE held # NoInterval /\ p.held # held
  BY <1>1, <1>2 DEF Cleared
<1>3. CASE ~(held # NoInterval /\ p.held # held)
  BY <1>1, <1>3 DEF Cleared
<1>4. QED
  BY <1>2, <1>3

\* Every step keeps it so.
LEMMA NextMonitor == TypeInv /\ MonitorInv /\ [Next]_vars => MonitorInv'
<1> SUFFICES ASSUME TypeInv, MonitorInv, [Next]_vars, leaves' = 0
             PROVE  mounted' /\ intervals' \subseteq {held'} \ {NoInterval}
  BY DEF MonitorInv
<1>l. leaves \in Nat
  BY DEF TypeInv, OtherTyped
<1>0. leaves = 0 /\ ~Leave /\ ~Reload
  <2>1. Leave \/ Reload => leaves' = leaves + 1
    BY DEF Leave, Reload
  <2>2. Leave \/ Reload \/ leaves' = leaves
    BY DEF Next, ChooseFiles, Reset, AskCancel, ClickTab, StartMigration, Upload,
      UploadLost, Connect, JoinFirst, QueueAnswered, JoinAfter, UploadAnsweredBadly, Server,
      Accept, Run, End, Rejoined, RejoinFails, Monitor, CheckReconnects, CheckGivesUp,
      AskStatus, Receive, ComeUp, Drop, Restart, TimerFires, StatusAnswered,
      CancelAnswered, Return, vars, bounds
  <2>3. QED
    BY <1>l, <2>1, <2>2
<1>m. mounted /\ intervals \subseteq {held} \ {NoInterval}
  BY <1>0 DEF MonitorInv
<1>a. \A j : Checker(j) # NoInterval /\ Poller(j) # NoInterval
  BY DEF Checker, Poller, NoInterval
<1>q. ASSUME UNCHANGED <<mounted, intervals, held>>
      PROVE  mounted' /\ intervals' \subseteq {held'} \ {NoInterval}
  BY <1>q, <1>m
<1>c. ASSUME NEW new, NEW u \in BOOLEAN, NEW p, Commit(new, u, p), UNCHANGED mounted,
             p.intervals \subseteq {held, p.held} \ {NoInterval}
      PROVE  mounted' /\ intervals' \subseteq {held'} \ {NoInterval}
  BY <1>c, <1>m, CommitMonitor
<1> DEFINE Fits(p) == p.intervals \subseteq {held, p.held} \ {NoInterval}
<1>p. /\ Fits(Now) /\ Fits(Over) /\ Fits(Dropped(Over))
      /\ \A j : Fits(Stopped(j)) /\ Fits(Started(Now, Poller(j)))
      /\ \A c : Fits([Now EXCEPT !.current = c])
      /\ \A c : Fits([Now EXCEPT !.groups = c])
      /\ \A i : Fits([Dropped(Over) EXCEPT !.intervals = intervals \ {i}])
      /\ \A c, d : Fits([Now EXCEPT !.groups = c, !.rejoin = d])
      /\ \A j, c : Fits([Stopped(j) EXCEPT !.groups = c])
      /\ \A j, d : Fits(Started([Now EXCEPT !.rejoin = d], Checker(j)))
  BY <1>m, <1>a DEF Now, Over, Dropped, Stopped, Started
<1> HIDE DEF Fits
<1>f. ASSUME NEW new, NEW u \in BOOLEAN, NEW p, Commit(new, u, p), UNCHANGED mounted, Fits(p)
      PROVE  mounted' /\ intervals' \subseteq {held'} \ {NoInterval}
  BY <1>f, <1>c DEF Fits
<1>1. CASE ChooseFiles \/ ClickTab \/ Reset
  BY <1>1, <1>f, <1>p DEF ChooseFiles, ClickTab, Reset, Update, Render
<1>2. ASSUME NEW j \in Jobs,
             StartMigration(j) \/ UploadAnsweredBadly(j) \/ UploadLost(j) \/ CheckGivesUp(j)
      PROVE  mounted' /\ intervals' \subseteq {held'} \ {NoInterval}
  BY <1>2, <1>f, <1>p DEF StartMigration, UploadAnsweredBadly, UploadLost, CheckGivesUp,
    Update, Render
<1>3. ASSUME NEW j \in Jobs, Connect(j) \/ JoinFirst(j) \/ QueueAnswered(j)
      PROVE  mounted' /\ intervals' \subseteq {held'} \ {NoInterval}
  <2>1. CASE Connect(j)
    <3>1. PICK c \in {j, current} : Commit(shown, link = "up", [Now EXCEPT !.current = c])
      BY <2>1 DEF Connect
    <3>2. UNCHANGED mounted
      BY <2>1 DEF Connect
    <3>3. QED
      BY <3>1, <3>2, <1>f, <1>p
  <2>2. CASE JoinFirst(j)
    <3>1. /\ UNCHANGED mounted
          /\ \/ Commit([shown EXCEPT !.job = j], TRUE, [Now EXCEPT !.groups = @ \cup {j}])
             \/ Commit(shown, TRUE, Now)
      BY <2>2 DEF JoinFirst, Update, Render
    <3>2. QED
      BY <3>1, <1>f, <1>p
  <2>3. CASE QueueAnswered(j)
    BY <2>3, <1>f, <1>p DEF QueueAnswered, Render
  <2>4. QED
    BY <1>3, <2>1, <2>2, <2>3
<1>4. ASSUME NEW j \in Jobs, JoinAfter(j) \/ CheckReconnects(j)
      PROVE  mounted' /\ intervals' \subseteq {held'} \ {NoInterval}
  <2>1. /\ UNCHANGED mounted
        /\ \/ Commit(shown, FALSE, [Now EXCEPT !.groups = @ \cup {j}])
           \/ Commit(shown, FALSE, Started(Now, Poller(j)))
           \/ Commit(shown, FALSE, [Stopped(j) EXCEPT !.groups = @ \cup {j}])
    BY <1>4 DEF JoinAfter, CheckReconnects
  <2>2. QED
    BY <2>1, <1>f, <1>p
<1>5. ASSUME NEW j \in Jobs, Rejoined(j) \/ RejoinFails(j)
      PROVE  mounted' /\ intervals' \subseteq {held'} \ {NoInterval}
  <2>1. CASE Rejoined(j)
    BY <2>1, <1>f, <1>p DEF Rejoined
  <2>2. CASE RejoinFails(j)
    <3>1. PICK rej \in {rejoin, rejoin \ {j}} :
            Render([shown EXCEPT !.status = "processing"],
                   Started([Now EXCEPT !.rejoin = rej], Checker(j)))
      BY <2>2 DEF RejoinFails
    <3>2. UNCHANGED mounted
      BY <2>2 DEF RejoinFails
    <3>3. QED
      BY <3>1, <3>2, <1>f, <1>p DEF Render
  <2>3. QED
    BY <1>5, <2>1, <2>2
<1>6. CASE Receive
  <2> DEFINE m == Head(wire)
  <2>1. /\ UNCHANGED mounted
        /\ \/ HandleJobStarted(m) \/ HandleProgressUpdate(m) \/ HandleJobError(m)
           \/ UNCHANGED rendered
    BY <1>6 DEF Receive, HandleJobCompleted
  <2> HIDE DEF m
  <2>2. CASE HandleJobStarted(m) \/ HandleProgressUpdate(m) \/ HandleJobError(m)
    BY <2>1, <2>2, <1>f, <1>p DEF HandleJobStarted, HandleProgressUpdate, HandleJobError,
      Update, Render
  <2>3. CASE UNCHANGED rendered
    BY <2>1, <2>3, <1>q DEF rendered
  <2>4. QED
    BY <2>1, <2>2, <2>3
<1>7. ASSUME NEW t \in timers, TimerFires(t)
      PROVE  mounted' /\ intervals' \subseteq {held'} \ {NoInterval}
  BY <1>7, <1>f, <1>p DEF TimerFires, Render
<1>8. ASSUME NEW q \in polls, StatusAnswered(q)
      PROVE  mounted' /\ intervals' \subseteq {held'} \ {NoInterval}
  BY <1>8, <1>f, <1>p DEF StatusAnswered, Update, Render
<1>9. ASSUME NEW g \in granted, CancelAnswered(g)
      PROVE  mounted' /\ intervals' \subseteq {held'} \ {NoInterval}
  <2>1. /\ UNCHANGED mounted
        /\ \/ Commit(Showing("error", "cancel"), TRUE, Over)
           \/ Commit(Showing("error", "cancel"), TRUE,
                     [Dropped(Over) EXCEPT !.intervals = intervals \ {g}])
    BY <1>9 DEF CancelAnswered, Render
  <2>2. QED
    BY <2>1, <1>f, <1>p
<1>10. CASE AskCancel \/ ComeUp \/ Drop \/ Restart \/ UNCHANGED vars
  BY <1>10, <1>q DEF AskCancel, ComeUp, Drop, Restart, vars, rendered
<1>11. ASSUME NEW j \in Jobs, Server(j) \/ AskStatus(j)
       PROVE  mounted' /\ intervals' \subseteq {held'} \ {NoInterval}
  BY <1>11, <1>q DEF Server, Accept, Run, End, AskStatus, rendered
<1>12. ~Return
  BY <1>m DEF Return
<1>13. QED
  BY <1>0, <1>1, <1>2, <1>3, <1>4, <1>5, <1>6, <1>7, <1>8, <1>9, <1>10, <1>11, <1>12
  DEF Next, Upload, Monitor

\* A page that was never left ticks once at most, whatever was retried, dropped or
\* started again on it.
THEOREM OneMonitorHolds == Spec => []OneMonitor
<1>1. Init => TypeInv /\ MonitorInv
  BY InitTypeInv DEF Init, MonitorInv
<1>2. ComingInv /\ MonitorInv /\ [Next]_vars => MonitorInv'
  BY NextMonitor DEF ComingInv
<1>3. MonitorInv => OneMonitor
  <2> SUFFICES ASSUME MonitorInv, leaves = 0 PROVE Cardinality(intervals) <= 1
    BY DEF OneMonitor
  <2>1. intervals \subseteq {held}
    BY DEF MonitorInv
  <2>2. IsFiniteSet({held}) /\ Cardinality({held}) = 1
    BY FS_Singleton
  <2>3. QED
    BY <2>1, <2>2, FS_Subset
<1>4. QED
  BY <1>1, <1>2, <1>3, ComingHolds, PTL DEF Spec

-----------------------------------------------------------------------------
(* Nothing under way is lost from sight.                                   *)

\* A render that updates the context follows the job it shows, if that is under way.
LEMMA UpdateWatches ==
  ASSUME NEW new, NEW p, Commit(new, TRUE, p), UNCHANGED mounted
  PROVE  Watched'
<1>1. SUFFICES ASSUME mounted', Processing', shown'.job # None
               PROVE  shown'.job \in rejoin'
  BY DEF Watched
<1>2. mounted /\ shown' = new /\ MayRestore(new)
  BY <1>1 DEF Commit, Processing, MayRestore
<1>3. rejoin' = p.rejoin \cup {new.job}
  BY <1>2 DEF Commit
<1>4. QED
  BY <1>2, <1>3

\* A render without an update leaves the groups and the intervals it is given alone, or
\* the held interval is another one, and the job is followed again.
LEMMA CommitWatches ==
  ASSUME mounted, NEW p, Commit(shown, FALSE, p), Processing, shown.job # None
  PROVE  \/ shown'.job \in rejoin'
         \/ /\ p.held = held /\ groups' = p.groups /\ intervals' = p.intervals
            /\ p.rejoin \subseteq rejoin'
<1>1. MayRestore(shown) /\ shown' = shown
  BY DEF Commit, MayRestore, Processing
<1>2. CASE p.held # held
  BY <1>1, <1>2 DEF Commit
<1>3. CASE p.held = held
  <2>1. Cleared(p) = {}
    BY <1>3 DEF Cleared
  <2>2. QED
    BY <1>3, <2>1 DEF Commit
<1>4. QED
  BY <1>2, <1>3

\* Every step keeps the job in sight.
LEMMA NextWatches == TypeInv /\ Watched /\ [Next]_vars => Watched'
<1> SUFFICES ASSUME TypeInv, Watched, [Next]_vars PROVE Watched'
  OBVIOUS
<1>t. ShownTyped /\ step \in [Jobs -> Steps] /\ drops \in Nat
  BY DEF TypeInv, OtherTyped
<1>q. ASSUME UNCHANGED <<mounted, rendered, step, drops>> PROVE Watched'
  BY <1>q DEF Watched, Processing, rendered
<1>u. ASSUME NEW new, NEW p, Commit(new, TRUE, p), UNCHANGED mounted PROVE Watched'
  BY <1>u, UpdateWatches
<1>1. CASE ChooseFiles \/ ClickTab \/ Reset
  BY <1>1, <1>u DEF ChooseFiles, ClickTab, Reset, Update, Render
<1>2. ASSUME NEW j \in Jobs, \/ StartMigration(j) \/ UploadAnsweredBadly(j) \/ UploadLost(j)
                             \/ CheckGivesUp(j) \/ JoinFirst(j) \/ QueueAnswered(j)
      PROVE  Watched'
  BY <1>2, <1>u DEF StartMigration, UploadAnsweredBadly, UploadLost, CheckGivesUp, JoinFirst,
    QueueAnswered, Update, Render
<1>3. ASSUME NEW j \in Jobs, RejoinFails(j) PROVE Watched'
  BY <1>3, <1>u DEF RejoinFails, Render
<1>f. ASSUME NEW p, Commit(shown, FALSE, p), UNCHANGED <<mounted, drops>>, NEW j \in Jobs,
             \A i \in Jobs \ {j} : step'[i] = step[i],
             groups \subseteq p.groups, rejoin \ {j} \subseteq p.rejoin,
             p.held = held =>
               /\ \A i \in Jobs : Poller(i) \in intervals => Poller(i) \in p.intervals
               /\ \/ j \in p.groups \/ Poller(j) \in p.intervals
                  \/ j \in rejoin => j \in p.rejoin
               /\ \/ step[j] # "join" \/ j \in p.groups \/ Poller(j) \in p.intervals
      PROVE  Watched'
  <2>1. SUFFICES ASSUME mounted', Processing', shown'.job # None, drops' = 0
                 PROVE  \/ shown'.job \in groups' \cup rejoin'
                        \/ step'[shown'.job] = "join"
                        \/ Poller(shown'.job) \in intervals'
    BY DEF Watched
  <2>2. mounted /\ shown' = shown
    BY <1>f, <2>1 DEF Commit
  <2>3. Processing /\ shown.job # None /\ drops = 0 /\ shown.job \in Jobs
    BY <1>f, <1>t, <2>1, <2>2 DEF Processing, ShownTyped, ShownType
  <2>4. \/ shown.job \in groups \cup rejoin
        \/ step[shown.job] = "join"
        \/ Poller(shown.job) \in intervals
    BY <2>2, <2>3 DEF Watched
  <2>5. CASE shown'.job \in rejoin'
    BY <2>5
  <2>6. CASE /\ p.held = held /\ groups' = p.groups /\ intervals' = p.intervals
             /\ p.rejoin \subseteq rejoin'
    BY <1>f, <2>2, <2>3, <2>4, <2>6
  <2>7. QED
    BY <1>f, <2>2, <2>3, <2>5, <2>6, CommitWatches
<1>4. ASSUME NEW j \in Jobs, Connect(j) PROVE Watched'
  <2>1. /\ UNCHANGED <<mounted, drops>> /\ step[j] = "connect"
        /\ \A i \in Jobs \ {j} : step'[i] = step[i]
    BY <1>4, <1>t DEF Connect, bounds
  <2>2. PICK c : Commit(shown, link = "up", [Now EXCEPT !.current = c])
    BY <1>4 DEF Connect
  <2> DEFINE p == [Now EXCEPT !.current = c]
  <2>3. /\ p.groups = groups /\ p.rejoin = rejoin /\ p.intervals = intervals
        /\ Commit(shown, link = "up", p)
    BY <2>2 DEF Now
  <2> HIDE DEF p
  <2>4. CASE link = "up"
    BY <1>u, <2>1, <2>3, <2>4
  <2>5. CASE link # "up"
    <3>1. Commit(shown, FALSE, p)
      BY <2>3, <2>5
    <3>2. QED
      BY <1>f, <2>1, <2>3, <3>1
  <2>6. QED
    BY <2>4, <2>5
<1>5. ASSUME NEW j \in Jobs, JoinAfter(j) PROVE Watched'
  <2>1. /\ UNCHANGED <<mounted, drops>> /\ \A i \in Jobs \ {j} : step'[i] = step[i]
    BY <1>5, <1>t DEF JoinAfter, bounds
  <2>2. CASE Commit(shown, FALSE, [Now EXCEPT !.groups = @ \cup {j}])
    <3> DEFINE p == [Now EXCEPT !.groups = @ \cup {j}]
    <3>1. /\ p.groups = groups \cup {j} /\ p.rejoin = rejoin /\ p.intervals = intervals
          /\ Commit(shown, FALSE, p)
      BY <2>2 DEF Now
    <3> HIDE DEF p
    <3>2. QED
      BY <1>f, <2>1, <3>1
  <2>3. CASE Commit(shown, FALSE, Started(Now, Poller(j)))
    <3> DEFINE p == Started(Now, Poller(j))
    <3>1. /\ p.groups = groups /\ p.rejoin = rejoin
          /\ p.intervals = intervals \cup {Poller(j)} /\ Commit(shown, FALSE, p)
      BY <2>3 DEF Now, Started
    <3> HIDE DEF p
    <3>2. QED
      BY <1>f, <2>1, <3>1
  <2>4. QED
    BY <1>5, <2>2, <2>3 DEF JoinAfter
<1>6. ASSUME NEW j \in Jobs, Rejoined(j) PROVE Watched'
  <2>1. UNCHANGED <<mounted, drops, step>>
    BY <1>6 DEF Rejoined, bounds, upload
  <2> DEFINE p == [Now EXCEPT !.groups = @ \cup {j}, !.rejoin = @ \ {j}]
  <2>2. /\ p.groups = groups \cup {j} /\ p.rejoin = rejoin \ {j}
        /\ p.intervals = intervals /\ Commit(shown, FALSE, p)
    BY <1>6 DEF Rejoined, Now
  <2> HIDE DEF p
  <2>3. QED
    BY <1>f, <2>1, <2>2
<1>7. ASSUME NEW j \in Jobs, CheckReconnects(j) PROVE Watched'
  <2>1. UNCHANGED <<mounted, drops, step>>
    BY <1>7 DEF CheckReconnects, bounds, upload
  <2> DEFINE p == [Stopped(j) EXCEPT !.groups = @ \cup {j}]
  <2>2. /\ p.groups = groups \cup {j} /\ p.rejoin = rejoin /\ p.held = NoInterval
        /\ p.intervals = intervals \ {Checker(j)} /\ Commit(shown, FALSE, p)
    BY <1>7 DEF CheckReconnects, Stopped, Dropped, Now
  <2>3. \A i \in Jobs : Poller(i) # Checker(j)
    BY DEF Poller, Checker
  <2> HIDE DEF p
  <2>4. QED
    BY <1>f, <2>1, <2>2, <2>3
<1>8. CASE Receive
  <2> DEFINE m == Head(wire)
  <2>1. /\ UNCHANGED <<mounted, drops, step>>
        /\ \/ HandleJobStarted(m) \/ HandleProgressUpdate(m) \/ HandleJobError(m)
           \/ UNCHANGED rendered
    BY <1>8 DEF Receive, HandleJobCompleted, upload
  <2> HIDE DEF m
  <2>2. CASE HandleJobStarted(m) \/ HandleProgressUpdate(m) \/ HandleJobError(m)
    BY <2>1, <2>2, <1>u DEF HandleJobStarted, HandleProgressUpdate, HandleJobError, Update,
      Render
  <2>3. CASE UNCHANGED rendered
    BY <2>1, <2>3, <1>q
  <2>4. QED
    BY <2>1, <2>2, <2>3
<1>9. ASSUME NEW t \in timers, TimerFires(t) PROVE Watched'
  BY <1>9, <1>u DEF TimerFires, Render
<1>10. ASSUME NEW q \in polls, StatusAnswered(q) PROVE Watched'
  BY <1>10, <1>u DEF StatusAnswered, Update, Render
<1>11. ASSUME NEW g \in granted, CancelAnswered(g) PROVE Watched'
  BY <1>11, <1>u DEF CancelAnswered, Render
<1>12. CASE AskCancel \/ ComeUp \/ UNCHANGED vars
  BY <1>12, <1>q DEF AskCancel, ComeUp, vars, bounds, upload
<1>13. ASSUME NEW j \in Jobs, Server(j) \/ AskStatus(j) PROVE Watched'
  BY <1>13, <1>q DEF Server, Accept, Run, End, AskStatus, bounds, upload
<1>14. CASE Drop \/ Restart
  <2>1. drops' # 0
    BY <1>14, <1>t DEF Drop, Restart
  <2>2. QED
    BY <2>1 DEF Watched
<1>15. CASE Leave
  BY <1>15 DEF Leave, Watched
<1>16. CASE Return \/ Reload
  <2>1. \E rej : Restore(shown', rej)
    BY <1>16 DEF Return, Reload
  <2>2. Processing' /\ shown'.job # None => shown'.job \in rejoin'
    BY <2>1 DEF Restore, MayRestore, Processing
  <2>3. QED
    BY <2>2 DEF Watched
<1>17. QED
  BY <1>1, <1>2, <1>3, <1>4, <1>5, <1>6, <1>7, <1>8, <1>9, <1>10, <1>11, <1>12, <1>13,
     <1>14, <1>15, <1>16 DEF Next, Upload, Monitor

(***************************************************************************)
(* A page that shows a migration under way is in its group, joining it or  *)
(* polling it, as long as no connection was lost.                          *)
(***************************************************************************)
THEOREM StaysWatched == Spec => []Watched
<1>1. Init => Watched
  BY DEF Init, Blank, Watched, Processing
<1>2. ComingInv /\ Watched /\ [Next]_vars => Watched'
  BY NextWatches DEF ComingInv
<1>3. QED
  BY <1>1, <1>2, ComingHolds, PTL DEF Spec
=============================================================================
