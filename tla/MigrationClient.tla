--------------------------- MODULE MigrationClient ---------------------------
(***************************************************************************)
(* A browser on the User Provisioning page: it uploads files, joins the    *)
(* progress group of the job, and shows what the hub, the answers of its   *)
(* requests, its timers and its polls say of the migration.  The state     *)
(* shown lives in a context above the page and is saved in the browser, so *)
(* it survives leaving the page and reloading it; promises and timers of   *)
(* the page survive leaving it, and nothing but the saved state survives a *)
(* reload.  Progress figures, texts and file contents are left out.        *)
(***************************************************************************)
EXTENDS Naturals, FiniteSets, Sequences

CONSTANTS MaxUploads,   \* uploads started in a behaviour
          MaxFaults     \* in a behaviour of one upload: connections, answers
                        \* and servers lost, and pages left or reloaded

ASSUME BoundsAssumption == MaxUploads \in Nat /\ MaxFaults \in Nat

Jobs == 1 .. MaxUploads
None == 0

Ended == {"success", "failure"}

VARIABLES
  \* the server and the wire
  job,        \* how far the server is with each upload
  accepted,   \* jobs whose cancellation the server accepted
  link,       \* is the hub connection up
  groups,     \* progress groups this connection is in
  wire,       \* hub messages on their way, in order
  \* MigrationContext and migrationStorage
  shown,      \* migrationState
  stored,     \* its copy in localStorage
  \* the page
  mounted, files, current,
  step,       \* where the upload procedure of each job is
  kind,       \* through which endpoint it goes
  sub,        \* job and interval as the subscription effect captured them
  rejoin,     \* attempts of the restore effect under way
  timers,     \* completion verdicts waiting for their timer
  intervals,  \* intervals ticking
  held,       \* the one in statusCheckInterval
  polls,      \* answers of status polls on their way
  granted,    \* granted cancellations whose answer is on its way: the interval
              \* that each will clear
  \* bounds and history
  drops, leaves,
  trouble,    \* a verdict or an answer went by unseen
  overlap     \* something of an earlier upload was still under way when the
              \* last one was started

server == <<job, accepted>>
rendered == <<shown, stored, groups, current, sub, rejoin, intervals, held>>
upload == <<step, kind>>
clocks == <<timers, polls>>
bounds == <<drops, leaves, trouble, overlap>>
vars == <<server, link, wire, rendered, mounted, files, upload, clocks,
          granted, bounds>>

-----------------------------------------------------------------------------
\* The context and its storage.

\* The status, the job id, and what the results say.
Blank == [status |-> "idle", job |-> None, verdict |-> "none"]

NoInterval == [what |-> "none", job |-> None]
Poller(j)  == [what |-> "poll", job |-> j]
Checker(j) == [what |-> "check", job |-> j]

Uncaptured == [job |-> None, interval |-> NoInterval]

\* The page's own state, for a caller to say what it sets of it.
Now == [groups |-> groups, current |-> current, held |-> held,
        intervals |-> intervals, rejoin |-> rejoin]

\* Mutant: the old interval is not cleared when another is held.
ClearedNothing(p) == {}

\* The cleanup of the interval effect clears the old interval and sets the
\* held one to none, which clears a new one too.
Cleared(p) == IF held # NoInterval /\ p.held # held THEN {held, p.held} ELSE {}

\* Mutant: only a job already followed is restored.
MayRestoreFollowed(new) == new.status = "processing" /\ new.job = current

MayRestore(new) == new.status = "processing" /\ new.job # None

\* A render.  The context's update function is new at each update, and with
\* it the handlers: the subscription effect then leaves the group and clears
\* the interval it captured, and captures the present ones.  The restore
\* effect, which runs also when the held interval changed, joins the group
\* of a processing job again.
Commit(new, updated, p) ==
  /\ shown' = new
  /\ stored' = new
  /\ IF mounted
     THEN LET restore == MayRestore(new) /\ (updated \/ p.held # held)
          IN /\ groups' = p.groups \ (IF updated THEN {sub.job} ELSE {})
             /\ intervals' = p.intervals \
                  (Cleared(p) \cup IF updated THEN {sub.interval} ELSE {})
             /\ held' = IF Cleared(p) = {} THEN p.held ELSE NoInterval
             /\ sub' = IF updated
                       THEN [job |-> p.current, interval |-> p.held] ELSE sub
             /\ current' = IF restore THEN new.job ELSE p.current
             /\ rejoin' = p.rejoin \cup IF restore THEN {new.job} ELSE {}
     ELSE /\ groups' = p.groups /\ intervals' = p.intervals
          /\ rejoin' = p.rejoin
          /\ UNCHANGED <<held, sub, current>>

Render(new, p) == Commit(new, TRUE, p)
Update(new) == Render(new, Now)

\* A verdict ends the following of the current job.
Over == [Now EXCEPT !.current = None]
Dropped(p) == [p EXCEPT !.intervals = @ \ {held}, !.held = NoInterval]
Started(p, i) == [p EXCEPT !.intervals = @ \cup {i}, !.held = i]

\* A verdict is written on the migration that is shown, whichever it is by
\* then: no handler compares the job it hears of with the one it shows.
Showing(status, verdict) ==
  [shown EXCEPT !.status = status, !.verdict = verdict]

\* The bound: a behaviour has faults or several uploads.
Alone == \A j \in Jobs : j > 1 => step[j] = "none"
MayFail == Alone /\ drops + leaves < MaxFaults

Processing == shown.status = "processing"
Finished == shown.status \in {"completed", "error"}

-----------------------------------------------------------------------------
Init ==
  /\ job = [j \in Jobs |-> "unused"]
  /\ accepted = {} /\ groups = {} /\ wire = <<>>
  /\ drops \in {0, 1} \cap (0 .. MaxFaults)
  /\ link = IF drops = 0 THEN "up" ELSE "down"
  /\ shown = Blank /\ stored = Blank
  /\ mounted = TRUE /\ files = 0 /\ current = None
  /\ step = [j \in Jobs |-> "none"]
  /\ kind = [j \in Jobs |-> "none"]
  /\ sub = Uncaptured /\ rejoin = {}
  /\ timers = {} /\ intervals = {} /\ held = NoInterval /\ polls = {}
  /\ granted = {}
  /\ leaves = 0 /\ trouble = FALSE /\ overlap = FALSE

-----------------------------------------------------------------------------
\* The user.

\* processFiles, seen from the upload: FileSelection has the details.
ChooseFiles ==
  /\ mounted /\ shown.status = "idle" /\ files = 0
  /\ \E j \in Jobs : step[j] = "none"
  /\ files' \in 1 .. 2
  /\ Update(shown)
  /\ UNCHANGED <<server, link, wire, mounted, upload, clocks, granted, bounds>>

\* Nothing of an earlier upload can reach the page any more.
Quiet ==
  /\ wire = <<>> /\ timers = {} /\ granted = {}
  /\ \A j \in Jobs : \/ step[j] = "none"
                     \/ step[j] = "over" /\ job[j] \in Ended \cup {"refused"}

\* processBulkMigration up to its first await.
StartMigration(j) ==
  /\ mounted /\ shown.status = "idle" /\ files > 0
  /\ step[j] = "none" /\ \A i \in Jobs : i < j => step[i] # "none"
  /\ j > 1 => drops + leaves = 0
  /\ Update(Showing("processing", "none"))
  /\ step' = [step EXCEPT ![j] = "connect"]
  /\ kind' = [kind EXCEPT ![j] = IF files > 1 THEN "queue" ELSE "single"]
  /\ overlap' = ~Quiet
  /\ UNCHANGED <<server, link, wire, mounted, files, clocks, granted, drops,
                 leaves, trouble>>

\* resetMigration, behind "Start New Migration" and "Remove All".
Reset ==
  /\ mounted /\ (Finished \/ (shown.status = "idle" /\ files > 0))
  /\ Render(Blank, Dropped(Over))
  /\ files' = 0
  /\ UNCHANGED <<server, link, wire, mounted, upload, clocks, granted, bounds>>

\* cancelMigration asks the queue endpoint when several files are selected;
\* otherwise it asks an address no controller serves, fails on the answer
\* and changes nothing.
AskCancel ==
  /\ mounted /\ Processing /\ current # None /\ files > 1
  /\ job[current] = "running"
  /\ accepted' = accepted \cup {current}
  /\ granted' = granted \cup {held}
  /\ UNCHANGED <<job, link, wire, rendered, mounted, files, upload, clocks,
                 bounds>>

\* The answer is written on the migration shown when it comes, and clears
\* the interval that was held when the user asked.
CancelAnswered(interval) ==
  /\ granted' = granted \ {interval}
  /\ Render(Showing("error", "cancel"),
            IF interval = NoInterval THEN Over
            ELSE [Dropped(Over) EXCEPT !.intervals = intervals \ {interval}])
  /\ UNCHANGED <<server, link, wire, mounted, files, upload, clocks, bounds>>

\* To or from the bulk tab: the context notes it and renders.
ClickTab ==
  /\ mounted
  /\ Update(shown)
  /\ UNCHANGED <<server, link, wire, mounted, files, upload, clocks, granted,
                 bounds>>

-----------------------------------------------------------------------------
\* The upload procedure.

\* The procedure tolerates a connection that does not come.
Connect(j) ==
  /\ step[j] = "connect"
  /\ LET cur == IF kind[j] = "single" /\ mounted THEN j ELSE current
     IN Commit(shown, link = "up", [Now EXCEPT !.current = cur])
  /\ step' = [step EXCEPT ![j] = IF kind[j] = "single" THEN "join"
                                                       ELSE "post"]
  /\ UNCHANGED <<server, link, wire, mounted, files, kind, clocks, granted,
                 bounds>>

\* A single file has its group joined before it is sent.
JoinFirst(j) ==
  /\ step[j] = "join" /\ kind[j] = "single"
  /\ \/ /\ link = "up"
        /\ Render([shown EXCEPT !.job = j],
                  [Now EXCEPT !.groups = @ \cup {j}])
     \/ link = "down" /\ Update(shown)
  /\ step' = [step EXCEPT ![j] = "post"]
  /\ UNCHANGED <<server, link, wire, mounted, files, kind, clocks, granted,
                 bounds>>

\* The answer of the queue endpoint names the job.
QueueAnswered(j) ==
  /\ step[j] = "post" /\ kind[j] = "queue"
  /\ job[j] \notin {"unused", "refused"}
  /\ Render([shown EXCEPT !.job = j], [Now EXCEPT !.current = j])
  /\ step' = [step EXCEPT ![j] = "join"]
  /\ UNCHANGED <<server, link, wire, mounted, files, kind, clocks, granted,
                 bounds>>

\* The group of a queue is joined after the answer; failing that, polled.
JoinAfter(j) ==
  /\ step[j] = "join" /\ kind[j] = "queue"
  /\ step' = [step EXCEPT ![j] = "over"]
  /\ Commit(shown, FALSE, IF link = "up"
                          THEN [Now EXCEPT !.groups = @ \cup {j}]
                          ELSE Started(Now, Poller(j)))
  /\ UNCHANGED <<server, link, wire, mounted, files, kind, clocks, granted,
                 bounds>>

\* A refused upload, or any answer at all to a single upload, which comes
\* when the work is done, is shown as an error.
UploadAnsweredBadly(j) ==
  /\ step[j] = "post"
  /\ job[j] = "refused" \/ (kind[j] = "single" /\ job[j] \in Ended)
  /\ Update(Showing("error", "failure"))
  /\ step' = [step EXCEPT ![j] = "over"]
  /\ UNCHANGED <<server, link, wire, mounted, files, kind, clocks, granted,
                 bounds>>

\* The request or its answer is lost.  A "Load failed" keeps the status; the
\* job id the procedure captured is null, so nothing is checked.
UploadLost(j) ==
  /\ step[j] = "post" /\ MayFail
  /\ drops' = drops + 1 /\ trouble' = TRUE
  /\ step' = [step EXCEPT ![j] = "over"]
  /\ \/ Update([shown EXCEPT !.status = "processing"])
     \/ Update(Showing("error", "failure"))
  /\ UNCHANGED <<server, link, wire, mounted, files, kind, clocks, granted,
                 leaves, overlap>>

-----------------------------------------------------------------------------
\* The server: what a job does to this browser.

Tells(m) == m.what \in {"completed", "error"}

Message(what, j, ok) == [what |-> what, job |-> j, ok |-> ok]

\* A group message reaches the connections in the group; a verdict that
\* does not is gone.
Announce(j, messages, verdict) ==
  IF link = "up" /\ j \in groups
  THEN wire' = wire \o messages /\ UNCHANGED trouble
  ELSE UNCHANGED wire /\ trouble' = (trouble \/ verdict)

Accept(j) ==
  /\ step[j] = "post" /\ job[j] = "unused"
  /\ job' \in {[job EXCEPT ![j] = "accepted"], [job EXCEPT ![j] = "refused"]}
  /\ UNCHANGED <<accepted, link, wire, rendered, mounted, files, upload,
                 clocks, granted, bounds>>

\* A queue announces its start, a single upload its progress.
Run(j) ==
  /\ job[j] = "accepted"
  /\ job' = [job EXCEPT ![j] = "running"]
  /\ Announce(j, <<Message(IF kind[j] = "queue" THEN "started"
                                                ELSE "progress", j, TRUE)>>,
              FALSE)
  /\ UNCHANGED <<accepted, link, rendered, mounted, files, upload, clocks,
                 granted, drops, leaves, overlap>>

\* Work that failed, was cancelled or crashed is told as a completion
\* without success, as an error (a queue), or as one after the other.
Verdicts(j, outcome) ==
  LET completed == Message("completed", j, outcome = "success")
      error == Message("error", j, FALSE)
  IN {<<completed>>} \cup
     IF outcome = "success" THEN {}
     ELSE IF kind[j] = "queue" THEN {<<error>>} ELSE {<<error, completed>>}

End(j) ==
  /\ job[j] = "running"
  /\ \E outcome \in Ended :
       /\ job' = [job EXCEPT ![j] = outcome]
       /\ \E messages \in Verdicts(j, outcome) : Announce(j, messages, TRUE)
  /\ UNCHANGED <<accepted, link, rendered, mounted, files, upload, clocks,
                 granted, drops, leaves, overlap>>

\* The server restarts: its unfinished jobs are gone.
Restart ==
  /\ MayFail
  /\ \E j \in Jobs : job[j] \in {"accepted", "running"}
  /\ job' = [j \in Jobs |-> IF job[j] \in {"accepted", "running"}
                              THEN "gone" ELSE job[j]]
  /\ link' = "down" /\ groups' = {} /\ wire' = <<>>
  /\ drops' = drops + 1 /\ trouble' = TRUE
  /\ UNCHANGED <<accepted, shown, stored, current, sub, rejoin, intervals,
                 held, mounted, files, upload, clocks, granted, leaves,
                 overlap>>

-----------------------------------------------------------------------------
\* The hub connection.

\* The automatic reconnection, and the page's ensureConnection.  Neither
\* joins a group again.
ComeUp ==
  /\ link = "down"
  /\ link' = "up"
  /\ UNCHANGED <<server, wire, rendered, mounted, files, upload, clocks,
                 granted, bounds>>

Drop ==
  /\ link = "up" /\ MayFail
  /\ link' = "down" /\ groups' = {} /\ wire' = <<>>
  /\ drops' = drops + 1
  /\ trouble' = (trouble \/ \E i \in DOMAIN wire : Tells(wire[i]))
  /\ UNCHANGED <<server, shown, stored, current, sub, rejoin, intervals, held,
                 mounted, files, upload, clocks, granted, leaves, overlap>>

\* Messages are handled in order; with the page gone nothing handles them.
HandleJobStarted(m) ==
  /\ m.what = "started"
  /\ Render([shown EXCEPT !.status = "processing", !.job = m.job],
            [Now EXCEPT !.current = m.job])
  /\ UNCHANGED timers

HandleProgressUpdate(m) ==
  /\ m.what = "progress"
  /\ Update(shown)
  /\ UNCHANGED timers

\* Mutant: a completion is taken for a success.
HandleJobCompletedBlind(m) ==
  /\ m.what = "completed"
  /\ timers' = timers \cup {[job |-> m.job, ok |-> TRUE]}
  /\ UNCHANGED rendered

\* The verdict is shown by a timer, whatever happens until then.
HandleJobCompleted(m) ==
  /\ m.what = "completed"
  /\ timers' = timers \cup {[job |-> m.job, ok |-> m.ok]}
  /\ UNCHANGED rendered

\* The texts it passes over, "Load failed", are of a browser: no error that
\* the server announces has that text alone.
HandleJobError(m) ==
  /\ m.what = "error"
  /\ Render(Showing("error", "failure"), Over)
  /\ UNCHANGED timers

Receive ==
  /\ wire # <<>>
  /\ wire' = Tail(wire)
  /\ \/ /\ mounted
        /\ \/ HandleJobStarted(Head(wire))
           \/ HandleProgressUpdate(Head(wire))
           \/ HandleJobCompleted(Head(wire))
           \/ HandleJobError(Head(wire))
        /\ UNCHANGED trouble
     \/ /\ ~mounted
        /\ trouble' = (trouble \/ Tells(Head(wire)))
        /\ UNCHANGED <<rendered, timers>>
  /\ UNCHANGED <<server, link, mounted, files, upload, polls, granted, drops,
                 leaves, overlap>>

\* Mutant: the timer is dead once the page is left.
TimerFiresMounted(t) ==
  /\ timers' = timers \ {t}
  /\ IF mounted
     THEN Render(IF t.ok THEN Showing("completed", "success")
                         ELSE Showing("error", "failure"), Over)
     ELSE UNCHANGED rendered
  /\ UNCHANGED <<server, link, wire, mounted, files, upload, polls, granted,
                 bounds>>

TimerFires(t) ==
  /\ timers' = timers \ {t}
  /\ Render(IF t.ok THEN Showing("completed", "success")
                    ELSE Showing("error", "failure"),
            Over)
  /\ UNCHANGED <<server, link, wire, mounted, files, upload, polls, granted,
                 bounds>>

-----------------------------------------------------------------------------
\* The attempts of the restore effect.
Rejoined(j) ==
  /\ j \in rejoin /\ link = "up"
  /\ Commit(shown, FALSE, [Now EXCEPT !.groups = @ \cup {j},
                                     !.rejoin = @ \ {j}])
  /\ UNCHANGED <<server, link, wire, mounted, files, upload, clocks, granted,
                 bounds>>

\* The attempt fails, or takes longer than its timeout: monitoring mode.
RejoinFails(j) ==
  /\ j \in rejoin /\ link = "down"
  /\ \E rej \in {rejoin, rejoin \ {j}} :
       Render([shown EXCEPT !.status = "processing"],
              Started([Now EXCEPT !.rejoin = rej], Checker(j)))
  /\ trouble' = TRUE
  /\ UNCHANGED <<server, link, wire, mounted, files, upload, clocks, granted,
                 drops, leaves, overlap>>

\* The interval of startPeriodicStatusCheck: a tick that connects joins and
\* is the last; a tick that does not may be the last one it is allowed.
Stopped(j) == [Dropped(Now) EXCEPT !.intervals = intervals \ {Checker(j)}]

CheckReconnects(j) ==
  /\ Checker(j) \in intervals /\ link = "up"
  /\ Commit(shown, FALSE, [Stopped(j) EXCEPT !.groups = @ \cup {j}])
  /\ UNCHANGED <<server, link, wire, mounted, files, upload, clocks, granted,
                 bounds>>

CheckGivesUp(j) ==
  /\ Checker(j) \in intervals /\ link = "down"
  /\ \/ Render(Showing("completed", "assumed"), Stopped(j))
     \/ Render(Showing("error", "failure"), Stopped(j))
  /\ UNCHANGED <<server, link, wire, mounted, files, upload, clocks, granted,
                 bounds>>

-----------------------------------------------------------------------------
\* The polls of startQueueStatusPolling.

\* An answer never names an end: each request has a queue service of its own
\* (it is registered as scoped), whose table of queues is empty, and so every
\* job is told as not found, with success.  The poll goes on.
AskStatus(j) ==
  /\ Poller(j) \in intervals /\ polls = {}
  /\ polls' = {j}
  /\ UNCHANGED <<server, link, wire, rendered, mounted, files, upload, timers,
                 granted, bounds>>

\* An answer on its way is used even if the interval is cleared meanwhile.
\* Its progress is an update of the context.
StatusAnswered(j) ==
  /\ polls' = polls \ {j}
  /\ Update(shown)
  /\ UNCHANGED <<server, link, wire, mounted, files, upload, timers, granted,
                 bounds>>

-----------------------------------------------------------------------------
\* Leaving the page clears its interval and its subscription; its promises
\* and timers go on.
Leave ==
  /\ mounted /\ MayFail
  /\ mounted' = FALSE /\ files' = 0 /\ current' = None
  /\ groups' = groups \ {sub.job}
  /\ intervals' = intervals \ {sub.interval, held}
  /\ sub' = Uncaptured /\ held' = NoInterval
  /\ leaves' = leaves + 1
  /\ UNCHANGED <<server, link, wire, shown, stored, rejoin, upload, clocks,
                 granted, drops, trouble, overlap>>

\* What the restore effect does on a page that has just been mounted; it
\* opens the bulk tab, and that renders again.
Restore(new, rej) ==
  IF MayRestore(new)
  THEN /\ current' = new.job /\ rejoin' = rej \cup {new.job}
       /\ sub' = [Uncaptured EXCEPT !.job = new.job]
  ELSE current' = None /\ rejoin' = rej /\ sub' = Uncaptured

Return ==
  /\ ~mounted
  /\ mounted' = TRUE
  /\ Restore(shown, rejoin)
  /\ UNCHANGED <<server, link, wire, shown, stored, groups, intervals, held,
                 files, upload, clocks, granted, bounds>>

\* A reload keeps what was saved, unless it is more than an hour old.
Reload ==
  /\ MayFail
  /\ leaves' = leaves + 1
  /\ \E kept \in {stored, Blank} :
       /\ shown' = kept /\ stored' = kept
       /\ Restore(kept, {})
  /\ link' \in {"up", "down"} /\ groups' = {} /\ wire' = <<>>
  /\ mounted' = TRUE /\ files' = 0
  /\ step' = [j \in Jobs |-> IF step[j] = "none" THEN "none" ELSE "over"]
  /\ timers' = {} /\ intervals' = {} /\ held' = NoInterval /\ polls' = {}
  /\ granted' = {}
  /\ trouble' = (trouble \/ Processing)
  /\ UNCHANGED <<server, kind, drops, overlap>>

-----------------------------------------------------------------------------
Upload(j) == Connect(j) \/ JoinFirst(j) \/ QueueAnswered(j) \/ JoinAfter(j)
               \/ UploadAnsweredBadly(j)
Server(j) == Accept(j) \/ Run(j) \/ End(j)
Monitor(j) == CheckReconnects(j) \/ CheckGivesUp(j)

Next ==
  \/ ChooseFiles \/ Reset \/ AskCancel \/ ClickTab
  \/ \E j \in Jobs : \/ StartMigration(j) \/ Upload(j) \/ UploadLost(j)
                     \/ Server(j)
                     \/ Rejoined(j) \/ RejoinFails(j) \/ Monitor(j)
                     \/ AskStatus(j)
  \/ Receive \/ ComeUp \/ Drop \/ Restart
  \/ \E t \in timers : TimerFires(t)
  \/ \E j \in polls : StatusAnswered(j)
  \/ \E i \in granted : CancelAnswered(i)
  \/ Leave \/ Return \/ Reload

\* What the browser, the network and the server do by themselves; users,
\* losses and restarts come or not.
Fairness ==
  /\ WF_vars(Receive) /\ WF_vars(ComeUp)
  /\ WF_vars(\E t \in timers : TimerFires(t))
  /\ WF_vars(\E j \in polls : StatusAnswered(j))
  /\ WF_vars(\E i \in granted : CancelAnswered(i))
  /\ \A j \in Jobs : /\ WF_vars(Upload(j)) /\ WF_vars(Server(j))
                     /\ WF_vars(Rejoined(j) \/ RejoinFails(j))
                     /\ WF_vars(Monitor(j)) /\ WF_vars(AskStatus(j))

Spec == Init /\ [][Next]_vars /\ Fairness

-----------------------------------------------------------------------------
(* Properties.                                                             *)

\* The upload started last is the one whose migration is shown.
Latest(j) == /\ step[j] # "none"
             /\ \A i \in Jobs : i > j => step[i] = "none"

\* No order of messages, timers, answers, resets, leaves and restarts makes
\* the page say of the last upload what is not so: that it succeeded or was
\* cancelled when it did not or was not; that its queue failed when it did
\* not, unless a verdict or an answer was lost; or, without such a loss, what
\* its monitor assumes (startPeriodicStatusCheck).  All this only if nothing
\* of an earlier upload was under way when it was started: otherwise the late
\* verdict or cancellation of the earlier one is written on it.
VerdictIsTrue ==
  \A j \in Jobs :
    Latest(j) /\ ~overlap =>
      /\ shown.verdict = "success" => job[j] = "success"
      /\ shown.verdict = "cancel" => j \in accepted
      /\ shown.verdict = "failure" =>
           kind[j] = "single" \/ job[j] \in {"failure", "refused"} \/ trouble
      /\ shown.verdict = "assumed" => trouble

\* While no connection was lost, a page that shows a migration under way is
\* in its progress group, about to join it, or polling it, although every
\* update of the context leaves the group again.
Watched ==
  (mounted /\ Processing /\ shown.job # None /\ drops = 0) =>
    \/ shown.job \in groups \cup rejoin
    \/ step[shown.job] = "join"
    \/ Poller(shown.job) \in intervals

\* A page that was never left has one status interval at most, however
\* often monitoring is started again; after leaving they add up, since what
\* runs on makes intervals nobody holds.
OneMonitor == leaves = 0 => Cardinality(intervals) <= 1

\* A migration shown as under way ends, unless a verdict or an answer went
\* by unseen (the page has no other way to learn of it).
ProcessingEnds == Processing ~> (~Processing \/ trouble)
=============================================================================
