----------------------------- MODULE RateLimiter -----------------------------
(***************************************************************************)
(* RateLimitingMiddleware: a client may send at most MaxAttempts requests  *)
(* to the password endpoints in a window of time.                          *)
(*                                                                         *)
(* The attempts of each client are an immutable list in a static           *)
(* ConcurrentDictionary.  A request reads the list, puts the recent part   *)
(* of it back, and if that part is below the limit adds itself; requests   *)
(* of one client run at the same time, so other requests come in between.  *)
(***************************************************************************)
EXTENDS Naturals, FiniteSets

CONSTANTS Requests,   \* requests to a limited endpoint, each sent once
          Clients,    \* what GetClientIdentifier tells apart
          ClientOf,   \* the client that sends a request
          MaxAttempts, Window, \* RateLimit:MaxAttempts, RateLimit:WindowMinutes
          MaxTime     \* how long the clock runs

ASSUME RateLimiterAssumption ==
  /\ IsFiniteSet(Requests)
  /\ ClientOf \in [Requests -> Clients]
  /\ MaxAttempts \in Nat \ {0}
  /\ Window \in Nat \ {0}
  /\ MaxTime \in Nat

VARIABLES now,       \* minutes
          attempts,  \* client -> the recorded attempts, each standing for its time
          step,      \* where each request is
          looked,    \* when it read the list
          recent,    \* the recent part of what it read
          found,     \* whether there was a list
          ended   \* when it added itself

vars == <<now, attempts, step, looked, recent, found, ended>>

Step == {"new", "checking", "allowed", "passed", "refused"}

Init ==
  /\ now = 0
  /\ attempts = [c \in Clients |-> {}]
  /\ step = [r \in Requests |-> "new"]
  /\ looked = [r \in Requests |-> 0]
  /\ recent = [r \in Requests |-> {}]
  /\ found = [r \in Requests |-> FALSE]
  /\ ended = [r \in Requests |-> 0]

\* Mutant: the address of the proxy in front of all clients.
ListOfProxy(r) == CHOOSE c \in Clients : TRUE

\* GetClientIdentifier
ListOf(r) == ClientOf[r]

\* Mutant: nothing is too old.
RecentAll(S) == S

\* The attempts of S after the cutoff.
Recent(S) == {q \in S : ended[q] + Window > now}

\* IsRateLimited reads the list of the client, if there is one, and filters it.
Look(r) ==
  /\ step[r] = "new"
  /\ step' = [step EXCEPT ![r] = "checking"]
  /\ looked' = [looked EXCEPT ![r] = now]
  /\ recent' = [recent EXCEPT ![r] = Recent(attempts[ListOf(r)])]
  /\ found' = [found EXCEPT ![r] = \E q \in Requests : ListOf(q) = ListOf(r) /\ step[q] = "passed"]
  /\ UNCHANGED <<now, attempts, ended>>

\* Mutant: one too many.
LimitedAbove(r) == Cardinality(recent[r]) > MaxAttempts

Limited(r) == Cardinality(recent[r]) >= MaxAttempts

\* ... puts the recent part back, whatever is there by now, and decides.
Check(r) ==
  /\ step[r] = "checking"
  /\ attempts' = IF found[r] THEN [attempts EXCEPT ![ListOf(r)] = recent[r]] ELSE attempts
  /\ step' = [step EXCEPT ![r] = IF Limited(r) THEN "refused" ELSE "allowed"]
  /\ ended' = [ended EXCEPT ![r] = IF Limited(r) THEN now ELSE @]
  /\ UNCHANGED <<now, looked, recent, found>>

\* RecordAttempt adds the request to the list as it is then, and lets it through.
Record(r) ==
  LET c == ListOf(r) IN
  /\ step[r] = "allowed"
  /\ ended' = [ended EXCEPT ![r] = now]
  /\ attempts' = [attempts EXCEPT ![c] = Recent(@) \cup {r}]
  /\ step' = [step EXCEPT ![r] = "passed"]
  /\ UNCHANGED <<now, looked, recent, found>>

Tick ==
  /\ now < MaxTime
  /\ now' = now + 1
  /\ UNCHANGED <<attempts, step, looked, recent, found, ended>>

Next == Tick \/ \E r \in Requests : Look(r) \/ Check(r) \/ Record(r)

\* A request that has begun is carried on; none has to be sent.
Spec == Init /\ [][Next]_vars /\ \A r \in Requests : WF_vars(Check(r) \/ Record(r))
-----------------------------------------------------------------------------
(* Properties.                                                             *)

\* Every variable stays in its type, and a list holds requests of its client only.
TypeOK ==
  /\ now \in 0 .. MaxTime
  /\ attempts \in [Clients -> SUBSET Requests]
  /\ step \in [Requests -> Step]
  /\ looked \in [Requests -> 0 .. MaxTime]
  /\ recent \in [Requests -> SUBSET Requests]
  /\ found \in [Requests -> BOOLEAN]
  /\ ended \in [Requests -> 0 .. MaxTime]
  /\ \A c \in Clients : \A q \in attempts[c] : ClientOf[q] = c

Passed(c) == {q \in Requests : ClientOf[q] = c /\ step[q] = "passed"}

(***************************************************************************)
(* Nobody is refused without cause: however the requests interleave, when  *)
(* a refused request came, MaxAttempts requests of its client had passed   *)
(* within the window before it.                                            *)
(***************************************************************************)
RefusedOnlyOverLimit ==
  \A r \in Requests : step[r] = "refused" =>
    MaxAttempts <= Cardinality({q \in Passed(ClientOf[r]) :
                     ended[q] <= looked[r] /\ ended[q] + Window > looked[r]})

(***************************************************************************)
(* A client whose requests come one after another, each answered in a      *)
(* minute before the next one is sent, never gets more than MaxAttempts of *)
(* them through in a window.                                               *)
(***************************************************************************)
Before(q, r) == step[q] \in {"passed", "refused"} /\ ended[q] < looked[r]
OneAtATime(c) ==
  \A q, r \in Requests :
    q # r /\ ClientOf[q] = c /\ ClientOf[r] = c /\ step[q] # "new" /\ step[r] # "new" =>
      Before(q, r) \/ Before(r, q)
LimitHoldsOneAtATime ==
  \A c \in Clients : OneAtATime(c) => \A t \in 0 .. MaxTime :
    Cardinality({q \in Passed(c) : ended[q] <= t /\ ended[q] + Window > t}) <= MaxAttempts

-----------------------------------------------------------------------------
(* A comment of the source, checked by a run of its own.                   *)

(***************************************************************************)
(* IsRateLimited says that it updates the attempts list "to remove old     *)
(* entries": what leaves a list is out of the window.                      *)
(***************************************************************************)
OnlyOldEntriesRemoved ==
  [][\A c \in Clients : \A q \in attempts[c] \ attempts'[c] : ended[q] + Window <= now]_vars
=============================================================================
