---------------------------- MODULE SessionProofs ----------------------------
(***************************************************************************)
(* For any users, roles and number of requests in flight: a sign-out is    *)
(* final, and a session that has settled is one.                           *)
(***************************************************************************)
EXTENDS Session, TLAPS

\* Every action gives the token up, leaves it, takes it from storage or from
\* a sign-in that is answered.
THEOREM SignOutIsFinal == Spec => []LogoutIsFinal
<1>1. Init => LogoutIsFinal
  BY DEF Init, LogoutIsFinal
<1>2. LogoutIsFinal /\ [Next]_sessionVars => LogoutIsFinal'
  <2> SUFFICES ASSUME LogoutIsFinal, [Next]_sessionVars
               PROVE  LogoutIsFinal'
    OBVIOUS
  <2> USE DEF LogoutIsFinal, auth, clearAuthState, FetchUserProfile, Requests
  <2>1. CASE Reload
    BY <2>1 DEF Reload
  <2>2. CASE StartupAnswered
    BY <2>2 DEF StartupAnswered
  <2>3. CASE SubmitInvalid \/ ToggleRecovery \/ SendRecovery
               \/ RecoveryAnswered \/ RecoveryFails \/ RecoveryTimer
    BY <2>3 DEF SubmitInvalid, ToggleRecovery, SendRecovery,
                RecoveryAnswered, RecoveryFails, RecoveryTimer, OnlyForm
  <2>4. CASE SubmitLogout
    BY <2>4 DEF SubmitLogout
  <2>5. CASE LogoutAnswered
    BY <2>5 DEF LogoutAnswered
  <2>6. ASSUME NEW f \in Fields, NEW ok \in BOOLEAN, TypeValue(f, ok)
        PROVE  LogoutIsFinal'
    BY <2>6 DEF TypeValue
  <2>7. ASSUME NEW s \in Slots, NEW who \in Users, SubmitLogin(s, who)
        PROVE  LogoutIsFinal'
    BY <2>7 DEF SubmitLogin
  <2>8. ASSUME NEW s \in Slots, LoginAnswered(s)
        PROVE  LogoutIsFinal'
    BY <2>8 DEF LoginAnswered
  <2>9. ASSUME NEW s \in Slots, LoginRefused(s)
        PROVE  LogoutIsFinal'
    BY <2>9 DEF LoginRefused
  <2>10. ASSUME NEW s \in Slots, LoginProfileAnswered(s)
         PROVE  LogoutIsFinal'
    BY <2>10 DEF LoginProfileAnswered
  <2>11. ASSUME NEW p \in Visited, Visit(p)
         PROVE  LogoutIsFinal'
    BY <2>11 DEF Visit
  <2>12. CASE UNCHANGED sessionVars
    BY <2>12 DEF sessionVars
  <2>13. QED
    BY <2>1, <2>2, <2>3, <2>4, <2>5, <2>6, <2>7, <2>8, <2>9, <2>10, <2>11,
       <2>12 DEF Next
<1>3. QED
  BY <1>1, <1>2, PTL DEF Spec

-----------------------------------------------------------------------------
\* What settles a session.

\* The sign-ins in flight have a user and a stage.
LoginsTyped ==
  /\ {token, user, stored} \subseteq Users \cup {none}
  /\ startup \in Users \cup {none}
  /\ logins \in [Slots -> [stage : {"idle", "asked", "profile"},
                           who : Users \cup {none}, form : BOOLEAN]]
  /\ \A s \in Slots : IF logins[s].stage = "idle" THEN logins[s] = Idle
                      ELSE logins[s].who # none
  /\ logouts \in Nat

\* Memory and storage change together.
SameToken == token = stored

\* A token without a user has a profile under way.
Owned ==
  token # none /\ user = none =>
    startup # none \/ \E s \in Slots : logins[s].stage = "profile"

\* The login page is left as soon as somebody is signed in.
LoginPage == path = "/login" => ~isAuthenticated(token, user)

NoLogins == \A s \in Slots : logins[s].stage = "idle"

\* With one thing in flight at a time, nobody is signed in while a profile or
\* a sign-in is under way, and the token is its user's.
Alone ==
  ~overlapped =>
    /\ startup # none => NoLogins /\ logouts = 0 /\ token = startup
                           /\ user = none
    /\ \A s \in Slots : logins[s].stage # "idle" =>
         /\ startup = none /\ logouts = 0 /\ user = none
         /\ \A r \in Slots \ {s} : logins[r].stage = "idle"
         /\ logins[s].stage = "asked" => token = none
         /\ logins[s].stage = "profile" => token = logins[s].who
    /\ startup = none /\ NoLogins => user = token

Settling == LoginsTyped /\ SameToken /\ Owned /\ LoginPage /\ Alone

\* Landing: whoever ends on the login page is not signed in.
LEMMA LoginIsForStrangers ==
  ASSUME NEW p, NEW t, NEW u, NEW w, Landing(p, t, u, w) = "/login"
  PROVE  ~isAuthenticated(t, u)
BY DEF Landing, PublicPages

\* The whole session, as far as Settling reads it.
settled == <<token, user, stored, startup, logins, logouts, overlapped, path>>

LEMMA SettlingStutters ==
  ASSUME Settling, UNCHANGED settled
  PROVE  Settling'
BY DEF Settling, settled, LoginsTyped, SameToken, Owned, LoginPage, Alone,
       NoLogins, isAuthenticated

\* Leaving a page drops what its sign-ins write to the form, nothing else.
LEMMA LeavingKeeps ==
  ASSUME NEW l \in [Slots -> [stage : {"idle", "asked", "profile"},
                              who : Users \cup {none}, form : BOOLEAN]],
         \A s \in Slots : l[s].stage = "idle" => l[s] = Idle
  PROVE  /\ Leaving(l) \in [Slots -> [stage : {"idle", "asked", "profile"},
                                      who : Users \cup {none}, form : BOOLEAN]]
         /\ \A s \in Slots : /\ Leaving(l)[s].stage = l[s].stage
                             /\ Leaving(l)[s].who = l[s].who
                             /\ l[s].stage = "idle" => Leaving(l)[s] = Idle
<1>1. CASE path' = "/login" /\ path = "/login"
  BY <1>1 DEF Leaving
<1>2. CASE ~(path' = "/login" /\ path = "/login")
  <2>1. Leaving(l) = [s \in Slots |-> [stage |-> l[s].stage, who |-> l[s].who,
                                      form |-> FALSE]]
    BY <1>2 DEF Leaving, Orphaned
  <2>2. ASSUME NEW s \in Slots
        PROVE  /\ l[s].stage \in {"idle", "asked", "profile"}
               /\ l[s].who \in Users \cup {none}
               /\ l[s].stage = "idle" => l[s].who = none
    <3>1. l[s].stage = "idle" => l[s] = Idle
      OBVIOUS
    <3>2. Idle.who = none
      BY DEF Idle
    <3>3. QED
      BY <3>1, <3>2
  <2>3. \A s \in Slots :
          Leaving(l)[s] = [stage |-> l[s].stage, who |-> l[s].who, form |-> FALSE]
    BY <2>1
  <2>4. ASSUME NEW s \in Slots
        PROVE  Leaving(l)[s].stage = l[s].stage /\ Leaving(l)[s].who = l[s].who
    <3> DEFINE left == Leaving(l)[s]
    <3>1. left = [stage |-> l[s].stage, who |-> l[s].who, form |-> FALSE]
      BY <2>3
    <3> HIDE DEF left
    <3>2. left.stage = l[s].stage /\ left.who = l[s].who
      BY <3>1
    <3>3. QED
      BY <3>2 DEF left
  <2>5. ASSUME NEW s \in Slots, l[s].stage = "idle"
        PROVE  Leaving(l)[s] = Idle
    <3>1. Leaving(l)[s] = [stage |-> l[s].stage, who |-> l[s].who, form |-> FALSE]
      BY <2>3
    <3>2. l[s].who = none
      BY <2>2, <2>5
    <3>3. QED
      BY <2>5, <3>1, <3>2 DEF Idle
  <2>6. Leaving(l) \in [Slots -> [stage : {"idle", "asked", "profile"},
                                  who : Users \cup {none}, form : BOOLEAN]]
    BY <2>1, <2>2
  <2>7. QED
    BY <2>4, <2>5, <2>6
<1>3. QED
  BY <1>1, <1>2

-----------------------------------------------------------------------------
\* The steps of the induction.

\* fetchUserProfile's answer.
LEMMA ProfileKeepsToken ==
  ASSUME SameToken, NEW who \in Users, NEW usable \in BOOLEAN,
         FetchUserProfile(who, usable)
  PROVE  SameToken'
BY DEF SameToken, FetchUserProfile, clearAuthState

LEMMA InitSettling ==
  ASSUME SessionAssumption, Init
  PROVE  Settling
<1>1. LoginsTyped
  BY DEF Init, LoginsTyped, Idle
<1>2. NoLogins
  BY DEF Init, NoLogins, Idle
<1>3. LoginPage
  BY DEF Init, LoginPage, isAuthenticated
<1>4. SameToken /\ Owned /\ Alone
  BY <1>2 DEF Init, SameToken, Owned, Alone, NoLogins
<1>5. QED
  BY <1>1, <1>3, <1>4 DEF Settling

LEMMA ReloadSettles ==
  ASSUME SessionAssumption, Settling, Reload
  PROVE  Settling'
<1>1. LoginsTyped'
  BY DEF Reload, Settling, LoginsTyped, Idle
<1>2. NoLogins'
  BY DEF Reload, NoLogins, Idle
<1>3. LoginPage'
  BY DEF Reload, LoginPage, isAuthenticated
<1>4. (SameToken /\ Owned /\ Alone)'
  BY <1>2 DEF Reload, SameToken, Owned, Alone, NoLogins
<1>5. QED
  BY <1>1, <1>3, <1>4 DEF Settling

LEMMA GoSettles ==
  ASSUME NEW p, NEW shown, Go(p, shown)
  PROVE  LoginPage'
<1>1. path' = Landing(p, token', user', loading')
  BY DEF Go
<1>2. path' = "/login" => ~isAuthenticated(token', user')
  BY <1>1, LoginIsForStrangers
<1>3. QED
  BY <1>2 DEF LoginPage, isAuthenticated

LEMMA StartupSettles ==
  ASSUME SessionAssumption, Settling, StartupAnswered
  PROVE  Settling'
<1> USE DEF Settling, SessionAssumption
<1>1. PICK usable \in BOOLEAN : FetchUserProfile(startup, usable)
  BY DEF StartupAnswered
<1>2. /\ startup # none /\ startup \in Users /\ startup' = none
      /\ logins' = logins /\ logouts' = logouts /\ overlapped' = overlapped
  BY DEF StartupAnswered, LoginsTyped
<1>3. \/ user' = startup /\ token' = token /\ stored' = stored
      \/ user' = none /\ token' = none /\ stored' = none
  BY <1>1 DEF FetchUserProfile, clearAuthState
<1>4. LoginsTyped'
  BY <1>2, <1>3 DEF LoginsTyped
<1>5. (SameToken /\ Owned)'
  BY <1>2, <1>3 DEF SameToken, Owned
<1>6. LoginPage'
  BY GoSettles DEF StartupAnswered
<1>7. Alone'
  <2>1. SUFFICES ASSUME ~overlapped  PROVE Alone'
    BY <1>2 DEF Alone
  <2>2. NoLogins /\ token = startup
    BY <1>2, <2>1 DEF Alone
  <2>3. NoLogins' /\ user' = token'
    BY <1>2, <1>3, <2>2 DEF NoLogins
  <2>4. QED
    BY <1>2, <2>3 DEF Alone, NoLogins
<1>8. QED
  BY <1>4, <1>5, <1>6, <1>7

LEMMA LogoutSettles ==
  ASSUME SessionAssumption, Settling, LogoutAnswered
  PROVE  Settling'
<1> USE DEF Settling, SessionAssumption
<1>1. /\ user' = none /\ token' = none /\ stored' = none
      /\ startup' = startup /\ overlapped' = overlapped
      /\ logouts > 0 /\ logouts' = logouts - 1 /\ logins' = Leaving(logins)
  BY DEF LogoutAnswered, clearAuthState
<1>2. /\ logins' \in [Slots -> [stage : {"idle", "asked", "profile"},
                               who : Users \cup {none}, form : BOOLEAN]]
      /\ \A s \in Slots : /\ logins'[s].stage = logins[s].stage
                          /\ logins'[s].who = logins[s].who
                          /\ logins[s].stage = "idle" => logins'[s] = Idle
  BY <1>1, LeavingKeeps DEF LoginsTyped
<1>3. LoginsTyped'
  BY <1>1, <1>2 DEF LoginsTyped
<1>4. (SameToken /\ Owned)'
  BY <1>1 DEF SameToken, Owned
<1>5. LoginPage'
  BY GoSettles DEF LogoutAnswered
<1>6. Alone'
  <2>1. SUFFICES ASSUME ~overlapped  PROVE Alone'
    BY <1>1 DEF Alone
  <2>2. startup = none /\ NoLogins
    BY <1>1, <2>1 DEF Alone, NoLogins, LoginsTyped
  <2>3. NoLogins'
    BY <1>2, <2>2 DEF NoLogins
  <2>4. QED
    BY <1>1, <2>2, <2>3 DEF Alone, NoLogins
<1>7. QED
  BY <1>3, <1>4, <1>5, <1>6

LEMMA SubmitSettles ==
  ASSUME SessionAssumption, Settling,
         NEW s \in Slots, NEW who \in Users, SubmitLogin(s, who)
  PROVE  Settling'
<1> USE DEF Settling, SessionAssumption
<1> DEFINE asked == [stage |-> "asked", who |-> who, form |-> TRUE]
<1>1. /\ logins[s] = Idle /\ logins' = [logins EXCEPT ![s] = asked]
      /\ overlapped' = (overlapped \/ InFlight) /\ path = "/login"
      /\ UNCHANGED <<token, user, stored, path, startup, logouts>>
  BY DEF SubmitLogin, SignInOffered, auth
<1>2. asked \in [stage : {"idle", "asked", "profile"},
                 who : Users \cup {none}, form : BOOLEAN]
      /\ asked.stage = "asked" /\ asked.who = who
  OBVIOUS
<1> HIDE DEF asked
<1>3. /\ logins'[s] = asked
      /\ \A r \in Slots \ {s} : logins'[r] = logins[r]
  BY <1>1 DEF LoginsTyped
<1>4. LoginsTyped'
  BY <1>1, <1>2, <1>3 DEF LoginsTyped
<1>5. (SameToken /\ LoginPage)'
  BY <1>1 DEF SameToken, LoginPage, isAuthenticated
<1>6. Owned'
  <2>1. logins[s].stage # "profile"
    BY <1>1 DEF Idle
  <2>2. QED
    BY <1>1, <1>3, <2>1 DEF Owned
<1>7. Alone'
  <2>1. SUFFICES ASSUME ~overlapped'  PROVE Alone'
    BY DEF Alone
  <2>2. /\ ~overlapped /\ startup = none /\ logouts = 0
        /\ \A r \in Slots : logins[r] = Idle
    <3>1. ~overlapped /\ ~InFlight
      BY <1>1, <2>1
    <3>2. startup = none /\ ~(logouts > 0) /\ \A r \in Slots : logins[r] = Idle
      BY <3>1 DEF InFlight
    <3>3. logouts = 0
      BY <3>2 DEF LoginsTyped
    <3>4. QED
      BY <3>1, <3>2, <3>3
  <2>3. NoLogins
    BY <2>2 DEF NoLogins, Idle
  <2>4. user = none /\ token = none
    BY <1>1, <2>2, <2>3 DEF Alone, LoginPage, isAuthenticated
  <2>5. \A r \in Slots \ {s} : logins'[r].stage = "idle"
    BY <1>3, <2>3 DEF NoLogins
  <2>6. QED
    BY <1>1, <1>2, <1>3, <2>2, <2>4, <2>5 DEF Alone, NoLogins
<1>8. QED
  BY <1>4, <1>5, <1>6, <1>7

LEMMA AnswerSettles ==
  ASSUME SessionAssumption, Settling, NEW s \in Slots, LoginAnswered(s)
  PROVE  Settling'
<1> USE DEF Settling, SessionAssumption
<1> DEFINE answered == [stage |-> "profile", who |-> logins[s].who,
                        form |-> logins[s].form]
           l == [logins EXCEPT ![s] = answered]
<1>1. /\ logins[s].stage = "asked" /\ logins' = Leaving(l)
      /\ token' = logins[s].who /\ stored' = logins[s].who
      /\ UNCHANGED <<user, startup, logouts, overlapped>>
  BY DEF LoginAnswered
<1>2. /\ answered \in [stage : {"idle", "asked", "profile"},
                       who : Users \cup {none}, form : BOOLEAN]
      /\ answered.stage = "profile" /\ answered.who = logins[s].who
  BY DEF LoginsTyped
<1>3. logins[s].who \in Users
  BY <1>1 DEF LoginsTyped
<1> HIDE DEF answered
<1>4. /\ l \in [Slots -> [stage : {"idle", "asked", "profile"},
                          who : Users \cup {none}, form : BOOLEAN]]
      /\ l[s] = answered
      /\ \A r \in Slots \ {s} : l[r] = logins[r]
  BY <1>2 DEF LoginsTyped
<1>5. \A r \in Slots : l[r].stage = "idle" => l[r] = Idle
  BY <1>2, <1>4 DEF LoginsTyped
<1> HIDE DEF l
<1>6. /\ logins' \in [Slots -> [stage : {"idle", "asked", "profile"},
                               who : Users \cup {none}, form : BOOLEAN]]
      /\ \A r \in Slots : /\ logins'[r].stage = l[r].stage
                          /\ logins'[r].who = l[r].who
                          /\ l[r].stage = "idle" => logins'[r] = Idle
  BY <1>1, <1>4, <1>5, LeavingKeeps
<1>7. /\ logins'[s].stage = "profile" /\ logins'[s].who = token'
      /\ \A r \in Slots \ {s} : /\ logins'[r].stage = logins[r].stage
                                /\ logins'[r].who = logins[r].who
  BY <1>1, <1>2, <1>4, <1>6
<1>8. LoginsTyped'
  <2>1. \A r \in Slots : IF logins'[r].stage = "idle" THEN logins'[r] = Idle
                         ELSE logins'[r].who # none
    BY <1>1, <1>3, <1>6, <1>7 DEF LoginsTyped
  <2>2. QED
    BY <1>1, <1>3, <1>6, <2>1 DEF LoginsTyped
<1>9. (SameToken /\ Owned)'
  BY <1>1, <1>7 DEF SameToken, Owned
<1>10. LoginPage'
  BY GoSettles DEF LoginAnswered
<1>11. Alone'
  <2>1. SUFFICES ASSUME ~overlapped  PROVE Alone'
    BY <1>1 DEF Alone
  <2>2. /\ startup = none /\ logouts = 0 /\ user = none
        /\ \A r \in Slots \ {s} : logins[r].stage = "idle"
    BY <1>1, <2>1 DEF Alone
  <2>3. QED
    BY <1>1, <1>7, <2>2 DEF Alone, NoLogins
<1>12. QED
  BY <1>8, <1>9, <1>10, <1>11

\* A sign-in that is over: refused, or with its profile there.
LEMMA OverSettles ==
  ASSUME SessionAssumption, Settling, NEW s \in Slots,
         LoginRefused(s) \/ LoginProfileAnswered(s)
  PROVE  Settling'
<1> USE DEF Settling, SessionAssumption
<1> DEFINE l == [logins EXCEPT ![s] = Idle]
           who == logins[s].who
<1>1. /\ logins[s].stage # "idle" /\ logins' = Leaving(l)
      /\ UNCHANGED <<startup, logouts, overlapped>>
  BY DEF LoginRefused, LoginProfileAnswered
<1>2. who \in Users
  BY <1>1 DEF LoginsTyped
<1> HIDE DEF who
<1>3. /\ Idle \in [stage : {"idle", "asked", "profile"},
                   who : Users \cup {none}, form : BOOLEAN]
      /\ Idle.stage = "idle"
  BY DEF Idle
<1>4. /\ l \in [Slots -> [stage : {"idle", "asked", "profile"},
                          who : Users \cup {none}, form : BOOLEAN]]
      /\ l[s] = Idle
      /\ \A r \in Slots \ {s} : l[r] = logins[r]
  BY <1>3 DEF LoginsTyped
<1>5. \A r \in Slots : l[r].stage = "idle" => l[r] = Idle
  BY <1>4 DEF LoginsTyped
<1> HIDE DEF l
<1>6. /\ logins' \in [Slots -> [stage : {"idle", "asked", "profile"},
                               who : Users \cup {none}, form : BOOLEAN]]
      /\ \A r \in Slots : /\ logins'[r].stage = l[r].stage
                          /\ logins'[r].who = l[r].who
                          /\ l[r].stage = "idle" => logins'[r] = Idle
  BY <1>1, <1>4, <1>5, LeavingKeeps
<1>7. /\ logins'[s].stage = "idle"
      /\ \A r \in Slots \ {s} : /\ logins'[r].stage = logins[r].stage
                                /\ logins'[r].who = logins[r].who
  BY <1>3, <1>4, <1>6
<1>8. \/ /\ logins[s].stage = "asked"
         /\ UNCHANGED <<token, user, stored>>
      \/ /\ logins[s].stage = "profile"
         /\ \/ user' = who /\ token' = token /\ stored' = stored
            \/ user' = none /\ token' = none /\ stored' = none
  <2>1. CASE LoginRefused(s)
    BY <2>1 DEF LoginRefused, auth
  <2>2. CASE LoginProfileAnswered(s)
    BY <2>2 DEF LoginProfileAnswered, FetchUserProfile, clearAuthState, who
  <2>3. QED
    BY <2>1, <2>2
<1>9. LoginsTyped'
  <2>1. \A r \in Slots : IF logins'[r].stage = "idle" THEN logins'[r] = Idle
                         ELSE logins'[r].who # none
    BY <1>4, <1>6, <1>7 DEF LoginsTyped
  <2>2. {token', user', stored'} \subseteq Users \cup {none}
    BY <1>2, <1>8 DEF LoginsTyped
  <2>3. QED
    BY <1>1, <1>6, <2>1, <2>2 DEF LoginsTyped
<1>10. (SameToken /\ Owned)'
  BY <1>1, <1>2, <1>7, <1>8 DEF SameToken, Owned
<1>11. LoginPage'
  BY GoSettles DEF LoginRefused, LoginProfileAnswered
<1>12. Alone'
  <2>1. SUFFICES ASSUME ~overlapped  PROVE Alone'
    BY <1>1 DEF Alone
  <2>2. /\ startup = none /\ logouts = 0 /\ user = none
        /\ \A r \in Slots \ {s} : logins[r].stage = "idle"
        /\ logins[s].stage = "asked" => token = none
        /\ logins[s].stage = "profile" => token = who
    BY <1>1, <2>1 DEF Alone, who
  <2>3. NoLogins' /\ user' = token'
    BY <1>7, <1>8, <2>2 DEF NoLogins
  <2>4. QED
    BY <1>1, <2>2, <2>3 DEF Alone, NoLogins
<1>13. QED
  BY <1>9, <1>10, <1>11, <1>12

LEMMA VisitSettles ==
  ASSUME Settling, NEW p \in Visited, Visit(p)
  PROVE  Settling'
<1> USE DEF Settling
<1>1. logins' = Leaving(logins) /\ UNCHANGED <<auth, startup, logouts, overlapped>>
  BY DEF Visit
<1>2. /\ logins' \in [Slots -> [stage : {"idle", "asked", "profile"},
                               who : Users \cup {none}, form : BOOLEAN]]
      /\ \A s \in Slots : /\ logins'[s].stage = logins[s].stage
                          /\ logins'[s].who = logins[s].who
                          /\ logins[s].stage = "idle" => logins'[s] = Idle
  BY <1>1, LeavingKeeps DEF LoginsTyped
<1>3. LoginsTyped'
  BY <1>1, <1>2 DEF LoginsTyped, auth
<1>4. (SameToken /\ Owned)'
  BY <1>1, <1>2 DEF SameToken, Owned, auth
<1>5. LoginPage'
  BY GoSettles DEF Visit
<1>6. NoLogins' <=> NoLogins
  BY <1>2 DEF NoLogins
<1>7. Alone'
  BY <1>1, <1>2, <1>6 DEF Alone, auth
<1>8. QED
  BY <1>3, <1>4, <1>5, <1>7

\* Signing out is offered to nobody whose sign-in or profile is under way.
LEMMA SubmitLogoutSettles ==
  ASSUME SessionAssumption, Settling, SubmitLogout
  PROVE  Settling'
<1> USE DEF Settling
<1>1. /\ isAuthenticated(token, user) /\ logouts' = logouts + 1
      /\ UNCHANGED <<token, user, stored, startup, logins, overlapped, path>>
  BY DEF SubmitLogout, auth
<1>2. LoginsTyped'
  BY <1>1 DEF LoginsTyped
<1>3. (SameToken /\ Owned /\ LoginPage)'
  BY <1>1 DEF SameToken, Owned, LoginPage, isAuthenticated
<1>4. ~overlapped => startup = none /\ NoLogins
  BY <1>1 DEF Alone, NoLogins, isAuthenticated
<1>5. Alone'
  BY <1>1, <1>4 DEF Alone, NoLogins
<1>6. QED
  BY <1>2, <1>3, <1>5

-----------------------------------------------------------------------------
\* Whatever requests overlapped, and in whatever order they were answered:
\* once none is in flight, memory and storage hold one token and a token has
\* a user, its own unless a sign-in had begun beside another request.
THEOREM SessionSettles == ASSUME SessionAssumption PROVE Spec => []SettledSession
<1>1. Init => Settling
  BY InitSettling
<1>2. Settling /\ [Next]_sessionVars => Settling'
  <2> SUFFICES ASSUME Settling, [Next]_sessionVars
               PROVE  Settling'
    OBVIOUS
  <2>1. CASE Reload
    BY <2>1, ReloadSettles
  <2>2. CASE StartupAnswered
    BY <2>2, StartupSettles
  <2>3. CASE SubmitInvalid \/ ToggleRecovery \/ SendRecovery
               \/ RecoveryAnswered \/ RecoveryFails \/ RecoveryTimer
    BY <2>3, SettlingStutters
       DEF SubmitInvalid, ToggleRecovery, SendRecovery, RecoveryAnswered,
           RecoveryFails, RecoveryTimer, OnlyForm, settled, auth, Requests
  <2>4. CASE SubmitLogout
    BY <2>4, SubmitLogoutSettles
  <2>5. CASE LogoutAnswered
    BY <2>5, LogoutSettles
  <2>6. ASSUME NEW f \in Fields, NEW ok \in BOOLEAN, TypeValue(f, ok)
        PROVE  Settling'
    BY <2>6, SettlingStutters DEF TypeValue, settled, auth, Requests
  <2>7. ASSUME NEW s \in Slots, NEW who \in Users, SubmitLogin(s, who)
        PROVE  Settling'
    BY <2>7, SubmitSettles
  <2>8. ASSUME NEW s \in Slots, LoginAnswered(s)
        PROVE  Settling'
    BY <2>8, AnswerSettles
  <2>9. ASSUME NEW s \in Slots, LoginRefused(s) \/ LoginProfileAnswered(s)
        PROVE  Settling'
    BY <2>9, OverSettles
  <2>10. ASSUME NEW p \in Visited, Visit(p)
         PROVE  Settling'
    BY <2>10, VisitSettles
  <2>11. CASE UNCHANGED sessionVars
    BY <2>11, SettlingStutters DEF sessionVars, settled
  <2>12. QED
    BY <2>1, <2>2, <2>3, <2>4, <2>5, <2>6, <2>7, <2>8, <2>9, <2>10, <2>11
       DEF Next
<1>3. Settling => SettledSession
  <2> SUFFICES ASSUME Settling, ~InFlight
               PROVE  /\ token = stored
                      /\ token # none => user # none
                      /\ ~overlapped => user = token
    BY DEF SettledSession
  <2>1. startup = none /\ \A s \in Slots : logins[s] = Idle
    BY DEF InFlight
  <2>2. NoLogins
    BY <2>1 DEF NoLogins, Idle
  <2>3. QED
    BY <2>1, <2>2 DEF Settling, SameToken, Owned, Alone, NoLogins
<1>4. QED
  BY <1>1, <1>2, <1>3, PTL DEF Spec
=============================================================================
