------------------------------- MODULE Session -------------------------------
(***************************************************************************)
(* Signing in and out, and where the router takes the browser meanwhile.   *)
(* AuthContext keeps a token in memory and one in local storage, and loads *)
(* the user's profile on every start and every sign-in; each of these      *)
(* requests may be answered after another has changed the session.         *)
(* A token is named by its user.                                           *)
(***************************************************************************)
EXTENDS SessionState, FiniteSets

CONSTANTS Role,        \* Role[u]: the role of user u
          Visited      \* the paths users visit

Users == DOMAIN Role

\* App.tsx: who may see a page; a page not listed is open to everybody.
AnyRole  == {Role[u] : u \in Users} \cup {"User", "Admin", "Platform Admin"}
Staff    == {"User", "Admin", "Platform Admin"}
Platform == {"Platform Admin"}
StaffPages ==
  {"/dashboard", "/security-dashboard", "/analytics-overview",
   "/user-provisioning", "/compliance", "/accounts", "/settings",
   "/applications", "/audit-logs"}
PlatformPages ==
  {"/activity-logs", "/application-logs", "/roles", "/system-health"}
PublicPages == {"/home", "/about", "/contact", "/login", "/verify",
                "/reset-password"}
Paths == StaffPages \cup PlatformPages \cup PublicPages \cup
         {"/", "/user-requests"}

AllowedRoles(p) ==
  CASE p \in StaffPages -> Staff
    [] p \in PlatformPages -> Platform
    [] OTHER -> AnyRole

\* What every instance has to satisfy.
SessionAssumption ==
  Visited \subseteq Paths /\ MaxLogins \in Nat /\ none \notin Users

auth == <<token, user, stored>>
Fields == {"username", "password"}

\* The login page as it is mounted.
NewForm == [valid |-> {}, errors |-> {}, busy |-> FALSE,
            recovery |-> "hidden", sending |-> FALSE, timer |-> FALSE]

TypeOK ==
  /\ {token, user, stored, startup} \subseteq Users \cup {none}
  /\ {loading, overlapped, out} \subseteq BOOLEAN
  /\ path \in Paths
  /\ logins \in [Slots -> [stage : {"idle", "asked", "profile"},
                           who : Users \cup {none}, form : BOOLEAN]]
  /\ logouts \in 0 .. MaxLogins
  /\ form \in [valid : SUBSET Fields, errors : SUBSET Fields, busy : BOOLEAN,
               recovery : {"hidden", "shown", "sent", "sentHidden"},
               sending : BOOLEAN, timer : BOOLEAN]

-----------------------------------------------------------------------------
\* Where the router takes a browser that is at p: ProtectedRoute, the
\* redirect of "/", and the login page, which does not wait for loading.

isAuthenticated(t, u) == t # none /\ u # none

Landing(p, t, u, wait) ==
  LET here == IF p = "/login" /\ isAuthenticated(t, u) THEN "/dashboard" ELSE p
  IN IF here \in PublicPages \/ wait THEN here
     ELSE IF ~isAuthenticated(t, u) THEN IF here = "/" THEN "/home" ELSE "/login"
     ELSE IF here # "/" /\ Role[u] \in AllowedRoles(here) THEN here
     ELSE "/dashboard"

\* The browser goes to p, or stays there while the session changes.  The
\* login page is mounted anew whenever it is come to.
Go(p, shown) ==
  /\ path' = Landing(p, token', user', loading')
  /\ form' = IF path' = "/login" /\ path = "/login" THEN shown ELSE NewForm

Requests == <<startup, logins, logouts, overlapped>>

clearAuthState == user' = none /\ token' = none /\ stored' = none

-----------------------------------------------------------------------------
\* The start of the application: a stored token is taken up and its user's
\* profile asked for.

Init ==
  /\ stored \in Users \cup {none}
  /\ token = stored /\ startup = stored /\ user = none
  /\ loading = (stored # none)
  /\ path \in {Landing(p, token, user, loading) : p \in Visited}
  /\ logins = [s \in Slots |-> Idle] /\ logouts = 0
  /\ form = NewForm /\ overlapped = FALSE /\ out = FALSE

Reload ==
  /\ token' = stored /\ startup' = stored /\ user' = none
  /\ loading' = (stored # none)
  /\ path' = Landing(path, stored, none, stored # none)
  /\ logins' = [s \in Slots |-> Idle] /\ logouts' = 0
  /\ form' = NewForm /\ overlapped' = FALSE
  /\ UNCHANGED <<stored, out>>

\* Mutant: a profile refused only forgets the user.
FetchUserProfileForgets(who, usable) ==
  /\ user' = IF usable THEN who ELSE none
  /\ UNCHANGED <<token, stored>>

\* Mutant: the token is stored once the profile is there.
FetchUserProfileStores(who, usable) ==
  IF usable THEN user' = who /\ stored' = who /\ UNCHANGED token
            ELSE clearAuthState

\* fetchUserProfile, once the profile of who was asked for with who's token.
FetchUserProfile(who, usable) ==
  IF usable THEN user' = who /\ UNCHANGED <<token, stored>>
            ELSE clearAuthState

StartupAnswered ==
  /\ startup # none
  /\ \E usable \in BOOLEAN : FetchUserProfile(startup, usable)
  /\ startup' = none /\ loading' = FALSE
  /\ Go(path, form)
  /\ UNCHANGED <<logins, logouts, overlapped, out>>

-----------------------------------------------------------------------------
\* Signing in.

\* useForm: a value is checked as it is typed, all of them on submission.
TypeValue(f, ok) ==
  /\ path = "/login" /\ form.recovery \in {"hidden", "sentHidden"}
  /\ form' = [form EXCEPT !.valid = IF ok THEN @ \cup {f} ELSE @ \ {f},
                          !.errors = IF ok THEN @ \ {f} ELSE @ \cup {f}]
  /\ UNCHANGED <<auth, loading, path, Requests, out>>

SignInOffered ==
  /\ path = "/login" /\ form.recovery \in {"hidden", "sentHidden"}
  /\ ~form.busy /\ form.errors = {}

SubmitInvalid ==
  /\ SignInOffered /\ form.valid # Fields
  /\ form' = [form EXCEPT !.errors = Fields \ form.valid]
  /\ UNCHANGED <<auth, loading, path, Requests, out>>

SubmitLogin(s, who) ==
  /\ SignInOffered /\ form.valid = Fields /\ logins[s] = Idle
  /\ logins' = [logins EXCEPT ![s] = [stage |-> "asked", who |-> who,
                                      form |-> TRUE]]
  /\ overlapped' = (overlapped \/ InFlight)
  /\ loading' = TRUE
  /\ form' = [form EXCEPT !.busy = TRUE]
  /\ UNCHANGED <<auth, path, startup, logouts, out>>

\* A sign-in whose page was left no longer writes to the form.
Orphaned(l) == [s \in Slots |-> [stage |-> l[s].stage, who |-> l[s].who,
                                 form |-> FALSE]]
Leaving(l) == IF path' = "/login" /\ path = "/login" THEN l ELSE Orphaned(l)

LoginAnswered(s) ==
  /\ logins[s].stage = "asked"
  /\ token' = logins[s].who /\ stored' = logins[s].who
  /\ out' = FALSE
  /\ UNCHANGED <<user, loading>>
  /\ Go(path, form)
  /\ logins' = Leaving([logins EXCEPT
                  ![s] = [stage |-> "profile", who |-> logins[s].who,
                          form |-> logins[s].form]])
  /\ UNCHANGED <<startup, logouts, overlapped>>

\* A refusal or a failure is shown on both fields.
LoginRefused(s) ==
  /\ logins[s].stage = "asked"
  /\ loading' = FALSE
  /\ UNCHANGED auth
  /\ Go(path, IF logins[s].form
              THEN [form EXCEPT !.busy = FALSE, !.errors = Fields] ELSE form)
  /\ logins' = Leaving([logins EXCEPT ![s] = Idle])
  /\ UNCHANGED <<startup, logouts, overlapped, out>>

\* The sign-in succeeds whatever became of the profile.
LoginProfileAnswered(s) ==
  /\ logins[s].stage = "profile"
  /\ \E usable \in BOOLEAN : FetchUserProfile(logins[s].who, usable)
  /\ loading' = FALSE
  /\ Go("/dashboard", [form EXCEPT !.busy = @ /\ ~logins[s].form])
  /\ logins' = Leaving([logins EXCEPT ![s] = Idle])
  /\ UNCHANGED <<startup, logouts, overlapped, out>>

-----------------------------------------------------------------------------
\* Recovery of a password, on the login page: "sent" shows that the mail is
\* on its way, and a timer takes the page back to the sign-in.

\* What the page shows once recovery is hidden or shown again.
Toggled == [hidden |-> "shown", shown |-> "hidden",
            sent |-> "sentHidden", sentHidden |-> "sent"]

OnlyForm == UNCHANGED <<auth, loading, path, Requests, out>>

ToggleRecovery ==
  /\ path = "/login"
  /\ form' = [form EXCEPT !.recovery = Toggled[@]]
  /\ OnlyForm

SendRecovery ==
  /\ path = "/login" /\ form.recovery = "shown" /\ ~form.sending
  /\ form' = [form EXCEPT !.sending = TRUE]
  /\ OnlyForm

RecoveryAnswered ==
  /\ path = "/login" /\ form.sending
  /\ form' = [form EXCEPT !.sending = FALSE, !.timer = TRUE,
                          !.recovery = IF @ = "hidden" THEN "sentHidden"
                                       ELSE "sent"]
  /\ OnlyForm

RecoveryFails ==
  /\ path = "/login" /\ form.sending
  /\ form' = [form EXCEPT !.sending = FALSE]
  /\ OnlyForm

RecoveryTimer ==
  /\ path = "/login" /\ form.timer
  /\ form' = [form EXCEPT !.timer = FALSE, !.recovery = "hidden"]
  /\ OnlyForm

-----------------------------------------------------------------------------
\* Signing out, from the header of every page but the website's.

Website == {"/", "/home", "/about", "/contact"}

SubmitLogout ==
  /\ isAuthenticated(token, user) /\ path \notin Website
  /\ logouts < MaxLogins
  /\ logouts' = logouts + 1
  /\ UNCHANGED <<auth, loading, path, startup, logins, form, overlapped, out>>

\* The session is cleared whether the server answered or not.
LogoutAnswered ==
  /\ logouts > 0
  /\ logouts' = logouts - 1
  /\ clearAuthState /\ out' = TRUE
  /\ UNCHANGED loading
  /\ Go("/login", form)
  /\ logins' = Leaving(logins)
  /\ UNCHANGED <<startup, overlapped>>

-----------------------------------------------------------------------------
\* Moving about: the links of the menu, and those anybody has.

\* NavMenu.tsx: the items shown to a role.
MenuItems(role) ==
  IF role \notin Staff THEN {}
  ELSE (StaffPages \ {"/settings"}) \cup {"/activity-logs", "/application-logs"}
       \cup (IF role \in Platform THEN PlatformPages ELSE {})

Links ==
  PublicPages \cup {"/"} \cup
  (IF isAuthenticated(token, user)
   THEN MenuItems(Role[user]) \cup {"/settings", "/user-requests"} ELSE {})

Visit(p) ==
  /\ p \in Links \cap Visited /\ p # path
  /\ UNCHANGED <<auth, loading>>
  /\ Go(p, form)
  /\ logins' = Leaving(logins)
  /\ UNCHANGED <<startup, logouts, overlapped, out>>

Next ==
  \/ Reload \/ StartupAnswered \/ SubmitInvalid \/ ToggleRecovery
  \/ SendRecovery \/ RecoveryAnswered \/ RecoveryFails \/ RecoveryTimer
  \/ SubmitLogout \/ LogoutAnswered
  \/ \E f \in Fields, ok \in BOOLEAN : TypeValue(f, ok)
  \/ \E s \in Slots : \/ \E who \in Users : SubmitLogin(s, who)
                      \/ LoginAnswered(s) \/ LoginRefused(s)
                      \/ LoginProfileAnswered(s)
  \/ \E p \in Visited : Visit(p)

Spec == Init /\ [][Next]_sessionVars
=============================================================================
