----------------------------- MODULE SessionState -----------------------------
(***************************************************************************)
(* The state of a session, in memory and in local storage, with the        *)
(* requests in flight that can change it, and what must hold of it.        *)
(***************************************************************************)
EXTENDS Naturals

CONSTANT MaxLogins   \* bound: sign-ins and sign-outs in flight

none == "none"

VARIABLES
  token, user,   \* AuthContext
  loading,       \* its loading: the pages behind a sign-in wait for it
  stored,        \* the token in local storage
  path,          \* the page shown
  startup,       \* whose profile the start of the application waits for
  logins,        \* the sign-ins in flight
  logouts,       \* how many sign-outs are in flight
  form,          \* the login page
  overlapped,    \* a sign-in began while something else was in flight
  out            \* signed out, and no sign-in answered since

sessionVars == <<token, user, loading, stored, path, startup, logins, logouts,
                 form, overlapped, out>>

Slots == 1 .. MaxLogins
Idle  == [stage |-> "idle", who |-> none, form |-> FALSE]

InFlight == startup # none \/ logouts > 0 \/ \E s \in Slots : logins[s] # Idle

-----------------------------------------------------------------------------
\* Once every answer is in, memory and storage hold the same token and a
\* token has a user; the user is the token's unless a sign-in began while
\* something else was in flight.
SettledSession ==
  ~InFlight =>
    /\ token = stored
    /\ token # none => user # none
    /\ ~overlapped => user = token

\* Nobody who signed out is signed in again by an answer that comes late, by
\* a reload or by moving about: that takes a sign-in answered afterwards.
LogoutIsFinal == out => token = none /\ stored = none
=============================================================================
