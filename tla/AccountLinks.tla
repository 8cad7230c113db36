---------------------------- MODULE AccountLinks ----------------------------
(***************************************************************************)
(* The pages behind the links of e-mails, and the transactions of          *)
(* UserAccountService they ask for.  VerifyEmailPage turns a registration  *)
(* into an account as soon as it is shown, ResetPassword gives an account  *)
(* another password.  A transaction reads and then saves, and others come  *)
(* in between: the same link can be open twice, and an address registered  *)
(* twice.  Any request may be refused (its link has expired) or fail.      *)
(***************************************************************************)
EXTENDS Naturals, Sequences, FiniteSets

CONSTANTS Email,      \* Email[r]: the address registration r is made with
          Passwords,  \* the passwords that are strong enough
          MaxPages,   \* bound: pages opened
          MaxSubmits  \* bound: passwords a page sends

Registrations == DOMAIN Email
none == "none"
weak == "weak"   \* a password that is not strong enough

\* What every instance has to satisfy.
LinksAssumption ==
  /\ {MaxPages, MaxSubmits} \subseteq Nat
  /\ {none, weak} \cap Passwords = {}
  /\ \A r \in Registrations : Email[r] # none

VARIABLES
  people,   \* the server: how far each registration is, and its accounts
  mailed,   \* the addresses a reset link was sent to
  pages,    \* the pages opened, in order
  sent      \* the requests of the pages

linkVars == <<people, mailed, pages, sent>>

\* A page: where its link is from (none: a link without a token), its status,
\* hasRunRef and how often it tried; the fields of the form and isLoading;
\* the timer of the redirect.  For the properties: the password it asked for
\* last and the one it had saved last, whether a request of it made an
\* account, and whether an answer was lost.
NewPage(kind, from) ==
  [kind |-> kind, from |-> from, status |-> "pending", ran |-> FALSE,
   tries |-> 0, password |-> none, reTypePassword |-> none, busy |-> FALSE,
   timer |-> FALSE, asked |-> none, saved |-> none, made |-> FALSE,
   lost |-> FALSE]

Pages    == DOMAIN pages
Opened(k, kind) == pages[k].kind = kind /\ pages[k].status # "left"
Account(e) == \E r \in Registrations : Email[r] = e /\ people[r].stage = "account"

Init ==
  /\ people = [r \in Registrations |-> [stage |-> "new", accounts |-> 0]]
  /\ mailed = {} /\ pages = <<>> /\ sent = {}

-----------------------------------------------------------------------------
\* Requests of pages.

Send(k, password) ==
  sent' = sent \cup {[page |-> k, n |-> pages[k].tries, at |-> "sent",
                      row |-> 0, password |-> password, heard |-> TRUE]}

\* The server goes on with a request also when its answer will not be heard.
Becomes(c, at, row) ==
  sent' = (sent \ {c}) \cup
          (IF c.heard \/ at = "read" THEN {[c EXCEPT !.at = at, !.row = row]}
           ELSE {})
Lost(c) ==
  /\ c.heard
  /\ \/ sent' = sent \ {c}
     \/ /\ c.at \in {"sent", "read"}
        /\ sent' = (sent \ {c}) \cup {[c EXCEPT !.heard = FALSE]}
Answered(c) ==
  c.at \in {"granted", "refused", "failed"} /\ sent' = sent \ {c}
Of(c, kind) == pages[c.page].kind = kind

-----------------------------------------------------------------------------
\* Registration: nobody else may have an account with the address, but
\* others may wait for theirs, or get it before this one is saved.

RegisterReads(r) ==
  /\ people[r].stage = "new" /\ ~Account(Email[r])
  /\ people' = [people EXCEPT ![r].stage = "read"]
  /\ UNCHANGED <<mailed, pages, sent>>

RegisterSaves(r) ==
  /\ people[r].stage = "read"
  /\ \E stage \in {"waiting", "new"} :
       people' = [people EXCEPT ![r].stage = stage]
  /\ UNCHANGED <<mailed, pages, sent>>

ForgotPassword(e) ==
  /\ Account(e) /\ e \notin mailed
  /\ mailed' = mailed \cup {e}
  /\ UNCHANGED <<people, pages, sent>>

-----------------------------------------------------------------------------
\* VerifyEmailPage.

OpenVerify(from) ==
  /\ Len(pages) < MaxPages
  /\ from = none \/ \E r \in Registrations :
                      Email[r] = from /\ people[r].stage \in {"waiting", "account"}
  /\ pages' = Append(pages, NewPage("verify", from))
  /\ UNCHANGED <<people, mailed, sent>>

\* Mutant: without the reference that outlives a second run of the effect.
MayRunAgain(page) == TRUE

MayRun(page) == ~page.ran

\* The effect of the mount; React's strict mode runs it twice (the bound).
VerifyEffect(k) ==
  /\ Opened(k, "verify") /\ pages[k].tries < 2
  /\ LET page == [pages[k] EXCEPT !.ran = TRUE, !.tries = @ + 1]
     IN  \/ /\ ~MayRun(pages[k])
            /\ pages' = [pages EXCEPT ![k] = page] /\ UNCHANGED sent
         \/ /\ MayRun(pages[k]) /\ page.from = none
            /\ pages' = [pages EXCEPT ![k] = [page EXCEPT !.status = "error"]]
            /\ UNCHANGED sent
         \/ /\ MayRun(pages[k]) /\ page.from # none
            /\ pages' = [pages EXCEPT ![k] = page] /\ Send(k, none)
  /\ UNCHANGED <<people, mailed>>

\* RegisterNewUser finds somebody who waits with the address, or nobody.
RegisterNewUser(c) ==
  /\ Of(c, "verify") /\ c.at = "sent"
  /\ \/ \E r \in Registrations :
          /\ Email[r] = pages[c.page].from /\ people[r].stage = "waiting"
          /\ Becomes(c, "read", r)
     \/ \E at \in {"refused", "failed"} : Becomes(c, at, 0)
  /\ UNCHANGED <<people, mailed, pages>>

\* The removal of a row that is gone fails, and the insertion with it.
StillWaits(r) == people[r].stage = "waiting"

RegisterNewUserSaves(c) ==
  /\ Of(c, "verify") /\ c.at = "read"
  /\ \/ /\ StillWaits(c.row)
        /\ people' = [people EXCEPT ![c.row] =
                        [stage |-> "account", accounts |-> @.accounts + 1]]
        /\ Becomes(c, "granted", c.row)
        /\ pages' = [pages EXCEPT ![c.page].made = TRUE]
     \/ Becomes(c, "failed", 0) /\ UNCHANGED <<people, pages>>
  /\ UNCHANGED mailed

\* The answer never holds a temporary user, so the page asks for no password.
VerifyAnswered(c) ==
  /\ Of(c, "verify") /\ Answered(c)
  /\ pages' = [pages EXCEPT ![c.page].status =
                 IF @ = "left" THEN @
                 ELSE IF c.at = "granted" THEN "success" ELSE "error"]
  /\ UNCHANGED <<people, mailed>>

\* The request does not arrive, or its answer does not.
VerifyLost(c) ==
  /\ Of(c, "verify") /\ Lost(c)
  /\ pages' = [pages EXCEPT ![c.page].lost = TRUE,
                            ![c.page].status = IF @ = "left" THEN @ ELSE "error"]
  /\ UNCHANGED <<people, mailed>>

\* "Go to Login" and "Back to Login".
LeaveVerify(k) ==
  /\ Opened(k, "verify") /\ pages[k].status \in {"success", "error"}
  /\ pages' = [pages EXCEPT ![k].status = "left"]
  /\ UNCHANGED <<people, mailed, sent>>

-----------------------------------------------------------------------------
\* ResetPassword.

OpenReset(from) ==
  /\ Len(pages) < MaxPages
  /\ from \in mailed \cup {none}
  /\ pages' = Append(pages, NewPage("reset", from))
  /\ UNCHANGED <<people, mailed, sent>>

\* The form, until there is a message of success.
FormOffered(k) ==
  /\ Opened(k, "reset") /\ pages[k].status = "pending"
  /\ pages[k].from # none

TypePassword(k, word) ==
  /\ FormOffered(k) /\ pages[k].password # word
  /\ pages' = [pages EXCEPT ![k].password = word]
  /\ UNCHANGED <<people, mailed, sent>>

RetypePassword(k, word) ==
  /\ FormOffered(k) /\ pages[k].reTypePassword # word
  /\ pages' = [pages EXCEPT ![k].reTypePassword = word]
  /\ UNCHANGED <<people, mailed, sent>>

SubmitEnabled(k) ==
  ~pages[k].busy /\ none \notin {pages[k].password, pages[k].reTypePassword}
validatePasswords(page) ==
  page.password \in Passwords /\ page.password = page.reTypePassword

handleSubmit(k) ==
  /\ FormOffered(k) /\ SubmitEnabled(k) /\ validatePasswords(pages[k])
  /\ pages[k].tries < MaxSubmits
  /\ pages' = [pages EXCEPT ![k].busy = TRUE, ![k].tries = @ + 1,
                            ![k].asked = pages[k].password]
  /\ Send(k, pages[k].password)
  /\ UNCHANGED <<people, mailed>>

\* ResetPasswordAsync gives an account with the address the password.
ResetPasswordAsync(c) ==
  /\ Of(c, "reset") /\ c.at = "sent"
  /\ \/ /\ Account(pages[c.page].from)
        /\ pages' = [pages EXCEPT ![c.page].saved = c.password]
        /\ Becomes(c, "granted", 0)
     \/ \E at \in {"refused", "failed"} : Becomes(c, at, 0) /\ UNCHANGED pages
  /\ UNCHANGED <<people, mailed>>

\* A page that was left shows nothing more, but its redirect is set all the
\* same.
ResetAnswered(c) ==
  /\ Of(c, "reset") /\ Answered(c)
  /\ LET good == c.at = "granted"
     IN  pages' = [pages EXCEPT ![c.page].busy = FALSE, ![c.page].timer = @ \/ good,
                     ![c.page].status = IF good /\ @ # "left" THEN "success" ELSE @]
  /\ UNCHANGED <<people, mailed>>

ResetLost(c) ==
  /\ Of(c, "reset") /\ Lost(c)
  /\ pages' = [pages EXCEPT ![c.page].busy = FALSE, ![c.page].lost = TRUE]
  /\ UNCHANGED <<people, mailed>>

\* After three seconds the browser is taken to the login page.
TimerFires(k) ==
  /\ pages[k].timer
  /\ pages' = [pages EXCEPT ![k].timer = FALSE, ![k].status = "left"]
  /\ UNCHANGED <<people, mailed, sent>>

\* "Back to Sign In", and "Go to Sign In" where there is no token.
LeaveReset(k) ==
  /\ FormOffered(k) \/ (Opened(k, "reset") /\ pages[k].from = none)
  /\ pages' = [pages EXCEPT ![k].status = "left"]
  /\ UNCHANGED <<people, mailed, sent>>

-----------------------------------------------------------------------------
Addresses == {Email[r] : r \in Registrations}

Next ==
  \/ \E r \in Registrations : RegisterReads(r) \/ RegisterSaves(r)
  \/ \E e \in Addresses : ForgotPassword(e)
  \/ \E from \in Addresses \cup {none} : OpenVerify(from) \/ OpenReset(from)
  \/ \E k \in Pages :
       \/ VerifyEffect(k) \/ LeaveVerify(k)
       \/ handleSubmit(k) \/ TimerFires(k) \/ LeaveReset(k)
       \/ \E word \in Passwords \cup {weak} :
            TypePassword(k, word) \/ RetypePassword(k, word)
  \/ \E c \in sent :
       \/ RegisterNewUser(c) \/ RegisterNewUserSaves(c)
       \/ VerifyAnswered(c) \/ VerifyLost(c)
       \/ ResetPasswordAsync(c) \/ ResetAnswered(c) \/ ResetLost(c)

Spec == Init /\ [][Next]_linkVars

-----------------------------------------------------------------------------

\* However often a link is opened, it makes one account of a registration at
\* most; the page whose request made it says so, unless the answer was lost,
\* and no other page does.
VerifiedOnce ==
  /\ \A r \in Registrations : people[r].accounts <= 1
  /\ \A k \in Pages : pages[k].kind = "verify" =>
       /\ pages[k].status = "success" => pages[k].made
       /\ pages[k].status = "error" /\ pages[k].made => pages[k].lost

\* A page that announces a new password had saved the one asked for last,
\* and nothing of it is under way that could replace it, unless an earlier
\* answer was lost.
ResetAnnounced ==
  \A k \in Pages : pages[k].kind = "reset" /\ pages[k].status = "success" =>
    \/ pages[k].lost
    \/ /\ pages[k].saved = pages[k].asked
       /\ \A c \in sent : c.page # k

\* What the pages behind the links announce is what the server has done.
LinkVerdicts == VerifiedOnce /\ ResetAnnounced
=============================================================================
