-------------------------------- MODULE Client --------------------------------
(***************************************************************************)
(* The pages of the client, one per behaviour: a page keeps its state only *)
(* while it is shown and shares none with another, so the behaviours of    *)
(* one page at a time are those of all.  Variables of the same name belong *)
(* to the page of the behaviour; those of other pages are off.  Those of   *)
(* the session and of the connection form rest where their properties,     *)
(* which are stated in the modules extended here, can be evaluated.        *)
(***************************************************************************)
EXTENDS SessionState, ConnectionFields, Naturals, Sequences, FiniteSets

CONSTANTS
  MaxId, InitialItems, PageSizes, FirstSize,   \* Applications (PagedList)
  PagingAbove, MaxPageSize, DefaultPageSize, AllSize, Term,
  MaxInFlight, MaxStarts, MaxFaults,           \* Applications and Roles
  RoleNames,                                   \* Roles
  Role, Visited,                               \* Session
  Files, MaxRows, MaxCalls, MaxRemovals,       \* FileSelection
  MaxRequests, MaxFunctions,                   \* RequestsPage
  Jobs,                                        \* NotificationBell
  Email, Passwords, MaxPages, MaxSubmits       \* AccountLinks

VARIABLES
  part,   \* the page of the behaviour
  items, born, list, filter, dialog, starts, faults, roles, test,
  calls, rows,
  uploaded, fileData, previewOn, previewPage, previewSize, dragging,
  dragCounter, dragError, busy, removals,
  created, modal, running,
  migration, kept, note, dismissed, open, toBulkTab,
  people, mailed, pages, sent

listOwn    == <<items, born, list, filter, dialog, starts, faults>>
sessionOwn == <<token, user, stored, path, startup, logins, logouts, out>>
filesOwn   == <<uploaded, fileData, previewOn, previewPage, previewSize,
                dragging, dragCounter, dragError, busy, removals>>
formOwn    == formVars
requestOwn == <<created, modal, running>>
bellOwn    == <<migration, kept, note, dismissed, open, toBulkTab>>
linksOwn   == <<people, mailed, pages, sent>>

Off == "off"
ListOff ==
  /\ items = Off /\ born = Off /\ list = Off /\ filter = Off /\ dialog = Off
  /\ starts = Off /\ faults = Off
SessionOff ==
  /\ token = Off /\ user = Off /\ stored = Off /\ path = Off /\ startup = Off
  /\ logins = Off /\ logouts = Off /\ out = FALSE
FilesOff ==
  /\ uploaded = Off /\ fileData = Off /\ previewOn = Off /\ previewPage = Off
  /\ previewSize = Off /\ dragging = Off /\ dragCounter = Off
  /\ dragError = Off /\ busy = Off /\ removals = Off
FormOff ==
  /\ formMode = Off /\ formType = Off /\ formAuth = Off /\ formValue = Off
  /\ connection = [f \in Fields |-> "blank"] /\ storedType = Off /\ storedAuth = Off
RequestOff == created = Off /\ modal = Off /\ running = Off
BellOff ==
  /\ migration = Off /\ kept = Off /\ note = Off /\ dismissed = Off
  /\ open = Off /\ toBulkTab = Off
LinksOff == people = Off /\ mailed = Off /\ pages = Off /\ sent = Off

-----------------------------------------------------------------------------
\* The pages.

Roles            == INSTANCE Roles
Applications     == INSTANCE Applications
Session          == INSTANCE Session
FileSelection    == INSTANCE FileSelection
ConnectionForm   == INSTANCE ConnectionForm
RequestsPage     == INSTANCE RequestsPage
Bell             == INSTANCE NotificationBell
Links            == INSTANCE AccountLinks

ASSUME InstanceAssumption ==
  /\ Roles!RolesAssumption
  /\ Applications!PagedListAssumption /\ Session!SessionAssumption
  /\ FileSelection!SelectionAssumption /\ ConnectionForm!FormAssumption
  /\ RequestsPage!RequestsPageAssumption /\ Bell!BellAssumption
  /\ Links!LinksAssumption

-----------------------------------------------------------------------------
Init ==
  \/ /\ part = "roles" /\ Roles!Init /\ test = Off
     /\ items = Off /\ born = Off /\ list = Off /\ filter = Off /\ dialog = Off
     /\ SessionOff /\ FilesOff /\ FormOff /\ RequestOff /\ BellOff /\ LinksOff
     /\ loading = Off /\ overlapped = Off /\ rows = Off
  \/ /\ part = "applications" /\ Applications!Init /\ roles = Off
     /\ SessionOff /\ FilesOff /\ FormOff /\ RequestOff /\ BellOff /\ LinksOff
     /\ loading = Off /\ overlapped = Off /\ rows = Off
  \/ /\ part = "session" /\ Session!Init /\ roles = Off /\ test = Off
     /\ ListOff /\ FilesOff /\ FormOff /\ RequestOff /\ BellOff /\ LinksOff
     /\ calls = Off /\ rows = Off
  \/ /\ part = "files" /\ FileSelection!Init /\ roles = Off /\ test = Off
     /\ ListOff /\ SessionOff /\ FormOff /\ RequestOff /\ BellOff /\ LinksOff
     /\ form = Off /\ loading = Off
  \/ /\ part = "connection" /\ ConnectionForm!Init /\ roles = Off /\ test = Off
     /\ ListOff /\ SessionOff /\ FilesOff /\ RequestOff /\ BellOff /\ LinksOff
     /\ form = Off /\ calls = Off /\ loading = Off /\ overlapped = Off
     /\ rows = Off
  \/ /\ part = "requests" /\ RequestsPage!Init /\ roles = Off /\ test = Off
     /\ ListOff /\ SessionOff /\ FilesOff /\ FormOff /\ BellOff /\ LinksOff
     /\ form = Off /\ calls = Off /\ overlapped = Off
  \/ /\ part = "bell" /\ Bell!Init /\ roles = Off /\ test = Off
     /\ ListOff /\ SessionOff /\ FilesOff /\ FormOff /\ RequestOff /\ LinksOff
     /\ form = Off /\ calls = Off /\ loading = Off /\ overlapped = Off
     /\ rows = Off
  \/ /\ part = "links" /\ Links!Init /\ roles = Off /\ test = Off
     /\ ListOff /\ SessionOff /\ FilesOff /\ FormOff /\ RequestOff /\ BellOff
     /\ form = Off /\ calls = Off /\ loading = Off /\ overlapped = Off
     /\ rows = Off

shared == <<form, calls, loading, overlapped, rows>>

RolesNext ==
  /\ part = "roles" /\ Roles!Next
  /\ UNCHANGED <<part, items, born, list, filter, dialog, test, loading,
                 overlapped, rows, sessionOwn, filesOwn, formOwn, requestOwn,
                 bellOwn, linksOwn>>
ApplicationsNext ==
  /\ part = "applications" /\ Applications!Next
  /\ UNCHANGED <<part, roles, loading, overlapped, rows, sessionOwn, filesOwn,
                 formOwn, requestOwn, bellOwn, linksOwn>>
SessionNext ==
  /\ part = "session" /\ Session!Next
  /\ UNCHANGED <<part, roles, test, calls, rows, listOwn, filesOwn, formOwn,
                 requestOwn, bellOwn, linksOwn>>
FilesNext ==
  /\ part = "files" /\ FileSelection!Next
  /\ UNCHANGED <<part, roles, test, form, loading, listOwn, sessionOwn,
                 formOwn, requestOwn, bellOwn, linksOwn>>
ConnectionNext ==
  /\ part = "connection" /\ ConnectionForm!Next
  /\ UNCHANGED <<part, roles, test, shared, listOwn, sessionOwn, filesOwn,
                 requestOwn, bellOwn, linksOwn>>
RequestsNext ==
  /\ part = "requests" /\ RequestsPage!Next
  /\ UNCHANGED <<part, roles, test, form, calls, overlapped, listOwn,
                 sessionOwn, filesOwn, formOwn, bellOwn, linksOwn>>
BellNext ==
  /\ part = "bell" /\ Bell!Next
  /\ UNCHANGED <<part, roles, test, shared, listOwn, sessionOwn, filesOwn,
                 formOwn, requestOwn, linksOwn>>
LinksNext ==
  /\ part = "links" /\ Links!Next
  /\ UNCHANGED <<part, roles, test, shared, listOwn, sessionOwn, filesOwn,
                 formOwn, requestOwn, bellOwn>>

Next == \/ RolesNext \/ ApplicationsNext \/ SessionNext
        \/ FilesNext \/ ConnectionNext \/ RequestsNext \/ BellNext
        \/ LinksNext

vars == <<part, roles, test, shared, listOwn, sessionOwn, filesOwn, formOwn,
          requestOwn, bellOwn, linksOwn>>

Spec == Init /\ [][Next]_vars

-----------------------------------------------------------------------------
\* Each page's own properties, where it is the page of the behaviour.

\* Roles: a name is made twice only by a request that was lost sight of.
RoleOnce == part = "roles" => Roles!RoleOnce

\* Roles and applications: a form is saved once at a time.
OneSave ==
  /\ part = "roles" => Roles!OneSave
  /\ part = "applications" => Applications!OneSave

\* Applications: with no fault the page stops loading.
LoadingEnds == part = "applications" => Applications!LoadingEnds

\* Bulk upload: the rows to migrate are those of the parsed files.
DataMatchesFiles == part = "files" => FileSelection!DataMatchesFiles

\* Bulk upload: the preview stays on a page that exists.
PreviewPageExists == part = "files" => FileSelection!PreviewPageExists

\* Access requests: a submission the page allows is sent.
SubmitSends == part = "requests" => RequestsPage!SubmitSends

\* Bell: a dismissed end is not announced again.
DismissedStaysGone == part = "bell" => Bell!DismissedStaysGone

\* Links of e-mails: what the pages announce is what the server has done.
LinkVerdicts == part = "links" => Links!LinkVerdicts
=============================================================================
