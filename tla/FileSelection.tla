---------------------------- MODULE FileSelection ----------------------------
(***************************************************************************)
(* Choosing the files of a bulk migration: the drop zone, the files picked *)
(* or dropped, and the preview of their rows.  A file is named by its      *)
(* format, so there is one of each; of a row only the file it comes from   *)
(* is kept.  processFiles parses with an await per file and writes at its  *)
(* end what it read at its start, so calls that overlap, or a file removed *)
(* meanwhile, meet old data.                                               *)
(***************************************************************************)
EXTENDS Naturals, FiniteSets, Sequences, SequencesExt

CONSTANTS Files,        \* the files at hand, named by their format
          MaxRows,      \* rows of a file
          PageSizes,    \* rows per page of the preview
          MaxCalls,     \* calls of processFiles at a time
          MaxRemovals   \* files removed, or all of them, in a behaviour

\* What every instance has to satisfy.
SelectionAssumption ==
  /\ Files \subseteq {"csv", "json", "xml", "xlsx", "xls", "txt"}
  /\ PageSizes \subseteq Nat \ {0} /\ PageSizes # {}
  /\ {MaxCalls, MaxRemovals} \subseteq Nat /\ MaxRows \in Nat \ {0}

supportedFormats == {"csv", "json", "xml", "xlsx", "xls"}

VARIABLES
  uploaded,     \* uploadedFiles
  fileData,     \* fileDataMap: the number of rows of each parsed file
  rows,         \* allMigrationData: the file of each row
  previewOn, previewPage, previewSize,
  dragging, dragCounter, dragError,
  calls,        \* processFiles, each at an await
  busy,         \* a migration is under way or shown
  overlapped,   \* a call was not alone with the data it had read
  removals

preview == <<previewOn, previewPage, previewSize>>
drag == <<dragging, dragCounter>>
data == <<uploaded, fileData, rows>>
vars == <<data, preview, drag, dragError, calls, busy, overlapped, removals>>

Init ==
  /\ uploaded = <<>> /\ fileData = <<>> /\ rows = <<>>
  /\ previewOn = FALSE /\ previewPage = 1 /\ previewSize \in PageSizes
  /\ dragging = FALSE /\ dragCounter = 0 /\ dragError = "none"
  /\ calls = {} /\ busy = FALSE /\ overlapped = FALSE /\ removals = 0

\* What the tab offers.
DropZone   == ~busy /\ uploaded = <<>>
FileList   == ~busy /\ uploaded # <<>>
Startable  == ~busy /\ uploaded # <<>>
PreviewPanel == ~busy /\ previewOn /\ rows # <<>>

RowsOf(f, n) == [i \in 1 .. n |-> f]

-----------------------------------------------------------------------------
\* Parsing.  An outcome is a number of rows, or that the file is refused.

Refused == MaxRows + 1
ParseCSV == 0 .. MaxRows
ParseXML == 0 .. MaxRows \cup {Refused}
ParseJSON == 0 .. MaxRows \cup {Refused}
\* Without the library, or when it fails, one row says so.
ParseXLSX == 0 .. MaxRows \cup {1}

ParseFile(f) ==
  CASE f = "csv"  -> ParseCSV
    [] f = "json" -> ParseJSON
    [] f = "xml"  -> ParseXML
    [] OTHER      -> ParseXLSX

\* Those of the files chosen that are neither listed nor of another format.
ValidFiles(chosen) ==
  FlattenSeq([i \in DOMAIN chosen |->
    IF chosen[i] \in supportedFormats \ ToSet(uploaded)
    THEN <<chosen[i]>> ELSE <<>>])

\* Up to the first await: the files are listed, and what they are to be
\* added to is read.
ProcessFiles(chosen) ==
  LET valid == ValidFiles(chosen)
  IN /\ dragError' = IF Len(valid) < Len(chosen) THEN "issues" ELSE "none"
     /\ uploaded' = uploaded \o valid
     /\ IF valid = <<>>
        THEN UNCHANGED <<calls, overlapped>>
        ELSE /\ calls' = calls \cup
                  {[todo |-> valid, data |-> fileData, all |-> rows,
                    failed |-> Len(valid) < Len(chosen)]}
             /\ overlapped' = (overlapped \/ calls # {})

\* Mutant: the parsed data of the file is kept, its rows are not.
ParseNextRowless(c, n) ==
  /\ Len(c.todo) = 1
  /\ calls' = calls \ {c}
  /\ fileData' = (Head(c.todo) :> n) @@ c.data
  /\ rows' = c.all
  /\ previewOn' = (rows' # <<>>) /\ previewPage' = 1
  /\ UNCHANGED <<uploaded, dragError>>

\* After an await, with n rows or none: the next file, or the end.
ParseNext(c, n) ==
  LET f == Head(c.todo)
      d == [todo |-> Tail(c.todo), failed |-> c.failed \/ n = Refused,
            data |-> IF n = Refused THEN c.data
                     ELSE [g \in DOMAIN c.data \cup {f} |->
                             IF g = f THEN n ELSE c.data[g]],
            all |-> IF n = Refused THEN c.all ELSE c.all \o RowsOf(f, n)]
  IN IF d.todo # <<>>
     THEN /\ calls' = (calls \ {c}) \cup {d}
          /\ UNCHANGED <<uploaded, fileData, rows, previewOn, previewPage,
                         dragError>>
     ELSE /\ calls' = calls \ {c}
          /\ fileData' = d.data
          /\ rows' = d.all
          /\ previewOn' = (d.all # <<>>) /\ previewPage' = 1
          /\ dragError' = IF d.failed THEN "unparsed" ELSE dragError
          /\ UNCHANGED uploaded

Parse(c) ==
  /\ \E n \in ParseFile(Head(c.todo)) : ParseNext(c, n)
  /\ UNCHANGED <<previewSize, drag, busy, overlapped, removals>>

Selections == {s \in SeqOf(Files, 2) : s # <<>> /\ IsInjective(s)}

\* handleFileUpload, from the zone or from "Add More".
ChooseFiles ==
  /\ ~busy /\ Cardinality(calls) < MaxCalls
  /\ \E chosen \in Selections : ProcessFiles(chosen)
  /\ UNCHANGED <<fileData, rows, preview, drag, busy, removals>>

-----------------------------------------------------------------------------
\* The drop zone.  Something other than files is not counted when it enters
\* and is counted when it leaves.

HandleDragEnter(hasFiles) ==
  /\ DropZone /\ dragCounter < 2
  /\ IF hasFiles
     THEN /\ dragCounter' = dragCounter + 1
          /\ dragging' = TRUE
          /\ dragError' = IF dragging THEN dragError ELSE "none"
     ELSE UNCHANGED <<drag, dragError>>
  /\ UNCHANGED <<data, preview, calls, busy, overlapped, removals>>

HandleDragLeave ==
  /\ DropZone
  /\ IF dragCounter <= 1
     THEN dragging' = FALSE /\ dragCounter' = 0
     ELSE dragCounter' = dragCounter - 1 /\ UNCHANGED dragging
  /\ UNCHANGED <<data, preview, dragError, calls, busy, overlapped, removals>>

HandleDrop ==
  /\ DropZone /\ Cardinality(calls) < MaxCalls
  /\ dragging' = FALSE /\ dragCounter' = 0
  /\ \/ UNCHANGED <<uploaded, calls, dragError, overlapped>>
     \/ \E chosen \in Selections : ProcessFiles(chosen)
  /\ UNCHANGED <<fileData, rows, preview, busy, removals>>

-----------------------------------------------------------------------------
\* The list of files.

\* The rows are put together again from the data that is left.
Rows(d) ==
  LET files == SetToSeq(DOMAIN d)
  IN FlattenSeq([i \in DOMAIN files |-> RowsOf(files[i], d[files[i]])])

RemoveFile(i) ==
  /\ FileList /\ removals < MaxRemovals
  /\ i \in DOMAIN uploaded
  /\ LET left == [f \in DOMAIN fileData \ {uploaded[i]} |-> fileData[f]]
     IN /\ uploaded' = RemoveAt(uploaded, i)
        /\ fileData' = left
        /\ rows' = Rows(left)
        /\ previewOn' = (Rows(left) # <<>>)
  /\ overlapped' = (overlapped \/ calls # {})
  /\ removals' = removals + 1
  /\ UNCHANGED <<previewPage, previewSize, drag, dragError, calls, busy>>

\* resetMigration, from "Remove All" or once the migration is over.
ResetMigration ==
  /\ (FileList \/ busy) /\ removals < MaxRemovals
  /\ uploaded' = <<>> /\ fileData' = <<>> /\ rows' = <<>>
  /\ previewOn' = FALSE /\ previewPage' = 1
  /\ dragging' = FALSE /\ dragCounter' = 0 /\ dragError' = "none"
  /\ overlapped' = (overlapped \/ calls # {})
  /\ removals' = removals + 1
  /\ busy' = FALSE
  /\ UNCHANGED <<previewSize, calls>>

\* processBulkMigration, seen from here.
StartMigration ==
  /\ Startable /\ removals < MaxRemovals
  /\ busy' = TRUE
  /\ UNCHANGED <<data, preview, drag, dragError, calls, overlapped, removals>>

-----------------------------------------------------------------------------
\* The preview.

TotalPages == (Len(rows) + previewSize - 1) \div previewSize

\* getPaginatedPreviewData
PageRows == SubSeq(rows, (previewPage - 1) * previewSize + 1,
                   Min({previewPage * previewSize, Len(rows)}))

\* Mutant: the page is kept when pages get another size.
SetPageSizeOnly(n) ==
  /\ PreviewPanel
  /\ previewSize' = n
  /\ UNCHANGED <<data, previewOn, previewPage, drag, dragError, calls, busy,
                 overlapped, removals>>

SetPageSize(n) ==
  /\ PreviewPanel
  /\ previewSize' = n /\ previewPage' = 1
  /\ UNCHANGED <<data, previewOn, drag, dragError, calls, busy, overlapped,
                 removals>>

\* Back is offered from page 2 on, forward on every page but the last.
TurnPage ==
  /\ PreviewPanel
  /\ \/ previewPage # 1 /\ previewPage' \in {1, previewPage - 1}
     \/ /\ previewPage # TotalPages
        /\ previewPage' \in {previewPage + 1, TotalPages}
        /\ previewPage' <= MaxRows * Cardinality(Files)
  /\ UNCHANGED <<data, previewOn, previewSize, drag, dragError, calls, busy,
                 overlapped, removals>>

-----------------------------------------------------------------------------
Next ==
  \/ ChooseFiles \/ HandleDrop \/ HandleDragLeave
  \/ \E hasFiles \in BOOLEAN : HandleDragEnter(hasFiles)
  \/ \E c \in calls : Parse(c)
  \/ \E i \in DOMAIN uploaded : RemoveFile(i)
  \/ ResetMigration \/ StartMigration
  \/ \E n \in PageSizes : SetPageSize(n)
  \/ TurnPage

Spec == Init /\ [][Next]_vars

-----------------------------------------------------------------------------
\* With no call under way, and none that met a change of the data it had
\* read, the rows to be migrated are those of the parsed files, once each,
\* and every parsed file is still listed.
DataMatchesFiles ==
  (calls = {} /\ ~overlapped) =>
    /\ DOMAIN fileData \subseteq ToSet(uploaded)
    /\ \A f \in Files :
         Cardinality({i \in DOMAIN rows : rows[i] = f}) =
           IF f \in DOMAIN fileData THEN fileData[f] ELSE 0

\* The preview shows a page that exists, also while files are added and the
\* size changes; only removing a file leaves it on one that is gone.
PreviewPageExists ==
  (PreviewPanel /\ removals = 0) => PageRows # <<>>
=============================================================================
