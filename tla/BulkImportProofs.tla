--------------------------- MODULE BulkImportProofs ---------------------------
(***************************************************************************)
(* Proofs about BulkImport, for any uploads on the three paths at once,    *)
(* any files and any number of database errors and cancellations.          *)
(***************************************************************************)
EXTENDS BulkImport, FiniteSetTheorems, TLAPS

(***************************************************************************)
(* TypeOK with the functions it leaves implicit and the place of an upload *)
(* in its list of files: only the "multiple" path has more than one, and   *)
(* another one follows only where the list goes on.                        *)
(***************************************************************************)
PlaceOK(u) ==
  /\ cur[u] <= size[u]
  /\ step[u] = "new" => cur[u] = 1
  /\ step[u] = "next" => cur[u] < size[u]
  /\ step[u] \in {"precheck", "next", "finish"} => ~HasToken(u)
  /\ step[u] = "release" => HasToken(u)
  /\ HasToken(u) => size[u] = 1
  /\ step[u] = "activity" => Path(u) # "queued"
  /\ step[u] = "new" => /\ outcome[u] = [f \in 1 .. MaxFiles |-> "none"]
                        /\ size[u] = 1 /\ Path(u) = "queued"

TypeInv ==
  /\ TypeOK
  /\ tracked \in [Uploads -> [data : SUBSET Record, history : SUBSET History]]
  /\ checked \in [Uploads -> Seq(BOOLEAN)]
  /\ \A u \in Uploads : PlaceOK(u)

Verdict == {"none", "ok", "failed"}
ContextType == [data : SUBSET Record, history : SUBSET History]

\* Before the first upload nothing is in the database and nothing tracked.
LEMMA InitTypeInv == Init => TypeInv
<1> SUFFICES ASSUME Init PROVE TypeInv
  OBVIOUS
<1>1. CancellationTypeOK
  BY BulkImportAssumption DEF Init, CancellationInit, CancellationTypeOK, SourceState
<1>2. /\ rows = {} /\ histories = {}
      /\ tracked \in [Uploads -> ContextType]
      /\ \A u \in Uploads : tracked[u].data = {} /\ tracked[u].history = {}
  BY DEF Init, Nothing, ContextType
<1>3. /\ options \in [Uploads -> Option] /\ size \in [Uploads -> 1 .. MaxFiles]
      /\ cur \in [Uploads -> 1 .. MaxFiles]
      /\ \A u \in Uploads : Path(u) = "queued" /\ cur[u] = 1 /\ size[u] = 1
  BY BulkImportAssumption DEF Init, Option, Path
<1>4. /\ file \in [Uploads -> Files \cup {NoFile}]
      /\ step \in [Uploads -> Steps] /\ \A u \in Uploads : step[u] = "new"
      /\ answer \in [Uploads -> {"none", "success", "error"}]
      /\ faults \in 0 .. MaxFaults
  BY BulkImportAssumption DEF Init, Steps
<1>5. /\ checked \in [Uploads -> Seq(BOOLEAN)]
      /\ \A u \in Uploads : checked[u] \in Seq(BOOLEAN) /\ Len(checked[u]) <= Len(file[u].rows)
  BY DEF Init, NoFile
<1>6. /\ outcome \in [Uploads -> [1 .. MaxFiles -> Verdict]]
      /\ \A u \in Uploads : outcome[u] = [f \in 1 .. MaxFiles |-> "none"]
      /\ processed \in [Uploads -> [1 .. MaxFiles -> Nat]]
  BY DEF Init, Verdict
<1>7. \A u \in Uploads : PlaceOK(u)
  BY <1>3, <1>4, <1>6 DEF PlaceOK, HasToken
<1>8. QED
  BY <1>1, <1>2, <1>3, <1>4, <1>5, <1>6, <1>7 DEF TypeInv, TypeOK, Verdict, ContextType

(***************************************************************************)
(* What FileFails and FileSucceeds do: a verdict for the current file, and *)
(* the way on: the token's release, another file, or the end of the list.  *)
(***************************************************************************)
Ends(u, o) ==
  /\ outcome' = [outcome EXCEPT ![u][cur[u]] = o]
  /\ \E s \in {"release", "next", "finish"} :
       /\ step' = [step EXCEPT ![u] = s]
       /\ s = "release" <=> HasToken(u)
       /\ s = "next" => cur[u] < size[u]

\* Both have that effect.
LEMMA FileEnds == ASSUME NEW u
                  PROVE  /\ FileFails(u) => Ends(u, "failed")
                         /\ FileSucceeds(u) => Ends(u, "ok")
<1>1. FileFails(u) => Ends(u, "failed")
  BY DEF FileFails, Goto, Ends
<1>2. FileSucceeds(u) => Ends(u, "ok")
  BY DEF FileSucceeds, Goto, Ends
<1>3. QED
  BY <1>1, <1>2

(***************************************************************************)
(* The types of what the import of one upload moves: its step, its verdict *)
(* and its place in the list.                                              *)
(***************************************************************************)
ImportTyped == /\ step \in [Uploads -> Steps]
               /\ outcome \in [Uploads -> [1 .. MaxFiles -> Verdict]]
               /\ cur \in [Uploads -> 1 .. MaxFiles] /\ size \in [Uploads -> 1 .. MaxFiles]
               /\ options \in [Uploads -> Option]
               /\ \A u \in Uploads : PlaceOK(u)

\* The end of a file keeps them.
LEMMA EndsTyped ==
  ASSUME ImportTyped, NEW u \in Uploads, NEW o \in Verdict, Ends(u, o),
         step[u] # "new", UNCHANGED <<cur, size, options>>
  PROVE  ImportTyped'
<1>1. PICK s \in {"release", "next", "finish"} :
        /\ step' = [step EXCEPT ![u] = s]
        /\ s = "release" <=> HasToken(u)
        /\ s = "next" => cur[u] < size[u]
  BY DEF Ends
<1>2. outcome' \in [Uploads -> [1 .. MaxFiles -> Verdict]]
  BY DEF Ends, ImportTyped
<1>3. step' \in [Uploads -> Steps] /\ step'[u] = s /\ \A v \in Uploads \ {u} : step'[v] = step[v]
  BY <1>1 DEF ImportTyped, Steps
<1>4. \A v \in Uploads \ {u} : outcome'[v] = outcome[v]
  BY DEF Ends, ImportTyped
<1>5. \A v \in Uploads : HasToken(v)' = HasToken(v) /\ Path(v)' = Path(v)
  BY DEF HasToken, Path
<1>6. ASSUME NEW v \in Uploads PROVE PlaceOK(v)'
  <2>1. CASE v = u
    BY <1>1, <1>3, <1>5, <2>1 DEF ImportTyped, PlaceOK
  <2>2. CASE v # u
    BY <1>3, <1>4, <1>5, <2>2 DEF ImportTyped, PlaceOK
  <2>3. QED
    BY <2>1, <2>2
<1>7. QED
  BY <1>2, <1>3, <1>6 DEF ImportTyped

\* So does a step on the same file that the place allows.
LEMMA StepTyped ==
  ASSUME ImportTyped, NEW u \in Uploads, NEW s \in Steps, step' = [step EXCEPT ![u] = s],
         s \notin {"new", "next"},
         s \in {"precheck", "finish"} => ~HasToken(u),
         s = "release" => HasToken(u),
         s = "activity" => Path(u) # "queued",
         UNCHANGED <<outcome, cur, size, options>>
  PROVE  ImportTyped'
<1>1. \A v \in Uploads : step'[v] = IF v = u THEN s ELSE step[v]
  BY DEF ImportTyped
<1>2. \A v \in Uploads : HasToken(v)' = HasToken(v) /\ Path(v)' = Path(v)
  BY DEF HasToken, Path
<1>3. ASSUME NEW v \in Uploads PROVE PlaceOK(v)'
  BY <1>1, <1>2 DEF ImportTyped, PlaceOK
<1>4. QED
  BY <1>3 DEF ImportTyped

\* The types of the data tables and of what contexts track.
DataTyped == /\ rows \subseteq Record /\ histories \subseteq History
             /\ tracked \in [Uploads -> ContextType]

\* The types of a file and of the verdicts on its rows.
ReadTyped == /\ file \in [Uploads -> Files \cup {NoFile}]
             /\ checked \in [Uploads -> Seq(BOOLEAN)]
             /\ \A u \in Uploads : Len(checked[u]) <= Len(file[u].rows)

\* The types of the rest.
RestTyped == /\ processed \in [Uploads -> [1 .. MaxFiles -> Nat]]
             /\ answer \in [Uploads -> {"none", "success", "error"}]
             /\ faults \in 0 .. MaxFaults

\* TypeInv has these five parts.
LEMMA TypeParts ==
  TypeInv <=> CancellationTypeOK /\ ImportTyped /\ DataTyped /\ ReadTyped /\ RestTyped
<1>1. tracked \in [Uploads -> ContextType] =>
        \A u \in Uploads : tracked[u].data \subseteq Record /\ tracked[u].history \subseteq History
  BY DEF ContextType
<1>2. QED
  BY <1>1 DEF TypeInv, TypeOK, ImportTyped, DataTyped, ReadTyped, RestTyped, Verdict, ContextType

\* A list of rows has a length, also where there is no file.
LEMMA RowsTyped ==
  ASSUME NEW f \in Files \cup {NoFile}
  PROVE  /\ f.rows \in Seq(Row) /\ Len(f.rows) \in Nat
         /\ f \in Files => f.table \in Tables
<1>1. CASE f \in Files
  BY <1>1, BulkImportAssumption DEF FileType
<1>2. CASE f \notin Files
  <2>1. f.rows = << >>
    BY <1>2 DEF NoFile
  <2>2. QED
    BY <1>2, <2>1
<1>3. QED
  BY <1>1, <1>2

\* The token table keeps its type: an upload registers and removes its own token.
LEMMA TokensTyped ==
  ASSUME CancellationTypeOK, NEW u \in Uploads
  PROVE  /\ CreateJobCancellation(u, u) => CancellationTypeOK'
         /\ RemoveJob(u) => CancellationTypeOK'
         /\ CancelUpload(u) => CancellationTypeOK'
<1>0. JobIds = Uploads /\ NoSource \notin Uploads
  BY BulkImportAssumption, NoSourceAssumption
<1>1. ASSUME NEW v \in Uploads
      PROVE  /\ [sources[v] EXCEPT !.created = TRUE] \in SourceState
             /\ [sources[v] EXCEPT !.cancelled = TRUE] \in SourceState
             /\ [sources[v] EXCEPT !.disposed = TRUE] \in SourceState
  BY DEF CancellationTypeOK, SourceState
<1>2. ASSUME NEW v \in Uploads
      PROVE  /\ [sources EXCEPT ![v].created = TRUE] \in [Uploads -> SourceState]
             /\ [sources EXCEPT ![v].cancelled = TRUE] \in [Uploads -> SourceState]
             /\ [sources EXCEPT ![v].disposed = TRUE] \in [Uploads -> SourceState]
  <2>1. /\ [sources EXCEPT ![v].created = TRUE]
             = [sources EXCEPT ![v] = [sources[v] EXCEPT !.created = TRUE]]
        /\ [sources EXCEPT ![v].cancelled = TRUE]
             = [sources EXCEPT ![v] = [sources[v] EXCEPT !.cancelled = TRUE]]
        /\ [sources EXCEPT ![v].disposed = TRUE]
             = [sources EXCEPT ![v] = [sources[v] EXCEPT !.disposed = TRUE]]
    OBVIOUS
  <2>2. QED
    BY <1>1, <2>1 DEF CancellationTypeOK
<1>3. ASSUME NEW v \in Uploads,
             \/ UNCHANGED sources
             \/ sources' = [sources EXCEPT ![v].created = TRUE]
             \/ sources' = [sources EXCEPT ![v].cancelled = TRUE]
             \/ sources' = [sources EXCEPT ![v].disposed = TRUE]
      PROVE  sources' \in [Uploads -> SourceState]
  BY <1>2, <1>3 DEF CancellationTypeOK
<1>4. /\ activeJobs \in [Uploads -> Uploads \cup {NoSource}]
      /\ activeJobs[u] # NoSource => activeJobs[u] \in Uploads
  BY <1>0 DEF CancellationTypeOK
<1>5. ASSUME CreateJobCancellation(u, u) PROVE CancellationTypeOK'
  <2>1. sources' \in [Uploads -> SourceState]
    BY <1>3, <1>5 DEF CreateJobCancellation
  <2>2. activeJobs' \in [Uploads -> Uploads \cup {NoSource}]
    BY <1>4, <1>5 DEF CreateJobCancellation
  <2>3. QED
    BY <1>0, <2>1, <2>2 DEF CancellationTypeOK
<1>6. ASSUME RemoveJob(u) PROVE CancellationTypeOK'
  <2>1. sources' \in [Uploads -> SourceState]
    BY <1>3, <1>4, <1>6 DEF RemoveJob
  <2>2. activeJobs' \in [Uploads -> Uploads \cup {NoSource}]
    BY <1>4, <1>6 DEF RemoveJob
  <2>3. QED
    BY <1>0, <2>1, <2>2 DEF CancellationTypeOK
<1>7. ASSUME CancelUpload(u) PROVE CancellationTypeOK'
  <2>1. sources' \in [Uploads -> SourceState] /\ UNCHANGED activeJobs
    BY <1>3, <1>4, <1>7 DEF CancelUpload, LookupSource, CancelSource
  <2>2. QED
    BY <2>1 DEF CancellationTypeOK
<1>8. QED
  BY <1>5, <1>6, <1>7

\* So do the tables and the change trackers when a context saves, fails to, or is
\* disposed of.
LEMMA SavesTyped ==
  ASSUME DataTyped, NEW u \in Uploads, NEW extra \in SUBSET History
  PROVE  /\ SaveChanges(u, extra) => DataTyped'
         /\ SaveChangesFails(u, extra) => DataTyped'
         /\ tracked' = [tracked EXCEPT ![u] = Nothing] /\ UNCHANGED <<rows, histories>>
              => DataTyped'
<1>1. /\ tracked[u].data \subseteq Record /\ tracked[u].history \subseteq History
      /\ Nothing \in ContextType
      /\ [tracked[u] EXCEPT !.history = tracked[u].history \cup extra] \in ContextType
  BY DEF DataTyped, ContextType, Nothing
<1>2. /\ [tracked EXCEPT ![u] = Nothing] \in [Uploads -> ContextType]
      /\ [tracked EXCEPT ![u].history = @ \cup extra] \in [Uploads -> ContextType]
  <2>1. [tracked EXCEPT ![u].history = @ \cup extra]
          = [tracked EXCEPT ![u] =
               [tracked[u] EXCEPT !.history = tracked[u].history \cup extra]]
    OBVIOUS
  <2>2. QED
    BY <1>1, <2>1 DEF DataTyped
<1>3. SaveChanges(u, extra) => DataTyped'
  BY <1>1, <1>2 DEF SaveChanges, DataTyped
<1>4. SaveChangesFails(u, extra) => DataTyped'
  BY <1>2 DEF SaveChangesFails, DataTyped
<1>5. QED
  BY <1>2, <1>3, <1>4 DEF DataTyped

\* And what is read of a file, when another one is taken or the request ends.
LEMMA ReadsTyped ==
  ASSUME ReadTyped, NEW u \in Uploads
  PROVE  /\ \A s : TakeFile(u, s) => ReadTyped'
         /\ EndRequest(u) => ReadTyped'
<1>1. ASSUME NEW f \in Files \cup {NoFile}, file' = [file EXCEPT ![u] = f],
             checked' = [checked EXCEPT ![u] = << >>]
      PROVE  ReadTyped'
  <2>1. Len(f.rows) \in Nat /\ Len(<< >>) = 0 /\ << >> \in Seq(BOOLEAN)
    BY RowsTyped
  <2>2. \A v \in Uploads : /\ file'[v] = IF v = u THEN f ELSE file[v]
                           /\ checked'[v] = IF v = u THEN << >> ELSE checked[v]
    BY <1>1 DEF ReadTyped
  <2>3. \A v \in Uploads : Len(checked'[v]) <= Len(file'[v].rows)
    BY <2>1, <2>2 DEF ReadTyped
  <2>4. QED
    BY <1>1, <2>1, <2>3 DEF ReadTyped
<1>2. QED
  BY <1>1 DEF TakeFile, EndRequest

\* Parts that a step leaves alone.
LEMMA PartsKept ==
  /\ CancellationTypeOK /\ UNCHANGED cancellationVars => CancellationTypeOK'
  /\ ImportTyped /\ UNCHANGED <<step, outcome, cur, size, options>> => ImportTyped'
  /\ DataTyped /\ UNCHANGED dbVars => DataTyped'
  /\ ReadTyped /\ UNCHANGED <<file, checked>> => ReadTyped'
  /\ RestTyped /\ UNCHANGED <<processed, answer, faults>> => RestTyped'
  /\ RestTyped /\ UNCHANGED <<processed, answer>> /\ Fault => RestTyped'
<1>1. CancellationTypeOK /\ UNCHANGED cancellationVars => CancellationTypeOK'
  BY DEF CancellationTypeOK, cancellationVars
<1>2. ImportTyped /\ UNCHANGED <<step, outcome, cur, size, options>> => ImportTyped'
  BY DEF ImportTyped, PlaceOK, HasToken, Path
<1>3. DataTyped /\ UNCHANGED dbVars => DataTyped'
  BY DEF DataTyped, dbVars
<1>4. ReadTyped /\ UNCHANGED <<file, checked>> => ReadTyped'
  BY DEF ReadTyped
<1>5. RestTyped /\ UNCHANGED <<processed, answer, faults>> => RestTyped'
  BY DEF RestTyped
<1>6. RestTyped /\ UNCHANGED <<processed, answer>> /\ Fault => RestTyped'
  BY BulkImportAssumption DEF RestTyped, Fault
<1>7. QED
  BY <1>1, <1>2, <1>3, <1>4, <1>5, <1>6

\* The verdicts of ValidateRowAsync and ValidateBatchAsync are one per row at most.
LEMMA VerdictsTyped ==
  ASSUME ReadTyped, NEW u \in Uploads, Validate(u)
  PROVE  ReadTyped'
<1> DEFINE n == Len(checked[u]) + 1
           m == Len(file[u].rows)
<1>1. /\ file[u].rows \in Seq(Row) /\ m \in Nat /\ DOMAIN file[u].rows = 1 .. m
      /\ checked[u] \in Seq(BOOLEAN) /\ Len(checked[u]) \in Nat
  BY RowsTyped DEF ReadTyped
<1>2. n \in DOMAIN file[u].rows /\ UNCHANGED file
  BY DEF Validate
<1>3. \A b \in BOOLEAN : /\ Append(checked[u], b) \in Seq(BOOLEAN)
                        /\ Len(Append(checked[u], b)) = n
  BY <1>1
<1>4. \A g \in [1 .. m -> BOOLEAN] : g \in Seq(BOOLEAN) /\ Len(g) = m
  BY <1>1
<1>5. [k \in DOMAIN file[u].rows |-> RowValid(u, k)] \in [1 .. m -> BOOLEAN]
  BY <1>1 DEF RowValid
<1>6. ASSUME NEW c \in Seq(BOOLEAN), Len(c) <= m, checked' = [checked EXCEPT ![u] = c]
      PROVE  ReadTyped'
  <2>1. \A v \in Uploads : checked'[v] = IF v = u THEN c ELSE checked[v]
    BY <1>6 DEF ReadTyped
  <2>2. checked' \in [Uploads -> Seq(BOOLEAN)]
    BY <1>6 DEF ReadTyped
  <2>3. \A v \in Uploads : Len(checked'[v]) <= Len(file'[v].rows)
    BY <1>2, <1>6, <2>1 DEF ReadTyped
  <2>4. QED
    BY <1>2, <2>2, <2>3 DEF ReadTyped
<1>7. \A i : RowValid(u, i) \in BOOLEAN
  BY DEF RowValid
<1>8. n <= m
  BY <1>1, <1>2
<1> HIDE DEF m
<1>9. \/ \E b \in BOOLEAN : checked' = [checked EXCEPT ![u] = Append(checked[u], b)]
      \/ checked' = [checked EXCEPT ![u] = [k \in DOMAIN file[u].rows |-> RowValid(u, k)]]
  BY <1>7 DEF Validate
<1>10. CASE \E b \in BOOLEAN : checked' = [checked EXCEPT ![u] = Append(checked[u], b)]
  BY <1>3, <1>6, <1>8, <1>10
<1>11. CASE checked' = [checked EXCEPT ![u] = [k \in DOMAIN file[u].rows |-> RowValid(u, k)]]
  <2> DEFINE g == [k \in DOMAIN file[u].rows |-> RowValid(u, k)]
  <2>1. g \in Seq(BOOLEAN) /\ Len(g) <= m
    BY <1>1, <1>4, <1>5
  <2> HIDE DEF g
  <2>2. checked' = [checked EXCEPT ![u] = g]
    BY <1>11 DEF g
  <2>3. QED
    BY <1>6, <2>1, <2>2
<1>12. QED
  BY <1>9, <1>10, <1>11

\* The record of line i of the current file.
RecordOf(u, i) == [table |-> file[u].table, key |-> Line(u, i).key,
                   upload |-> u, file |-> cur[u], line |-> i]
Added(u) == {RecordOf(u, i) : i \in AddedLines(u)}

(***************************************************************************)
(* The rows an import adds have distinct lines, so there are as many of    *)
(* them as it counts.                                                      *)
(***************************************************************************)
LEMMA AddedAsCounted ==
  ASSUME TypeInv, NEW u \in Uploads, step[u] = "add"
  PROVE  /\ Added(u) \subseteq Record
         /\ Cardinality(CountedLines(u)) \in Nat
         /\ Cardinality(Added(u)) = Cardinality(CountedLines(u))
<1> DEFINE m == Len(file[u].rows)
           L == AddedLines(u)
<1>1. /\ file[u].rows \in Seq(Row) /\ m \in Nat /\ DOMAIN file[u].rows = 1 .. m
      /\ cur[u] \in 1 .. MaxFiles
  BY RowsTyped, TypeParts DEF ReadTyped, ImportTyped
<1>2. L \subseteq 1 .. m
  BY <1>1 DEF AddedLines
<1>3. IsFiniteSet(1 .. m)
  BY <1>1, FS_Interval
<1>4. IsFiniteSet(L) /\ Cardinality(L) \in Nat
  BY <1>2, <1>3, FS_Subset, FS_CardinalityType
<1>5. file[u] \in Files \/ L = {}
  BY <1>1, <1>2, TypeParts DEF ReadTyped, NoFile, AddedLines
<1>6. ASSUME NEW i \in L PROVE RecordOf(u, i) \in Record
  <2>1. file[u] \in Files /\ i \in 1 .. m /\ i \in Nat
    BY <1>1, <1>2, <1>5
  <2>2. Line(u, i) \in Row /\ file[u].table \in Tables
    BY <1>1, <2>1, RowsTyped DEF Line
  <2>3. Line(u, i).key \in Keys
    BY <2>2 DEF Row
  <2>4. QED
    BY <1>1, <2>1, <2>2, <2>3 DEF RecordOf, Record
<1> DEFINE g == [i \in L |-> RecordOf(u, i)]
<1>7. \A i \in L, k \in L : g[i] = g[k] => i = k
  BY DEF RecordOf
<1>8. Added(u) = {g[i] : i \in L}
  BY DEF Added
<1>9. ExistsBijection(L, Added(u))
  <2>1. g \in [L -> Added(u)]
    BY <1>8
  <2>2. \A y \in Added(u) : \E i \in L : g[i] = y
    BY <1>8
  <2> HIDE DEF g
  <2>3. g \in Injection(L, Added(u))
    BY <1>7, <2>1 DEF Injection, IsInjective
  <2>4. g \in Surjection(L, Added(u))
    BY <2>1, <2>2 DEF Surjection
  <2>5. QED
    BY <2>3, <2>4 DEF Bijection, ExistsBijection
<1> HIDE DEF L
<1>10. Cardinality(Added(u)) = Cardinality(L)
  BY <1>4, <1>9, FS_Bijection
<1>11. QED
  <2>1. Added(u) \subseteq Record
    BY <1>6 DEF Added, L
  <2>2. CountedLines(u) = L
    BY DEF CountedLines, L
  <2>3. QED
    BY <1>4, <1>10, <2>1, <2>2

\* No step of an upload or of a cancellation breaks the types.
LEMMA NextTypeInv == TypeInv /\ [Next]_vars => TypeInv'
<1> SUFFICES ASSUME TypeInv, [Next]_vars PROVE TypeInv'
  OBVIOUS
<1> USE BulkImportAssumption
<1>t. CancellationTypeOK /\ ImportTyped /\ DataTyped /\ ReadTyped /\ RestTyped
  BY TypeParts
<1>q. ASSUME CancellationTypeOK', ImportTyped', DataTyped', ReadTyped', RestTyped'
      PROVE  TypeInv'
  BY <1>q, TypeParts, PTL
<1>1. ASSUME NEW u \in Uploads, Receive(u) PROVE TypeInv'
  <2>1. PICK o \in Option, n \in 1 .. MaxFiles :
          /\ o.path # "multiple" => n = 1
          /\ options' = [options EXCEPT ![u] = o] /\ size' = [size EXCEPT ![u] = n]
          /\ IF o.path = "multiple"
               THEN TakeFile(u, "precheck") /\ UNCHANGED cancellationVars
               ELSE TakeFile(u, "validate") /\ CreateJobCancellation(u, u)
    BY <1>1 DEF Receive
  <2>2. step[u] = "new" /\ UNCHANGED <<cur, outcome, processed, answer, dbVars, faults>>
    BY <1>1 DEF Receive
  <2>3. CancellationTypeOK' /\ ReadTyped'
    BY <1>t, <2>1, PartsKept, TokensTyped, ReadsTyped
  <2>4. ImportTyped'
    <3>1. step' = [step EXCEPT ![u] = IF o.path = "multiple" THEN "precheck" ELSE "validate"]
      BY <2>1 DEF TakeFile, Goto
    <3>2. step' \in [Uploads -> Steps]
      BY <1>t, <3>1 DEF ImportTyped, Steps
    <3>3. options' \in [Uploads -> Option] /\ size' \in [Uploads -> 1 .. MaxFiles]
      BY <1>t, <2>1 DEF ImportTyped
    <3>4. ASSUME NEW v \in Uploads PROVE PlaceOK(v)'
      <4>1. CASE v = u
        <5>1. /\ Path(v)' = o.path /\ size'[v] = n /\ cur'[v] = 1
              /\ step'[v] = IF o.path = "multiple" THEN "precheck" ELSE "validate"
          BY <1>t, <2>1, <2>2, <3>1, <4>1 DEF ImportTyped, PlaceOK, Path
        <5>2. QED
          BY <2>1, <5>1 DEF PlaceOK, HasToken
      <4>2. CASE v # u
        <5>1. /\ Path(v)' = Path(v) /\ size'[v] = size[v] /\ cur'[v] = cur[v]
              /\ step'[v] = step[v] /\ outcome'[v] = outcome[v]
          BY <1>t, <2>1, <2>2, <3>1, <4>2 DEF ImportTyped, Path
        <5>2. QED
          BY <1>t, <5>1 DEF ImportTyped, PlaceOK, HasToken
      <4>3. QED
        BY <4>1, <4>2
    <3>5. QED
      BY <1>t, <2>2, <3>2, <3>3, <3>4 DEF ImportTyped
  <2>5. DataTyped' /\ RestTyped'
    BY <1>t, <2>2, PartsKept
  <2>6. QED
    BY <1>q, <2>3, <2>4, <2>5
<1>2. ASSUME NEW u \in Uploads, PreCheck(u) \/ EndValidation(u) \/ Commit(u) \/ Abort(u)
      PROVE TypeInv'
  <2>1. /\ UNCHANGED <<cancellationVars, options, size, cur, file, checked, processed,
                       answer, dbVars>>
        /\ UNCHANGED faults \/ Fault
        /\ step[u] # "new"
        /\ \/ FileFails(u)
           \/ \E s \in {"validate", "add", "history"} : Goto(u, s) /\ UNCHANGED outcome
    BY <1>2 DEF PreCheck, EndValidation, Commit, Abort
  <2>2. CASE FileFails(u)
    <3>1. ImportTyped'
      BY <1>t, <2>1, <2>2, FileEnds, EndsTyped DEF Verdict
    <3>2. QED
      BY <1>t, <1>q, <2>1, <3>1, PartsKept
  <2>3. CASE \E s \in {"validate", "add", "history"} : Goto(u, s) /\ UNCHANGED outcome
    <3>1. PICK s \in {"validate", "add", "history"} : Goto(u, s) /\ UNCHANGED outcome
      BY <2>3
    <3>2. s \in Steps /\ s \notin {"new", "next", "precheck", "finish", "release", "activity"}
      BY DEF Steps
    <3>3. ImportTyped'
      BY <1>t, <2>1, <3>1, <3>2, StepTyped DEF Goto
    <3>4. QED
      BY <1>t, <1>q, <2>1, <3>3, PartsKept
  <2>4. QED
    BY <2>1, <2>2, <2>3
<1>3. ASSUME NEW u \in Uploads, Validate(u) PROVE TypeInv'
  <2>1. /\ UNCHANGED <<cancellationVars, options, size, cur, step, outcome, processed,
                       answer, dbVars>>
        /\ UNCHANGED faults \/ Fault
    BY <1>3 DEF Validate
  <2>2. ReadTyped'
    BY <1>3, <1>t, VerdictsTyped
  <2>3. QED
    BY <1>t, <1>q, <2>1, <2>2, PartsKept
<1>4. ASSUME NEW u \in Uploads, AddRows(u) PROVE TypeInv'
  <2>1. /\ UNCHANGED <<cancellationVars, options, size, cur, file, checked, outcome,
                       answer, rows, histories, faults>>
        /\ step[u] = "add" /\ step' = [step EXCEPT ![u] = "commit"]
        /\ processed' = [processed EXCEPT ![u][cur[u]] = Cardinality(CountedLines(u))]
        /\ tracked' = [tracked EXCEPT ![u].data = @ \cup Added(u)]
    BY <1>4 DEF AddRows, Goto, Added, RecordOf
  <2>2. Added(u) \subseteq Record /\ Cardinality(CountedLines(u)) \in Nat
    BY <2>1, AddedAsCounted
  <2>3. DataTyped'
    <3>1. tracked[u] \in ContextType
      BY <1>t DEF DataTyped
    <3>2. [tracked[u] EXCEPT !.data = tracked[u].data \cup Added(u)] \in ContextType
      BY <2>2, <3>1 DEF ContextType
    <3>3. tracked' = [tracked EXCEPT ![u] = [tracked[u] EXCEPT !.data = tracked[u].data \cup Added(u)]]
      BY <2>1
    <3>4. QED
      BY <1>t, <2>1, <3>2, <3>3 DEF DataTyped
  <2>4. RestTyped'
    <3>1. cur[u] \in 1 .. MaxFiles
      BY <1>t DEF ImportTyped
    <3>2. [processed[u] EXCEPT ![cur[u]] = Cardinality(CountedLines(u))] \in [1 .. MaxFiles -> Nat]
      BY <1>t, <2>2, <3>1 DEF RestTyped
    <3>3. processed' \in [Uploads -> [1 .. MaxFiles -> Nat]]
      BY <1>t, <2>1, <3>2 DEF RestTyped
    <3>4. QED
      BY <1>t, <2>1, <3>3 DEF RestTyped
  <2>5. ImportTyped'
    BY <1>t, <2>1, StepTyped DEF Steps
  <2>6. QED
    BY <1>t, <1>q, <2>1, <2>3, <2>4, <2>5, PartsKept
<1>5. ASSUME NEW u \in Uploads, LogHistory(u) \/ LogActivity(u) PROVE TypeInv'
  <2> DEFINE row == {[upload |-> u, file |-> cur[u], processed |-> processed[u][cur[u]]]}
  <2>1. /\ UNCHANGED <<cancellationVars, options, size, cur, file, checked, processed, answer>>
        /\ step[u] # "new"
        /\ \E extra \in {row, {}} :
             \/ SaveChanges(u, extra) /\ UNCHANGED faults
             \/ SaveChangesFails(u, extra)
        /\ \/ FileSucceeds(u) \/ FileFails(u)
           \/ Goto(u, "activity") /\ UNCHANGED outcome /\ Path(u) # "queued"
    BY <1>5 DEF LogHistory, LogActivity
  <2>2. row \in SUBSET History /\ {} \in SUBSET History
    BY <1>t DEF ImportTyped, RestTyped, History
  <2> HIDE DEF row
  <2>3. DataTyped' /\ RestTyped'
    BY <1>t, <2>1, <2>2, SavesTyped, PartsKept DEF SaveChangesFails
  <2>4. ImportTyped'
    <3>1. CASE FileSucceeds(u) \/ FileFails(u)
      BY <1>t, <2>1, <3>1, FileEnds, EndsTyped DEF Verdict
    <3>2. CASE Goto(u, "activity") /\ UNCHANGED outcome /\ Path(u) # "queued"
      BY <1>t, <2>1, <3>2, StepTyped DEF Goto, Steps
    <3>3. QED
      BY <2>1, <3>1, <3>2
  <2>5. QED
    BY <1>t, <1>q, <2>1, <2>3, <2>4, PartsKept
<1>6. ASSUME NEW u \in Uploads, NextFile(u) PROVE TypeInv'
  <2>1. /\ step[u] = "next" /\ cur' = [cur EXCEPT ![u] = @ + 1]
        /\ step' = [step EXCEPT ![u] = "precheck"]
        /\ UNCHANGED <<cancellationVars, options, size, outcome, processed, answer, dbVars,
                       faults>>
    BY <1>6 DEF NextFile, TakeFile, Goto
  <2>2. ReadTyped'
    BY <1>6, <1>t, ReadsTyped DEF NextFile
  <2>3. ImportTyped'
    <3>1. /\ cur[u] \in 1 .. MaxFiles /\ size[u] \in 1 .. MaxFiles
          /\ cur[u] < size[u] /\ ~HasToken(u)
      BY <1>t, <2>1 DEF ImportTyped, PlaceOK
    <3>2. cur' \in [Uploads -> 1 .. MaxFiles] /\ step' \in [Uploads -> Steps]
      BY <1>t, <2>1, <3>1 DEF ImportTyped, Steps
    <3>3. ASSUME NEW v \in Uploads PROVE PlaceOK(v)'
      <4>1. Path(v)' = Path(v) /\ HasToken(v)' = HasToken(v)
        BY <2>1 DEF Path, HasToken
      <4>2. CASE v = u
        BY <1>t, <2>1, <3>1, <4>1, <4>2 DEF ImportTyped, PlaceOK
      <4>3. CASE v # u
        BY <1>t, <2>1, <4>1, <4>3 DEF ImportTyped, PlaceOK
      <4>4. QED
        BY <4>2, <4>3
    <3>4. QED
      BY <1>t, <2>1, <3>2, <3>3 DEF ImportTyped
  <2>4. QED
    BY <1>t, <1>q, <2>1, <2>2, <2>3, PartsKept
<1>7. ASSUME NEW u \in Uploads, Finish(u) \/ Release(u) PROVE TypeInv'
  <2>1. /\ UNCHANGED cancellationVars \/ RemoveJob(u)
        /\ \/ SaveChanges(u, {})
           \/ tracked' = [tracked EXCEPT ![u] = Nothing] /\ UNCHANGED <<rows, histories>>
        /\ \E b \in {"success", "error"} : answer' = [answer EXCEPT ![u] = b]
        /\ UNCHANGED faults \/ Fault
        /\ EndRequest(u)
        /\ UNCHANGED <<options, size, cur, outcome, processed>>
    BY <1>7 DEF Finish, Release
  <2>2. CancellationTypeOK'
    BY <1>t, <2>1, TokensTyped, PartsKept
  <2>3. DataTyped'
    BY <1>t, <2>1, SavesTyped
  <2>4. ImportTyped'
    <3>1. step' = [step EXCEPT ![u] = "done"]
      BY <2>1 DEF EndRequest, Goto
    <3>2. QED
      BY <1>t, <2>1, <3>1, StepTyped DEF Steps
  <2>5. ReadTyped'
    BY <1>t, <2>1, ReadsTyped
  <2>6. RestTyped'
    BY <1>t, <2>1 DEF RestTyped, Fault
  <2>7. QED
    BY <1>q, <2>2, <2>3, <2>4, <2>5, <2>6
<1>8. ASSUME NEW u \in Uploads, CancelUpload(u) PROVE TypeInv'
  <2>1. UNCHANGED <<importVars, dbVars, faults>>
    BY <1>8 DEF CancelUpload
  <2>2. QED
    BY <1>8, <1>t, <1>q, <2>1, TokensTyped, PartsKept DEF importVars
<1>9. CASE UNCHANGED vars
  BY <1>9, <1>t, <1>q, PartsKept DEF vars, importVars
<1>10. QED
  BY <1>1, <1>2, <1>3, <1>4, <1>5, <1>6, <1>7, <1>8, <1>9 DEF Next, Advance

(***************************************************************************)
(* Every variable of the import stays in its type, on all three paths and  *)
(* for any files: what a context tracks are rows of files it was sent.     *)
(***************************************************************************)
THEOREM TypeCorrect == Spec => []TypeOK
<1>1. TypeInv => TypeOK
  BY DEF TypeInv
<1>2. QED
  BY <1>1, InitTypeInv, NextTypeInv, PTL DEF Spec

-----------------------------------------------------------------------------
\* The records of file f of upload u among those of S.
Of(S, u, f) == {x \in S : x.upload = u /\ x.file = f}

\* The import of the current file has not added its rows yet.
Before == {"new", "precheck", "validate", "add"}
\* It has, and is under way.
Underway == {"commit", "history", "activity"}

\* File f of upload u has added no row yet.
Untouched(u, f) == f > cur[u] \/ (f = cur[u] /\ step[u] \in Before)

\* All rows a file counts are in the database, and no more are to come.
Saved(u, f) == /\ Of(tracked[u].data, u, f) = {}
               /\ Cardinality(RowsOf(u, f)) = processed[u][f]

\* All of them are still in the change tracker.
Pending(u, f) == /\ RowsOf(u, f) = {}
                 /\ Cardinality(Of(tracked[u].data, u, f)) = processed[u][f]

(***************************************************************************)
(* A file has left nothing, or what it counts is in one piece, in the      *)
(* change tracker or in the database.                                      *)
(***************************************************************************)
FileWhole(u, f) ==
  /\ \/ Saved(u, f) \/ Pending(u, f)
     \/ RowsOf(u, f) = {} /\ Of(tracked[u].data, u, f) = {}
  /\ Untouched(u, f) => /\ RowsOf(u, f) = {} /\ Of(tracked[u].data, u, f) = {}
                        /\ outcome[u][f] = "none"
                        /\ Of(histories \cup tracked[u].history, u, f) = {}
  /\ f = cur[u] /\ step[u] \in Underway =>
       /\ Saved(u, f) \/ Pending(u, f)
       /\ outcome[u][f] = "none"
  /\ outcome[u][f] = "ok" /\ Path(u) # "queued" => Saved(u, f)
  /\ Of(histories, u, f) # {} => Saved(u, f)
  /\ Of(tracked[u].history, u, f) # {} => Saved(u, f) \/ Pending(u, f)
  /\ \A h \in Of(histories \cup tracked[u].history, u, f) : h.processed = processed[u][f]

(***************************************************************************)
(* A context tracks rows of its own upload, and where there is only one    *)
(* import the history row is written with the rows.                        *)
(***************************************************************************)
ContextOK(u) ==
  /\ \A x \in tracked[u].data \cup tracked[u].history : x.upload = u
  /\ HasToken(u) /\ step[u] = "activity" =>
       Of(histories \cup tracked[u].history, u, cur[u]) # {}
  /\ HasToken(u) => \A x \in rows : x.upload = u => Of(histories, u, x.file) # {}

(***************************************************************************)
(* Without database errors nothing is left in the change tracker between   *)
(* the files, so a verdict still holds when the rows are added.            *)
(***************************************************************************)
Taken(u, t, k) == \E x \in rows : x.upload = u /\ x.table = t /\ x.key = k
SeesOwn(u) ==
  /\ tracked[u].data # {} => step[u] \in {"commit", "history", "release"}
  /\ step[u] \in {"precheck", "validate", "add"} => \A i \in DOMAIN checked[u] :
       checked[u][i] => ~Taken(u, file[u].table, Line(u, i).key)
  /\ step[u] = "add" => DOMAIN checked[u] = DOMAIN file[u].rows
  /\ \A x, y \in rows \cup tracked[u].data :
       x.upload = u /\ y.upload = u /\ x.table = y.table /\ x.key = y.key => x.file = y.file

ImportInv ==
  /\ \A u \in Uploads : ContextOK(u) /\ \A f \in 1 .. MaxFiles : FileWhole(u, f)
  /\ faults = 0 => \A u \in Uploads : SeesOwn(u)

\* ImportInv of one upload.
UploadInv(u) == /\ ContextOK(u) /\ \A f \in 1 .. MaxFiles : FileWhole(u, f)
                /\ faults = 0 => SeesOwn(u)

\* At the start every file is one that has left nothing.
LEMMA InitImportInv == Init => ImportInv
<1> SUFFICES ASSUME Init, NEW u \in Uploads PROVE UploadInv(u)
  BY DEF ImportInv, UploadInv
<1>1. /\ rows = {} /\ histories = {} /\ tracked[u].data = {} /\ tracked[u].history = {}
      /\ cur[u] = 1 /\ step[u] = "new" /\ checked[u] = << >>
      /\ \A f \in 1 .. MaxFiles : outcome[u][f] = "none"
  BY DEF Init, Nothing
<1>2. ContextOK(u) /\ SeesOwn(u)
  BY <1>1 DEF ContextOK, SeesOwn
<1>3. ASSUME NEW f \in 1 .. MaxFiles PROVE FileWhole(u, f)
  BY <1>1, <1>3 DEF FileWhole, RowsOf, Of, Untouched, Before, Underway
<1>4. QED
  BY <1>2, <1>3 DEF UploadInv

(***************************************************************************)
(* A file stays whole in a step that leaves its records alone, adds no     *)
(* success and does not set the file back to before its rows were added or *)
(* to being under way.                                                     *)
(***************************************************************************)
LEMMA FileKept ==
  ASSUME NEW u, NEW f, FileWhole(u, f),
         RowsOf(u, f)' = RowsOf(u, f), Of(histories, u, f)' = Of(histories, u, f),
         Of(tracked[u].data, u, f)' = Of(tracked[u].data, u, f),
         Of(tracked[u].history, u, f)' = Of(tracked[u].history, u, f),
         processed'[u][f] = processed[u][f],
         outcome'[u][f] = outcome[u][f] \/ outcome'[u][f] = "failed",
         Path(u)' = Path(u) \/ outcome'[u][f] = "none",
         Untouched(u, f)' => Untouched(u, f) /\ outcome'[u][f] = outcome[u][f],
         f = cur'[u] /\ step'[u] \in Underway =>
           f = cur[u] /\ step[u] \in Underway /\ outcome'[u][f] = outcome[u][f]
  PROVE  FileWhole(u, f)'
<1>1. Of(histories \cup tracked[u].history, u, f)
        = Of(histories, u, f) \cup Of(tracked[u].history, u, f)
  BY DEF Of
<1>2. Of(histories \cup tracked[u].history, u, f)'
        = Of(histories, u, f)' \cup Of(tracked[u].history, u, f)'
  BY DEF Of
<1>3. /\ Of(histories \cup tracked[u].history, u, f)'
            = Of(histories \cup tracked[u].history, u, f)
      /\ Saved(u, f)' <=> Saved(u, f)
      /\ Pending(u, f)' <=> Pending(u, f)
  BY <1>1, <1>2 DEF Saved, Pending
<1>4. QED
  BY <1>3 DEF FileWhole, Underway

(***************************************************************************)
(* SaveChangesAsync turns what is pending into what is saved.  The history *)
(* row that comes with it counts a file that is under way, and so may the  *)
(* success that comes after it.                                            *)
(***************************************************************************)
LEMMA FileSaved ==
  ASSUME NEW u \in Uploads, NEW f, NEW extra, FileWhole(u, f), SaveChanges(u, extra),
         cur[u] \in Nat,
         tracked \in [Uploads -> ContextType],
         \/ Of(extra, u, f) = {}
         \/ f = cur[u] /\ step[u] \in Underway,
         \A h \in Of(extra, u, f) : h.processed = processed[u][f],
         processed'[u][f] = processed[u][f], cur'[u] = cur[u], Path(u)' = Path(u),
         \/ outcome'[u][f] \in {outcome[u][f], "failed"}
         \/ f = cur[u] /\ step[u] \in Underway,
         Untouched(u, f)' => Untouched(u, f) /\ outcome'[u][f] = outcome[u][f],
         f = cur'[u] /\ step'[u] \in Underway =>
           step[u] \in Underway /\ outcome'[u][f] = outcome[u][f]
  PROVE  FileWhole(u, f)'
<1>1. /\ RowsOf(u, f)' = RowsOf(u, f) \cup Of(tracked[u].data, u, f)
      /\ Of(histories, u, f)'
           = Of(histories \cup tracked[u].history, u, f) \cup Of(extra, u, f)
      /\ Of(histories, u, f) \cup Of(tracked[u].history, u, f)
           = Of(histories \cup tracked[u].history, u, f)
  BY DEF SaveChanges, RowsOf, Of
<1>2. tracked'[u].data = {} /\ tracked'[u].history = {}
  BY DEF SaveChanges, Nothing
<1>3. Of(tracked[u].data, u, f)' = {} /\ Of(tracked[u].history, u, f)' = {}
  BY <1>2 DEF Of
<1>4. Of(histories \cup tracked[u].history, u, f)' = Of(histories, u, f)'
  BY <1>2 DEF Of
<1>5. Saved(u, f) \/ Pending(u, f) => Saved(u, f)'
  BY <1>1, <1>3 DEF Saved, Pending
<1>6. f = cur[u] /\ step[u] \in Underway => Saved(u, f)'
  BY <1>5 DEF FileWhole
<1>7. Of(histories, u, f)' # {} => Saved(u, f)'
  BY <1>1, <1>5, <1>6 DEF FileWhole
<1>8. /\ \/ Saved(u, f)'
         \/ RowsOf(u, f)' = {} /\ Of(tracked[u].data, u, f)' = {}
      /\ outcome'[u][f] = "ok" /\ Path(u)' # "queued" => Saved(u, f)'
  BY <1>1, <1>3, <1>5, <1>6 DEF FileWhole
<1>9. Untouched(u, f)' => /\ RowsOf(u, f)' = {}
                          /\ outcome'[u][f] = "none"
                          /\ Of(histories, u, f)' = {}
  <2>1. ASSUME Untouched(u, f)' PROVE Of(extra, u, f) = {}
    <3>1. Untouched(u, f)
      BY <2>1
    <3>2. ~(f = cur[u] /\ step[u] \in Underway)
      BY <3>1 DEF Untouched, Before, Underway
    <3>3. QED
      BY <3>2
  <2>2. QED
    BY <1>1, <2>1 DEF FileWhole
<1>10. \A h \in Of(histories, u, f)' : h.processed = processed'[u][f]
  BY <1>1 DEF FileWhole
<1>11. f = cur'[u] /\ step'[u] \in Underway => Saved(u, f)' /\ outcome'[u][f] = "none"
  BY <1>6 DEF FileWhole
<1>12. QED
  BY <1>3, <1>4, <1>7, <1>8, <1>9, <1>10, <1>11 DEF FileWhole

\* A context that is disposed of takes what is pending with it.
LEMMA FileDropped ==
  ASSUME NEW u \in Uploads, NEW f, FileWhole(u, f),
         tracked \in [Uploads -> ContextType], tracked' = [tracked EXCEPT ![u] = Nothing],
         UNCHANGED <<rows, histories, options, processed, outcome, cur>>,
         step[u] \notin Before, step'[u] = "done"
  PROVE  FileWhole(u, f)'
<1>1. tracked'[u].data = {} /\ tracked'[u].history = {}
  BY DEF Nothing
<1>2. /\ RowsOf(u, f)' = RowsOf(u, f) /\ Path(u)' = Path(u)
      /\ Of(tracked[u].data, u, f)' = {} /\ Of(tracked[u].history, u, f)' = {}
      /\ Of(histories \cup tracked[u].history, u, f)' = Of(histories, u, f)
      /\ Of(histories, u, f)' = Of(histories, u, f)
      /\ Of(histories, u, f) \subseteq Of(histories \cup tracked[u].history, u, f)
  BY <1>1 DEF RowsOf, Of, Path
<1>3. Saved(u, f) => Saved(u, f)'
  BY <1>2 DEF Saved
<1>4. Untouched(u, f)' => Untouched(u, f)
  BY DEF Untouched, Before
<1>5. step'[u] \notin Underway
  BY DEF Underway
<1>6. QED
  BY <1>2, <1>3, <1>4, <1>5 DEF FileWhole, Pending

-----------------------------------------------------------------------------
(* One step of the import.                                                 *)

OwnRows(u) == {x \in rows : x.upload = u}
OwnHistories(u) == {h \in histories : h.upload = u}
ViewOf(u) == <<tracked[u], cur[u], step[u], outcome[u], processed[u], Path(u), file[u],
               checked[u], OwnRows(u), OwnHistories(u)>>

\* What an upload is judged by is its own records and its own state.
LEMMA UploadKept ==
  ASSUME NEW u, UploadInv(u), ViewOf(u)' = ViewOf(u), faults' = 0 => faults = 0
  PROVE  UploadInv(u)'
<1>1. /\ tracked'[u] = tracked[u] /\ cur'[u] = cur[u] /\ step'[u] = step[u]
      /\ outcome'[u] = outcome[u] /\ processed'[u] = processed[u] /\ file'[u] = file[u]
      /\ checked'[u] = checked[u]
      /\ Path(u)' = Path(u) /\ OwnRows(u)' = OwnRows(u)
      /\ OwnHistories(u)' = OwnHistories(u)
  BY DEF ViewOf
<1>2. \A f : RowsOf(u, f)' = RowsOf(u, f) /\ Of(histories, u, f)' = Of(histories, u, f)
  <2>1. \A f : /\ RowsOf(u, f) = {x \in OwnRows(u) : x.file = f}
               /\ Of(histories, u, f) = {x \in OwnHistories(u) : x.file = f}
    BY DEF RowsOf, OwnRows, OwnHistories, Of
  <2>2. \A f : /\ RowsOf(u, f)' = {x \in OwnRows(u)' : x.file = f}
               /\ Of(histories, u, f)' = {x \in OwnHistories(u)' : x.file = f}
    BY DEF RowsOf, OwnRows, OwnHistories, Of
  <2>3. QED
    BY <1>1, <2>1, <2>2
<1>3. ASSUME NEW f \in 1 .. MaxFiles PROVE FileWhole(u, f)'
  <2>1. /\ Of(tracked[u].data, u, f)' = Of(tracked[u].data, u, f)
        /\ Of(tracked[u].history, u, f)' = Of(tracked[u].history, u, f)
        /\ Untouched(u, f)' => Untouched(u, f)
    BY <1>1 DEF Of, Untouched
  <2>2. FileWhole(u, f)
    BY DEF UploadInv
  <2>3. QED
    BY <1>1, <1>2, <2>1, <2>2, FileKept
<1>4. ContextOK(u)'
  <2>1. \A x : x \in rows' /\ x.upload = u <=> x \in rows /\ x.upload = u
    BY <1>1 DEF OwnRows
  <2>2. /\ Of(histories \cup tracked[u].history, u, cur[u])
             = Of(histories, u, cur[u]) \cup Of(tracked[u].history, u, cur[u])
        /\ Of(histories \cup tracked[u].history, u, cur[u])'
             = Of(histories, u, cur[u])' \cup Of(tracked[u].history, u, cur[u])'
        /\ Of(tracked[u].history, u, cur[u])' = Of(tracked[u].history, u, cur[u])
        /\ Of(histories, u, cur[u])' = Of(histories, u, cur[u])
    BY <1>1, <1>2 DEF Of
  <2>3. HasToken(u)' <=> HasToken(u)
    BY <1>1 DEF HasToken
  <2>4. ContextOK(u)
    BY DEF UploadInv
  <2>5. (\A x \in tracked[u].data \cup tracked[u].history : x.upload = u)'
    BY <1>1, <2>4 DEF ContextOK
  <2>6. HasToken(u)' /\ step'[u] = "activity" =>
          Of(histories \cup tracked[u].history, u, cur[u])' # {}
    BY <1>1, <2>2, <2>3, <2>4 DEF ContextOK
  <2>7. HasToken(u)' => \A x \in rows' : x.upload = u => Of(histories, u, x.file)' # {}
    <3>1. HasToken(u) => \A x \in rows : x.upload = u => Of(histories, u, x.file) # {}
      BY <2>4 DEF ContextOK
    <3>2. \A f : Of(histories', u, f) = Of(histories, u, f)
      BY <1>2
    <3>3. QED
      BY <2>1, <2>3, <3>1, <3>2
  <2>8. QED
    BY <2>5, <2>6, <2>7 DEF ContextOK
<1>5. SeesOwn(u) => SeesOwn(u)'
  <2>1. \A x : x \in rows' /\ x.upload = u <=> x \in rows /\ x.upload = u
    BY <1>1 DEF OwnRows
  <2>2. \A t, k : Taken(u, t, k)' <=> Taken(u, t, k)
    BY <2>1 DEF Taken
  <2>3. QED
    BY <1>1, <2>1, <2>2 DEF SeesOwn, Line
<1>6. QED
  BY <1>3, <1>4, <1>5 DEF UploadInv

\* A step of one upload touches neither the state nor the records of another.
LEMMA OthersView ==
  ASSUME TypeInv, ImportInv, NEW u \in Uploads, NEW v \in Uploads, v # u,
         Receive(u) \/ Advance(u)
  PROVE  ViewOf(v)' = ViewOf(v) /\ options'[v] = options[v] /\ (faults' = 0 => faults = 0)
<1>1. ContextOK(u)
  BY DEF ImportInv
<1>t. ImportTyped /\ DataTyped /\ ReadTyped /\ RestTyped
  BY TypeParts
<1>2. /\ faults' = 0 => faults = 0
      /\ cur'[v] = cur[v] /\ step'[v] = step[v] /\ outcome'[v] = outcome[v]
      /\ processed'[v] = processed[v] /\ options'[v] = options[v]
      /\ file'[v] = file[v] /\ checked'[v] = checked[v] /\ tracked'[v] = tracked[v]
  <2>1. faults' = 0 => faults = 0
    BY <1>t DEF RestTyped, Receive, Advance, PreCheck, Validate, EndValidation, AddRows,
      Commit, Abort, LogHistory, LogActivity, NextFile, Finish, Release, Fault,
      SaveChangesFails
  <2>2. cur'[v] = cur[v] /\ step'[v] = step[v] /\ outcome'[v] = outcome[v]
    BY <1>t DEF ImportTyped, Receive, Advance, PreCheck, Validate, EndValidation, AddRows,
      Commit, Abort, LogHistory, LogActivity, NextFile, Finish, Release, TakeFile,
      FileFails, FileSucceeds, EndRequest, Goto
  <2>3. processed'[v] = processed[v] /\ options'[v] = options[v]
    BY <1>t DEF ImportTyped, RestTyped, Receive, Advance, PreCheck, Validate,
      EndValidation, AddRows, Commit, Abort, LogHistory, LogActivity, NextFile, Finish,
      Release
  <2>4. file'[v] = file[v] /\ checked'[v] = checked[v]
    BY <1>t DEF ReadTyped, Receive, Advance, PreCheck, Validate, EndValidation, AddRows,
      Commit, Abort, LogHistory, LogActivity, NextFile, Finish, Release, TakeFile,
      EndRequest
  <2>5. tracked'[v] = tracked[v]
    BY <1>t DEF DataTyped, Receive, Advance, PreCheck, Validate, EndValidation, AddRows,
      Commit, Abort, LogHistory, LogActivity, NextFile, Finish, Release, dbVars,
      SaveChanges, SaveChangesFails
  <2>6. QED
    BY <2>1, <2>2, <2>3, <2>4, <2>5
<1>3. /\ rows' \in {rows, rows \cup tracked[u].data}
      /\ \A h \in histories' : h \in histories \/ h.upload = u
      /\ histories \subseteq histories'
  BY <1>1 DEF ContextOK, Receive, Advance, PreCheck, Validate, EndValidation, AddRows,
    Commit, Abort, LogHistory, LogActivity, NextFile, Finish, Release, dbVars,
    SaveChanges, SaveChangesFails
<1>4. OwnRows(v)' = OwnRows(v) /\ OwnHistories(v)' = OwnHistories(v)
  BY <1>1, <1>3 DEF OwnRows, OwnHistories, ContextOK
<1>5. ViewOf(v)' = ViewOf(v)
  BY <1>2, <1>4 DEF ViewOf, Path
<1>6. QED
  BY <1>2, <1>5

\* So what holds of the other one's records stays.
LEMMA OthersKept ==
  ASSUME TypeInv, ImportInv, NEW u \in Uploads, NEW v \in Uploads, v # u,
         Receive(u) \/ Advance(u)
  PROVE  UploadInv(v)'
<1>1. UploadInv(v)
  BY DEF ImportInv, UploadInv
<1>2. QED
  BY <1>1, OthersView, UploadKept

\* The first three parts of SeesOwn, which speak of where the import is.
Settled(u) ==
  /\ tracked[u].data # {} => step[u] \in {"commit", "history", "release"}
  /\ step[u] \in {"precheck", "validate", "add"} => \A i \in DOMAIN checked[u] :
       checked[u][i] => ~Taken(u, file[u].table, Line(u, i).key)
  /\ step[u] = "add" => DOMAIN checked[u] = DOMAIN file[u].rows

(***************************************************************************)
(* A step of an upload that leaves the database and the change trackers    *)
(* alone keeps its records in order, when it goes on as the actions do.    *)
(***************************************************************************)
LEMMA QuietStep ==
  ASSUME ImportInv, NEW u \in Uploads, UNCHANGED <<rows, histories, tracked, processed>>,
         faults' = 0 => faults = 0,
         Path(u)' = Path(u) \/ \A f \in 1 .. MaxFiles : outcome'[u][f] = "none",
         HasToken(u)' => HasToken(u),
         step'[u] # "activity",
         \A f \in 1 .. MaxFiles :
           /\ outcome'[u][f] = outcome[u][f] \/ outcome'[u][f] = "failed"
           /\ Untouched(u, f)' => Untouched(u, f) /\ outcome'[u][f] = outcome[u][f]
           /\ f = cur'[u] /\ step'[u] \in Underway =>
                f = cur[u] /\ step[u] \in Underway /\ outcome'[u][f] = outcome[u][f],
         faults' = 0 /\ SeesOwn(u) => Settled(u)'
  PROVE  UploadInv(u)'
<1>1. /\ ContextOK(u) /\ \A f \in 1 .. MaxFiles : FileWhole(u, f)
      /\ faults = 0 => SeesOwn(u)
  BY DEF ImportInv
<1>2. ContextOK(u)'
  BY <1>1 DEF ContextOK, Of
<1>3. ASSUME NEW f \in 1 .. MaxFiles PROVE FileWhole(u, f)'
  <2>1. /\ RowsOf(u, f)' = RowsOf(u, f) /\ Of(histories, u, f)' = Of(histories, u, f)
        /\ Of(tracked[u].data, u, f)' = Of(tracked[u].data, u, f)
        /\ Of(tracked[u].history, u, f)' = Of(tracked[u].history, u, f)
    BY DEF RowsOf, Of
  <2>2. QED
    BY <1>1, <2>1, FileKept
<1>4. SeesOwn(u) /\ Settled(u)' => SeesOwn(u)'
  BY DEF SeesOwn, Settled
<1>5. QED
  BY <1>1, <1>2, <1>3, <1>4 DEF UploadInv

\* Taking up a request starts with a file without verdicts.
LEMMA ReceiveKeeps ==
  ASSUME TypeInv, ImportInv, NEW u \in Uploads, Receive(u)
  PROVE  UploadInv(u)'
<1>t. ImportTyped /\ DataTyped /\ ReadTyped
  BY TypeParts
<1>1. /\ step[u] = "new" /\ UNCHANGED <<cur, outcome, processed, rows, histories, tracked, faults>>
      /\ step'[u] \in {"precheck", "validate"} /\ checked'[u] = << >>
  BY <1>t DEF Receive, TakeFile, Goto, ImportTyped, ReadTyped, dbVars
<1>2. HasToken(u) /\ \A f \in 1 .. MaxFiles : outcome[u][f] = "none"
  BY <1>t, <1>1 DEF ImportTyped, PlaceOK, HasToken
<1>3. \A f : Untouched(u, f)' => Untouched(u, f)
  BY <1>1 DEF Untouched, Before
<1>4. step'[u] \notin Underway
  BY <1>1 DEF Underway
<1>5. SeesOwn(u) => Settled(u)'
  BY <1>1 DEF SeesOwn, Settled
<1>6. QED
  BY <1>1, <1>2, <1>3, <1>4, <1>5, QuietStep

\* The steps before the rows are added, the commit and a failure.
LEMMA ProgressKeeps ==
  ASSUME TypeInv, ImportInv, NEW u \in Uploads,
         PreCheck(u) \/ EndValidation(u) \/ Commit(u) \/ Abort(u)
  PROVE  UploadInv(u)'
<1>t. ImportTyped /\ DataTyped /\ ReadTyped /\ RestTyped
  BY TypeParts
<1>1. /\ UNCHANGED <<options, cur, file, checked, processed, rows, histories, tracked>>
      /\ faults' = 0 => faults = 0
  BY <1>t DEF PreCheck, EndValidation, Commit, Abort, dbVars, RestTyped, Fault
<1>2. /\ Path(u)' = Path(u) /\ (HasToken(u)' <=> HasToken(u))
      /\ cur[u] \in Nat
  BY <1>1, <1>t DEF Path, HasToken, ImportTyped
<1>3. CASE FileFails(u)
  <2>1. /\ step'[u] \in {"release", "next", "finish"}
        /\ HasToken(u) => step'[u] = "release"
    BY <1>3, <1>t DEF FileFails, Goto, ImportTyped
  <2>2. \A f \in 1 .. MaxFiles :
          /\ outcome'[u][f] = outcome[u][f] \/ outcome'[u][f] = "failed"
          /\ f # cur[u] => outcome'[u][f] = outcome[u][f]
    BY <1>3, <1>t DEF FileFails, ImportTyped
  <2>3. \A f : Untouched(u, f)' => Untouched(u, f) /\ f # cur[u]
    BY <1>1, <1>2, <2>1 DEF Untouched, Before
  <2>4. step'[u] \notin Underway /\ step'[u] # "activity"
    BY <2>1 DEF Underway
  <2>5. faults' = 0 /\ SeesOwn(u) => Settled(u)'
    <3>1. faults' = 0 => step[u] \in {"precheck", "validate"} \/ Cancelled(u)
      <4>1. ~Commit(u)
        BY <1>t, <2>1 DEF Commit, Goto, ImportTyped
      <4>2. QED
        BY <1>t, <4>1 DEF PreCheck, EndValidation, Abort, RestTyped, Fault
    <3>2. faults' = 0 /\ SeesOwn(u) => tracked[u].data = {} \/ step'[u] = "release"
      BY <2>1, <3>1 DEF SeesOwn, Cancelled
    <3>3. QED
      BY <1>1, <2>1, <3>2 DEF Settled
  <2>6. QED
    BY <1>1, <1>2, <2>2, <2>3, <2>4, <2>5, QuietStep
<1>4. CASE ~FileFails(u)
  <2>1. \/ step[u] = "precheck" /\ step'[u] = "validate"
        \/ step[u] = "validate" /\ step'[u] = "add"
        \/ step[u] = "commit" /\ step'[u] = "history"
    BY <1>4, <1>t DEF PreCheck, EndValidation, Commit, Abort, Goto, ImportTyped
  <2>0. UNCHANGED outcome
    BY <1>4 DEF PreCheck, EndValidation, Commit, Abort
  <2>2. \A f : Untouched(u, f)' => Untouched(u, f)
    BY <1>1, <2>1 DEF Untouched, Before
  <2>3. step'[u] \in Underway => step[u] \in Underway
    BY <2>1 DEF Underway
  <2>4. SeesOwn(u) => Settled(u)'
    <3>1. step'[u] = "add" => DOMAIN checked[u] = DOMAIN file[u].rows
      <4>1. /\ checked[u] \in Seq(BOOLEAN) /\ DOMAIN checked[u] = 1 .. Len(checked[u])
            /\ DOMAIN file[u].rows = 1 .. Len(file[u].rows)
        BY <1>t, RowsTyped DEF ReadTyped
      <4>2. step'[u] = "add" => EndValidation(u)
        BY <1>4, <2>1 DEF PreCheck, Commit, Abort
      <4>3. QED
        BY <4>1, <4>2 DEF EndValidation
    <3>2. QED
      BY <1>1, <2>1, <3>1 DEF SeesOwn, Settled, Taken, Line
  <2>5. QED
    BY <1>1, <1>2, <2>0, <2>1, <2>2, <2>3, <2>4, QuietStep
<1>5. QED
  BY <1>3, <1>4

\* A verdict looks at what is committed, so a good one means no row of this upload
\* has the key.
LEMMA ValidateKeeps ==
  ASSUME TypeInv, ImportInv, NEW u \in Uploads, Validate(u)
  PROVE  UploadInv(u)'
<1>t. ImportTyped /\ DataTyped /\ ReadTyped /\ RestTyped
  BY TypeParts
<1> DEFINE n == Len(checked[u]) + 1
<1>1. /\ UNCHANGED <<options, cur, file, step, outcome, processed, rows, histories, tracked>>
      /\ faults' = 0 => faults = 0
      /\ step[u] = "validate"
  BY <1>t DEF Validate, dbVars, RestTyped, Fault
<1>2. /\ Path(u)' = Path(u) /\ (HasToken(u)' <=> HasToken(u))
      /\ \A f : Untouched(u, f)' => Untouched(u, f)
      /\ step'[u] \notin Underway
  BY <1>1 DEF Path, HasToken, Untouched, Underway
<1>3. /\ checked[u] \in Seq(BOOLEAN) /\ Len(checked[u]) \in Nat
      /\ DOMAIN checked[u] = 1 .. Len(checked[u])
  BY <1>t DEF ReadTyped
<1>4. \A i : RowValid(u, i) => ~Taken(u, file[u].table, Line(u, i).key)
  BY DEF RowValid, Taken
<1>5. \/ checked'[u] = [i \in DOMAIN file[u].rows |-> RowValid(u, i)]
      \/ \E b \in BOOLEAN : /\ checked'[u] = Append(checked[u], b)
                            /\ b => RowValid(u, n)
  <2>1. RowValid(u, n) \in BOOLEAN
    BY DEF RowValid
  <2>2. \/ checked' = [checked EXCEPT ![u] = [i \in DOMAIN file[u].rows |-> RowValid(u, i)]]
        \/ \E b \in BOOLEAN : /\ checked' = [checked EXCEPT ![u] = Append(@, b)]
                              /\ b => RowValid(u, n)
    BY <2>1 DEF Validate
  <2>3. QED
    BY <1>t, <2>2 DEF ReadTyped
<1>6. SeesOwn(u) => \A i \in DOMAIN checked'[u] :
        checked'[u][i] => ~Taken(u, file[u].table, Line(u, i).key)
  <2>1. CASE checked'[u] = [i \in DOMAIN file[u].rows |-> RowValid(u, i)]
    BY <1>4, <2>1
  <2>2. CASE \E b \in BOOLEAN : /\ checked'[u] = Append(checked[u], b)
                                /\ b => RowValid(u, n)
    <3>1. PICK b \in BOOLEAN : /\ checked'[u] = Append(checked[u], b)
                               /\ b => RowValid(u, n)
      BY <2>2
    <3>2. /\ DOMAIN checked'[u] = 1 .. n /\ checked'[u][n] = b
          /\ \A i \in 1 .. Len(checked[u]) : checked'[u][i] = checked[u][i]
      BY <1>3, <3>1
    <3>3. ASSUME SeesOwn(u), NEW i \in 1 .. n, checked'[u][i]
          PROVE  ~Taken(u, file[u].table, Line(u, i).key)
      <4>1. CASE i = n
        BY <1>4, <3>1, <3>2, <3>3, <4>1
      <4>2. CASE i # n
        BY <1>1, <1>3, <3>2, <3>3, <4>2 DEF SeesOwn
      <4>3. QED
        BY <4>1, <4>2
    <3>4. QED
      BY <3>2, <3>3
  <2>3. QED
    BY <1>5, <2>1, <2>2
<1>7. SeesOwn(u) => Settled(u)'
  BY <1>1, <1>6 DEF SeesOwn, Settled, Taken, Line
<1>8. QED
  BY <1>1, <1>2, <1>7, QuietStep

\* A later file of the request has added nothing yet.
LEMMA NextFileKeeps ==
  ASSUME TypeInv, ImportInv, NEW u \in Uploads, NextFile(u)
  PROVE  UploadInv(u)'
<1>t. ImportTyped /\ DataTyped /\ ReadTyped
  BY TypeParts
<1>1. /\ step[u] = "next" /\ cur'[u] = cur[u] + 1 /\ step'[u] = "precheck"
      /\ checked'[u] = << >> /\ cur[u] \in Nat
      /\ UNCHANGED <<options, outcome, processed, rows, histories, tracked, faults>>
  BY <1>t DEF NextFile, TakeFile, Goto, ImportTyped, ReadTyped, dbVars
<1>2. /\ Path(u)' = Path(u) /\ (HasToken(u)' <=> HasToken(u))
      /\ step'[u] \notin Underway
  BY <1>1 DEF Path, HasToken, Underway
<1>3. \A f \in 1 .. MaxFiles : Untouched(u, f)' => Untouched(u, f)
  BY <1>1 DEF Untouched, Before
<1>4. SeesOwn(u) => Settled(u)'
  BY <1>1 DEF SeesOwn, Settled
<1>5. QED
  BY <1>1, <1>2, <1>3, <1>4, QuietStep

(***************************************************************************)
(* The rows of the current file go into the change tracker all at once,    *)
(* and no row with one of their keys is there from an earlier file.        *)
(***************************************************************************)
LEMMA AddRowsKeeps ==
  ASSUME TypeInv, ImportInv, NEW u \in Uploads, AddRows(u)
  PROVE  UploadInv(u)'
<1>t. ImportTyped /\ DataTyped /\ ReadTyped /\ RestTyped
  BY TypeParts
<1>1. /\ UNCHANGED <<options, cur, file, checked, outcome, rows, histories, faults>>
      /\ step[u] = "add" /\ step'[u] = "commit" /\ cur[u] \in 1 .. MaxFiles
  BY <1>t DEF AddRows, Goto, ImportTyped
<1>2. /\ processed'[u][cur[u]] = Cardinality(CountedLines(u))
      /\ \A f \in 1 .. MaxFiles : f # cur[u] => processed'[u][f] = processed[u][f]
  BY <1>1, <1>t DEF AddRows, RestTyped
<1>3. /\ tracked'[u].data = tracked[u].data \cup Added(u)
      /\ tracked'[u].history = tracked[u].history
  <2>1. tracked[u] \in ContextType
    BY <1>t DEF DataTyped
  <2>2. tracked' = [tracked EXCEPT ![u].data = @ \cup Added(u)]
    BY DEF AddRows, Added, RecordOf
  <2>3. QED
    BY <1>t, <2>1, <2>2 DEF DataTyped, ContextType
<1>4. \A x \in Added(u) : x.upload = u /\ x.file = cur[u] /\ x.table = file[u].table
  BY DEF Added, RecordOf
<1>5. Cardinality(Added(u)) = Cardinality(CountedLines(u))
  BY <1>1, AddedAsCounted
<1>6. Path(u)' = Path(u) /\ (HasToken(u)' <=> HasToken(u))
  BY <1>1 DEF Path, HasToken
<1>7. /\ ContextOK(u) /\ \A f \in 1 .. MaxFiles : FileWhole(u, f)
      /\ faults = 0 => SeesOwn(u)
  BY DEF ImportInv
<1>8. ContextOK(u)'
  BY <1>1, <1>3, <1>4, <1>6, <1>7 DEF ContextOK, Of
<1>9. ASSUME NEW f \in 1 .. MaxFiles, f # cur[u] PROVE FileWhole(u, f)'
  <2>1. /\ RowsOf(u, f)' = RowsOf(u, f) /\ Of(histories, u, f)' = Of(histories, u, f)
        /\ Of(tracked[u].history, u, f)' = Of(tracked[u].history, u, f)
    BY <1>1, <1>3 DEF RowsOf, Of
  <2>2. Of(tracked[u].data, u, f)' = Of(tracked[u].data, u, f)
    BY <1>3, <1>4, <1>9 DEF Of
  <2>3. Untouched(u, f)' => Untouched(u, f)
    BY <1>1, <1>9 DEF Untouched
  <2>4. QED
    BY <1>1, <1>2, <1>6, <1>7, <1>9, <2>1, <2>2, <2>3, FileKept
<1>10. FileWhole(u, cur[u])'
  <2>1. Untouched(u, cur[u]) /\ FileWhole(u, cur[u])
    BY <1>1, <1>7 DEF Untouched, Before
  <2>2. /\ RowsOf(u, cur[u]) = {} /\ Of(tracked[u].data, u, cur[u]) = {}
        /\ outcome[u][cur[u]] = "none"
        /\ Of(histories \cup tracked[u].history, u, cur[u]) = {}
    BY <2>1 DEF FileWhole
  <2>3. RowsOf(u, cur[u])' = {} /\ Of(histories \cup tracked[u].history, u, cur[u])' = {}
    BY <1>1, <1>3, <2>2 DEF RowsOf, Of
  <2>4. Of(tracked[u].data, u, cur[u])' = Added(u)
    BY <1>1, <1>3, <1>4, <2>2 DEF Of
  <2>5. Pending(u, cur[u])'
    BY <1>1, <1>2, <1>5, <2>3, <2>4 DEF Pending
  <2>6. ~Untouched(u, cur[u])' /\ outcome'[u][cur'[u]] = "none"
    BY <1>1, <2>2 DEF Untouched, Before
  <2>7. Of(histories, u, cur[u])' = {} /\ Of(tracked[u].history, u, cur[u])' = {}
    BY <2>3 DEF Of
  <2>8. QED
    BY <2>3, <2>5, <2>6, <2>7 DEF FileWhole
<1>11. SeesOwn(u) => SeesOwn(u)'
  <2>1. SUFFICES ASSUME SeesOwn(u) PROVE SeesOwn(u)'
    OBVIOUS
  <2>2. \A x \in Added(u) : ~Taken(u, x.table, x.key)
    <3>1. ASSUME NEW i \in AddedLines(u)
          PROVE  ~Taken(u, file[u].table, Line(u, i).key)
      <4>1. i \in DOMAIN file[u].rows /\ checked[u][i]
        BY DEF AddedLines
      <4>2. DOMAIN checked[u] = DOMAIN file[u].rows
        BY <1>1, <2>1 DEF SeesOwn
      <4>3. QED
        BY <1>1, <2>1, <4>1, <4>2 DEF SeesOwn
    <3>2. QED
      BY <3>1 DEF Added, RecordOf
  <2>3. tracked[u].data = {}
    BY <1>1, <2>1 DEF SeesOwn
  <2>4. ASSUME NEW x \in rows \cup Added(u), NEW y \in rows \cup Added(u),
               x.upload = u, y.upload = u, x.table = y.table, x.key = y.key
        PROVE  x.file = y.file
    BY <1>4, <2>1, <2>2, <2>4 DEF SeesOwn, Taken
  <2>5. QED
    BY <1>1, <1>3, <2>3, <2>4 DEF SeesOwn
<1>12. QED
  BY <1>1, <1>7, <1>8, <1>9, <1>10, <1>11 DEF UploadInv

(***************************************************************************)
(* A save that succeeds puts everything of the upload into the database:   *)
(* where there is one import, together with its history row.               *)
(***************************************************************************)
LEMMA SaveStep ==
  ASSUME TypeInv, ImportInv, NEW u \in Uploads, NEW extra, SaveChanges(u, extra),
         \A h \in extra : /\ h.upload = u /\ h.file = cur[u]
                          /\ h.processed = processed[u][cur[u]],
         extra # {} => step[u] = "history",
         step[u] = "history" => extra # {},
         step[u] \in {"history", "activity", "finish"},
         step'[u] \in {"activity", "release", "next", "finish", "done"},
         step'[u] = "activity" => step[u] = "history",
         UNCHANGED <<options, size, cur, processed, faults>>,
         \A f \in 1 .. MaxFiles :
           \/ outcome'[u][f] = outcome[u][f]
           \/ f = cur[u] /\ step[u] \in Underway /\ step'[u] \notin Underway
  PROVE  UploadInv(u)'
<1>t. ImportTyped /\ DataTyped
  BY TypeParts
<1>1. /\ ContextOK(u) /\ \A f \in 1 .. MaxFiles : FileWhole(u, f)
      /\ faults = 0 => SeesOwn(u)
  BY DEF ImportInv
<1>2. /\ Path(u)' = Path(u) /\ (HasToken(u)' <=> HasToken(u)) /\ cur[u] \in 1 .. MaxFiles
  BY <1>t DEF Path, HasToken, ImportTyped
<1>3. /\ tracked'[u].data = {} /\ tracked'[u].history = {}
      /\ rows' = rows \cup tracked[u].data
      /\ histories' = histories \cup tracked[u].history \cup extra
  BY <1>t DEF SaveChanges, Nothing, DataTyped
<1>4. step[u] \notin Before /\ step'[u] \notin Before
  BY DEF Before
<1>5. ASSUME NEW f \in 1 .. MaxFiles PROVE FileWhole(u, f)'
  <2>1. \/ Of(extra, u, f) = {}
        \/ f = cur[u] /\ step[u] \in Underway
    BY DEF Of, Underway
  <2>2. \A h \in Of(extra, u, f) : h.processed = processed[u][f]
    BY DEF Of
  <2>3. Untouched(u, f)' => Untouched(u, f) /\ f # cur[u]
    BY <1>2, <1>4 DEF Untouched
  <2>4. f = cur'[u] /\ step'[u] \in Underway =>
          step[u] \in Underway /\ outcome'[u][f] = outcome[u][f]
    BY DEF Underway
  <2>5. QED
    BY <1>1, <1>2, <1>t, <2>1, <2>2, <2>3, <2>4, FileSaved DEF DataTyped
<1>6. ContextOK(u)'
  <2>1. ASSUME HasToken(u), NEW x \in rows', x.upload = u
        PROVE  Of(histories', u, x.file) # {}
    <3>1. CASE x \in rows
      BY <1>1, <1>3, <2>1, <3>1 DEF ContextOK, Of
    <3>2. CASE x \in tracked[u].data
      <4>1. x.file \in 1 .. MaxFiles /\ x \in Of(tracked[u].data, u, x.file)
        BY <1>t, <2>1, <3>2 DEF DataTyped, ContextType, Record, Of
      <4>2. ~(x.file > cur[u])
        BY <1>1, <4>1 DEF FileWhole, Untouched
      <4>3. x.file = cur[u]
        BY <1>t, <2>1, <4>1, <4>2 DEF ImportTyped, PlaceOK
      <4>4. CASE step[u] = "history"
        BY <1>3, <4>3, <4>4 DEF Of
      <4>5. CASE step[u] = "activity"
        BY <1>1, <1>3, <2>1, <4>3, <4>5 DEF ContextOK, Of
      <4>6. step[u] # "finish"
        BY <1>t, <2>1 DEF ImportTyped, PlaceOK
      <4>7. QED
        BY <4>4, <4>5, <4>6
    <3>3. QED
      BY <1>3, <2>1, <3>1, <3>2
  <2>2. step'[u] = "activity" => Of(histories' \cup tracked'[u].history, u, cur'[u]) # {}
    BY <1>3 DEF Of
  <2>3. \A x \in tracked'[u].data \cup tracked'[u].history : x.upload = u
    BY <1>3
  <2>4. QED
    BY <1>2, <2>1, <2>2, <2>3 DEF ContextOK
<1>7. SeesOwn(u) => SeesOwn(u)'
  BY <1>3 DEF SeesOwn
<1>8. QED
  BY <1>1, <1>5, <1>6, <1>7 DEF UploadInv

(***************************************************************************)
(* A save that fails leaves the rows pending; the error excuses what the   *)
(* later files do not see.                                                 *)
(***************************************************************************)
LEMMA FailedSaveStep ==
  ASSUME TypeInv, ImportInv, NEW u \in Uploads, NEW extra, SaveChangesFails(u, extra),
         \A h \in extra : /\ h.upload = u /\ h.file = cur[u]
                          /\ h.processed = processed[u][cur[u]],
         step[u] \in {"history", "activity"},
         extra # {} => step[u] = "history",
         step'[u] \in {"activity", "release", "next", "finish"},
         step'[u] = "activity" => extra # {} /\ outcome'[u] = outcome[u],
         UNCHANGED <<options, size, cur, processed>>,
         \A f \in 1 .. MaxFiles : f # cur[u] => outcome'[u][f] = outcome[u][f],
         outcome'[u][cur[u]] = "ok" => Path(u) = "queued"
  PROVE  UploadInv(u)'
<1>t. ImportTyped /\ DataTyped /\ RestTyped
  BY TypeParts
<1>1. ContextOK(u) /\ \A f \in 1 .. MaxFiles : FileWhole(u, f)
  BY DEF ImportInv
<1>2. Path(u)' = Path(u) /\ (HasToken(u)' <=> HasToken(u)) /\ cur[u] \in 1 .. MaxFiles
  BY <1>t DEF Path, HasToken, ImportTyped
<1>3. /\ tracked'[u].data = tracked[u].data
      /\ tracked'[u].history = tracked[u].history \cup extra
      /\ rows' = rows /\ histories' = histories
  <2>1. tracked[u] \in ContextType
    BY <1>t DEF DataTyped
  <2>2. QED
    BY <1>t, <2>1 DEF SaveChangesFails, DataTyped, ContextType
<1>4. faults' # 0
  BY <1>t DEF SaveChangesFails, Fault, RestTyped
<1>5. ContextOK(u)'
  <2>1. step'[u] = "activity" => Of(histories' \cup tracked'[u].history, u, cur'[u]) # {}
    BY <1>3 DEF Of
  <2>2. QED
    BY <1>1, <1>2, <1>3, <2>1 DEF ContextOK, Of
<1>6. ASSUME NEW f \in 1 .. MaxFiles, f # cur[u] PROVE FileWhole(u, f)'
  <2>1. /\ RowsOf(u, f)' = RowsOf(u, f) /\ Of(histories, u, f)' = Of(histories, u, f)
        /\ Of(tracked[u].data, u, f)' = Of(tracked[u].data, u, f)
        /\ Of(tracked[u].history, u, f)' = Of(tracked[u].history, u, f)
    BY <1>3, <1>6 DEF RowsOf, Of
  <2>2. Untouched(u, f)' => Untouched(u, f)
    BY <1>6 DEF Untouched
  <2>3. QED
    BY <1>1, <1>2, <1>6, <2>1, <2>2, FileKept
<1>7. FileWhole(u, cur[u])'
  <2>1. Saved(u, cur[u]) \/ Pending(u, cur[u])
    BY <1>1, <1>2 DEF FileWhole, Underway
  <2>2. /\ Saved(u, cur[u])' <=> Saved(u, cur[u])
        /\ Pending(u, cur[u])' <=> Pending(u, cur[u])
        /\ Of(histories, u, cur[u])' = Of(histories, u, cur[u])
    BY <1>3 DEF Saved, Pending, RowsOf, Of
  <2>3. ~Untouched(u, cur[u])'
    BY <1>2 DEF Untouched, Before
  <2>4. \A h \in Of(histories \cup tracked[u].history, u, cur[u])' :
          h.processed = processed[u][cur[u]]
    BY <1>1, <1>2, <1>3 DEF FileWhole, Of
  <2>5. step'[u] \in Underway => outcome'[u][cur[u]] = "none"
    BY <1>1, <1>2 DEF FileWhole, Underway
  <2>6. QED
    BY <1>1, <1>2, <2>1, <2>2, <2>3, <2>4, <2>5 DEF FileWhole
<1>8. QED
  BY <1>4, <1>5, <1>6, <1>7 DEF UploadInv

\* Logging the history, then the activity: the one save or the other takes the rows.
LEMMA LogKeeps ==
  ASSUME TypeInv, ImportInv, NEW u \in Uploads, LogHistory(u) \/ LogActivity(u)
  PROVE  UploadInv(u)'
<1>t. ImportTyped /\ DataTyped
  BY TypeParts
<1> DEFINE row == {[upload |-> u, file |-> cur[u], processed |-> processed[u][cur[u]]]}
<1>1. \A h \in row : /\ h.upload = u /\ h.file = cur[u]
                     /\ h.processed = processed[u][cur[u]]
  OBVIOUS
<1>2. row # {} /\ UNCHANGED <<options, size, cur, processed>>
  BY DEF LogHistory, LogActivity
<1>3. ASSUME FileSucceeds(u)
      PROVE  /\ step'[u] \in {"release", "next", "finish"}
             /\ outcome'[u][cur[u]] = "ok"
             /\ \A f \in 1 .. MaxFiles : f # cur[u] => outcome'[u][f] = outcome[u][f]
  BY <1>3, <1>t DEF FileSucceeds, Goto, ImportTyped
<1>4. ASSUME FileFails(u)
      PROVE  /\ step'[u] \in {"release", "next", "finish"}
             /\ outcome'[u][cur[u]] = "failed"
             /\ \A f \in 1 .. MaxFiles : f # cur[u] => outcome'[u][f] = outcome[u][f]
  BY <1>4, <1>t DEF FileFails, Goto, ImportTyped
<1>5. CASE LogHistory(u)
  <2>1. /\ step[u] = "history"
        /\ \/ SaveChanges(u, row) /\ UNCHANGED faults
           \/ SaveChangesFails(u, row)
        /\ IF Path(u) = "queued" THEN FileSucceeds(u)
                                 ELSE Goto(u, "activity") /\ UNCHANGED outcome
    BY <1>5 DEF LogHistory
  <2> HIDE DEF row
  <2>2. /\ step'[u] \in {"activity", "release", "next", "finish"}
        /\ step'[u] = "activity" => outcome'[u] = outcome[u]
        /\ outcome'[u][cur[u]] = "ok" => Path(u) = "queued" \/ outcome'[u] = outcome[u]
        /\ \A f \in 1 .. MaxFiles : f # cur[u] => outcome'[u][f] = outcome[u][f]
    <3>1. CASE Path(u) = "queued"
      BY <1>3, <2>1, <3>1
    <3>2. CASE Path(u) # "queued"
      BY <1>t, <2>1, <3>2 DEF Goto, ImportTyped
    <3>3. QED
      BY <3>1, <3>2
  <2>3. step[u] \in Underway /\ outcome[u][cur[u]] = "none"
    BY <1>t, <2>1 DEF Underway, ImportInv, FileWhole, ImportTyped
  <2>4. CASE SaveChanges(u, row) /\ UNCHANGED faults
    <3>1. \A f \in 1 .. MaxFiles :
            \/ outcome'[u][f] = outcome[u][f]
            \/ f = cur[u] /\ step[u] \in Underway /\ step'[u] \notin Underway
      BY <2>2, <2>3 DEF Underway
    <3>2. QED
      BY <1>1, <1>2, <2>1, <2>2, <2>4, <3>1, SaveStep
  <2>5. CASE SaveChangesFails(u, row)
    BY <1>1, <1>2, <2>1, <2>2, <2>3, <2>5, FailedSaveStep
  <2>6. QED
    BY <2>1, <2>4, <2>5
<1>6. CASE LogActivity(u)
  <2>1. /\ step[u] = "activity"
        /\ \/ SaveChanges(u, {}) /\ FileSucceeds(u) /\ UNCHANGED faults
           \/ SaveChangesFails(u, {}) /\ FileFails(u)
    BY <1>6 DEF LogActivity
  <2>2. step[u] \in Underway
    BY <2>1 DEF Underway
  <2>3. CASE SaveChanges(u, {}) /\ FileSucceeds(u) /\ UNCHANGED faults
    <3>1. step'[u] \notin Underway /\ step'[u] # "activity"
      BY <1>3, <2>3 DEF Underway
    <3>2. QED
      BY <1>2, <1>3, <2>1, <2>2, <2>3, <3>1, SaveStep
  <2>4. CASE SaveChangesFails(u, {}) /\ FileFails(u)
    BY <1>2, <1>4, <2>1, <2>4, FailedSaveStep
  <2>5. QED
    BY <2>1, <2>3, <2>4
<1>7. QED
  BY <1>5, <1>6

\* The end of the request saves what is left, or throws it away.
LEMMA EndKeeps ==
  ASSUME TypeInv, ImportInv, NEW u \in Uploads, Finish(u) \/ Release(u)
  PROVE  UploadInv(u)'
<1>t. ImportTyped /\ DataTyped /\ RestTyped
  BY TypeParts
<1>1. /\ UNCHANGED <<options, size, cur, outcome, processed>>
      /\ step[u] \in {"finish", "release"} /\ step'[u] = "done"
      /\ faults' = 0 => faults = 0
      /\ \/ step[u] = "finish" /\ SaveChanges(u, {}) /\ UNCHANGED faults
         \/ tracked' = [tracked EXCEPT ![u] = Nothing] /\ UNCHANGED <<rows, histories>>
  BY <1>t DEF Finish, Release, EndRequest, Goto, ImportTyped, RestTyped, Fault
<1>2. CASE step[u] = "finish" /\ SaveChanges(u, {}) /\ UNCHANGED faults
  BY <1>1, <1>2, SaveStep
<1>3. CASE tracked' = [tracked EXCEPT ![u] = Nothing] /\ UNCHANGED <<rows, histories>>
  <2>1. /\ ContextOK(u) /\ \A f \in 1 .. MaxFiles : FileWhole(u, f)
        /\ faults = 0 => SeesOwn(u)
    BY DEF ImportInv
  <2>2. /\ tracked'[u].data = {} /\ tracked'[u].history = {}
        /\ Path(u)' = Path(u) /\ (HasToken(u)' <=> HasToken(u))
    BY <1>1, <1>3, <1>t DEF Nothing, DataTyped, Path, HasToken
  <2>3. ContextOK(u)'
    BY <1>1, <1>3, <2>1, <2>2 DEF ContextOK, Of
  <2>4. \A f \in 1 .. MaxFiles : FileWhole(u, f)'
    BY <1>1, <1>3, <1>t, <2>1, FileDropped DEF DataTyped, Before
  <2>5. SeesOwn(u) => SeesOwn(u)'
    BY <1>1, <1>3, <2>2 DEF SeesOwn
  <2>6. QED
    BY <1>1, <2>1, <2>3, <2>4, <2>5 DEF UploadInv
<1>4. QED
  BY <1>1, <1>2, <1>3

\* No step breaks the order of any upload's records.
LEMMA NextImportInv == TypeInv /\ ImportInv /\ [Next]_vars => ImportInv'
<1> SUFFICES ASSUME TypeInv, ImportInv, [Next]_vars, NEW v \in Uploads
             PROVE  UploadInv(v)'
  BY DEF ImportInv, UploadInv
<1>1. ASSUME NEW u \in Uploads, Receive(u) \/ Advance(u) PROVE UploadInv(v)'
  <2>1. CASE v # u
    BY <1>1, <2>1, OthersKept
  <2>2. UploadInv(u)'
    BY <1>1, ReceiveKeeps, ProgressKeeps, ValidateKeeps, AddRowsKeeps, LogKeeps,
       NextFileKeeps, EndKeeps DEF Advance
  <2>3. QED
    BY <2>1, <2>2
<1>2. ASSUME NEW u \in Uploads, CancelUpload(u) \/ UNCHANGED vars PROVE UploadInv(v)'
  <2>1. UNCHANGED <<importVars, dbVars, faults>>
    BY <1>2 DEF CancelUpload, vars
  <2>2. ViewOf(v)' = ViewOf(v) /\ faults' = faults
    BY <2>1 DEF ViewOf, OwnRows, OwnHistories, Path, importVars, dbVars
  <2>3. UploadInv(v)
    BY DEF ImportInv, UploadInv
  <2>4. QED
    BY <2>2, <2>3, UploadKept
<1>3. QED
  BY <1>1, <1>2 DEF Next

\* ImportInv holds in every behaviour.
LEMMA ImportInvHolds == Spec => [](TypeInv /\ ImportInv)
  BY InitTypeInv, NextTypeInv, InitImportInv, NextImportInv, PTL DEF Spec

(***************************************************************************)
(* A file that a controller calls processed has all the rows it counts in  *)
(* the database, on the paths with an activity log, for any files.         *)
(***************************************************************************)
THEOREM SuccessIsSaved == Spec => []SuccessMeansSaved
<1>1. TypeInv /\ ImportInv => SuccessMeansSaved
  <2> SUFFICES ASSUME TypeInv, ImportInv, NEW u \in Uploads, Path(u) # "queued",
                      NEW f \in 1 .. size[u], outcome[u][f] = "ok"
               PROVE  Cardinality(RowsOf(u, f)) = processed[u][f]
    BY DEF SuccessMeansSaved
  <2>1. f \in 1 .. MaxFiles
    BY BulkImportAssumption, TypeParts DEF ImportTyped
  <2>2. Saved(u, f)
    BY <2>1 DEF ImportInv, FileWhole
  <2>3. QED
    BY <2>2 DEF Saved
<1>2. QED
  BY <1>1, ImportInvHolds, PTL

\* No file is imported in part, whatever fails and whoever cancels.
THEOREM FilesAreWhole == Spec => []NoPartialFile
<1>1. TypeInv /\ ImportInv => NoPartialFile
  <2> SUFFICES ASSUME TypeInv, ImportInv, NEW u \in Uploads, NEW f \in 1 .. size[u]
               PROVE  Cardinality(RowsOf(u, f)) \in {0, processed[u][f]}
    BY DEF NoPartialFile
  <2>1. f \in 1 .. MaxFiles
    BY BulkImportAssumption, TypeParts DEF ImportTyped
  <2>2. Saved(u, f) \/ RowsOf(u, f) = {}
    BY <2>1 DEF ImportInv, FileWhole, Pending
  <2>3. QED
    BY <2>2, FS_EmptySet DEF Saved
<1>2. QED
  BY <1>1, ImportInvHolds, PTL

\* The history and the data tables agree on every file, at every moment.
THEOREM HistoryAgrees == Spec => []HistoryMatchesRows
<1>1. TypeInv /\ ImportInv => HistoryMatchesRows
  <2> SUFFICES ASSUME TypeInv, ImportInv PROVE HistoryMatchesRows
    OBVIOUS
  <2>0. rows \subseteq Record /\ histories \subseteq History
    BY TypeParts DEF DataTyped
  <2>1. ASSUME NEW h \in histories
        PROVE  Cardinality(RowsOf(h.upload, h.file)) = h.processed
    <3>1. h.upload \in Uploads /\ h.file \in 1 .. MaxFiles
      BY <2>0 DEF History
    <3>2. /\ h \in Of(histories, h.upload, h.file)
          /\ h \in Of(histories \cup tracked[h.upload].history, h.upload, h.file)
      BY DEF Of
    <3>3. FileWhole(h.upload, h.file)
      BY <3>1 DEF ImportInv
    <3>4. Saved(h.upload, h.file) /\ h.processed = processed[h.upload][h.file]
      BY <3>2, <3>3 DEF FileWhole
    <3>5. QED
      BY <3>4 DEF Saved
  <2>2. ASSUME NEW x \in rows, HasToken(x.upload)
        PROVE  \E h \in histories : h.upload = x.upload /\ h.file = x.file
    <3>1. x.upload \in Uploads
      BY <2>0 DEF Record
    <3>2. Of(histories, x.upload, x.file) # {}
      BY <2>2, <3>1 DEF ImportInv, ContextOK
    <3>3. QED
      BY <3>2 DEF Of
  <2>3. QED
    BY <2>1, <2>2 DEF HistoryMatchesRows
<1>2. QED
  BY <1>1, ImportInvHolds, PTL

(***************************************************************************)
(* As long as no save failed, a later file of the same request cannot      *)
(* bring in a key that an earlier one has brought in.                      *)
(***************************************************************************)
THEOREM LaterFileIsChecked == Spec => []LaterFileSeesEarlier
<1>1. TypeInv /\ ImportInv => LaterFileSeesEarlier
  <2> SUFFICES ASSUME TypeInv, ImportInv, faults = 0, NEW x \in rows, NEW y \in rows,
                      x.upload = y.upload, x.table = y.table, x.key = y.key
               PROVE  x.file = y.file
    BY DEF LaterFileSeesEarlier
  <2>1. x.upload \in Uploads
    BY TypeParts DEF DataTyped, Record
  <2>2. SeesOwn(x.upload)
    BY <2>1 DEF ImportInv
  <2>3. QED
    BY <2>2 DEF SeesOwn
<1>2. QED
  BY <1>1, ImportInvHolds, PTL

-----------------------------------------------------------------------------
(* A cancellation before the commit.                                       *)

\* Until the commit the database holds no row of the file being imported.
Fresh(u) == step[u] = "commit" => RowsOf(u, cur[u]) = {}
FreshInv == \A u \in Uploads : Fresh(u)

\* No step changes that.
LEMMA NextFresh == TypeInv /\ ImportInv /\ FreshInv /\ [Next]_vars => FreshInv'
<1> SUFFICES ASSUME TypeInv, ImportInv, FreshInv, [Next]_vars, NEW v \in Uploads
             PROVE  Fresh(v)'
  BY DEF FreshInv
<1>t. ImportTyped
  BY TypeParts
<1>0. Fresh(v)
  BY DEF FreshInv
<1>1. ASSUME ViewOf(v)' = ViewOf(v) PROVE Fresh(v)'
  <2>1. OwnRows(v)' = OwnRows(v) /\ step'[v] = step[v] /\ cur'[v] = cur[v]
    BY <1>1 DEF ViewOf
  <2>2. \A f : RowsOf(v, f) = {x \in OwnRows(v) : x.file = f}
    BY DEF RowsOf, OwnRows
  <2>3. RowsOf(v, cur[v])' = {x \in OwnRows(v)' : x.file = cur'[v]}
    BY DEF RowsOf, OwnRows
  <2>4. QED
    BY <1>0, <2>1, <2>2, <2>3 DEF Fresh
<1>2. ASSUME NEW u \in Uploads, Receive(u) \/ Advance(u) PROVE Fresh(v)'
  <2>1. CASE v # u
    BY <1>1, <1>2, <2>1, OthersView
  <2>2. CASE v = u
    <3>1. ASSUME step'[u] = "commit"
          PROVE  UNCHANGED <<rows, cur>> /\ step[u] = "add"
      <4>1. AddRows(u)
        BY <1>2, <1>t, <3>1 DEF ImportTyped, Receive, Advance, PreCheck, Validate,
          EndValidation, Commit, Abort, LogHistory, LogActivity, NextFile, Finish, Release,
          TakeFile, FileFails, FileSucceeds, EndRequest, Goto
      <4>2. QED
        BY <4>1 DEF AddRows
    <3>2. step[u] = "add" => RowsOf(u, cur[u]) = {}
      BY <1>t DEF ImportInv, FileWhole, Untouched, Before, ImportTyped
    <3>3. QED
      BY <2>2, <3>1, <3>2 DEF Fresh, RowsOf
  <2>3. QED
    BY <2>1, <2>2
<1>3. ASSUME NEW u \in Uploads, CancelUpload(u) \/ UNCHANGED vars PROVE Fresh(v)'
  <2>1. UNCHANGED <<step, cur, rows>>
    BY <1>3 DEF CancelUpload, vars, importVars, dbVars
  <2>2. QED
    BY <1>0, <2>1 DEF Fresh, RowsOf
<1>4. QED
  BY <1>2, <1>3 DEF Next

\* The token table creates, cancels or disposes of one source at a time.
TokenMove(w) == \/ UNCHANGED sources
                \/ sources' = [sources EXCEPT ![w].created = TRUE]
                \/ sources' = [sources EXCEPT ![w].cancelled = TRUE]
                \/ sources' = [sources EXCEPT ![w].disposed = TRUE]

\* Every step moves one token at most.
LEMMA OneTokenMoves == [Next]_vars => \E w : TokenMove(w)
<1>1. ASSUME UNCHANGED cancellationVars PROVE TokenMove(1)
  BY <1>1 DEF TokenMove, cancellationVars
<1>2. ASSUME NEW u \in Uploads, Receive(u) PROVE UNCHANGED cancellationVars \/ TokenMove(u)
  BY <1>2 DEF Receive, CreateJobCancellation, TokenMove
<1>3. ASSUME NEW u \in Uploads, Release(u) PROVE TokenMove(activeJobs[u])
  BY <1>3 DEF Release, RemoveJob, TokenMove
<1>4. ASSUME NEW u \in Uploads, CancelUpload(u) PROVE TokenMove(activeJobs[u])
  BY <1>4 DEF CancelUpload, CancelSource, LookupSource, TokenMove
<1>5. ASSUME NEW u \in Uploads, Advance(u), ~Release(u) PROVE UNCHANGED cancellationVars
  BY <1>5 DEF Advance, PreCheck, Validate, EndValidation, AddRows, Commit, Abort,
    LogHistory, LogActivity, NextFile, Finish
<1>6. QED
  BY <1>1, <1>2, <1>3, <1>4, <1>5 DEF Next, vars

\* A token that is cancelled stays so.
LEMMA CancelledStays ==
  ASSUME TypeInv, [Next]_vars, NEW v \in Uploads, CancellationRequested(v)
  PROVE  CancellationRequested(v)'
<1>t. sources \in [Uploads -> SourceState]
  BY TypeParts DEF CancellationTypeOK
<1>0. sources[v].cancelled /\ sources[v] \in SourceState
  BY <1>t DEF CancellationRequested
<1>1. ASSUME NEW w, TokenMove(w) PROVE sources'[v].cancelled
  <2>1. CASE w = v
    BY <1>0, <1>1, <1>t, <2>1 DEF SourceState, TokenMove
  <2>2. CASE w # v
    BY <1>0, <1>1, <1>t, <2>2 DEF TokenMove
  <2>3. QED
    BY <2>1, <2>2
<1>2. QED
  BY <1>1, OneTokenMoves DEF CancellationRequested

\* An upload whose cancellation was in time, at any later moment.
Doomed(u) == /\ Cancelled(u) /\ RowsOf(u, 1) = {}
             /\ step[u] \in {"validate", "add", "commit", "release", "done"}

\* It goes on to its end without a row.
LEMMA StaysDoomed ==
  ASSUME TypeInv, ImportInv, [Next]_vars, NEW v \in Uploads, Doomed(v)
  PROVE  Doomed(v)'
<1>t. ImportTyped /\ DataTyped
  BY TypeParts
<1>0. CancellationRequested(v)' /\ HasToken(v)
  BY CancelledStays DEF Doomed, Cancelled
<1>1. ASSUME NEW u \in Uploads, Receive(u) \/ Advance(u), v # u PROVE Doomed(v)'
  <2>1. /\ OwnRows(v)' = OwnRows(v) /\ step'[v] = step[v]
        /\ options'[v] = options[v]
    BY <1>1, OthersView DEF ViewOf
  <2>2. /\ RowsOf(v, 1) = {x \in OwnRows(v) : x.file = 1}
        /\ RowsOf(v, 1)' = {x \in OwnRows(v)' : x.file = 1}
    BY DEF RowsOf, OwnRows
  <2>3. HasToken(v)'
    BY <1>0, <2>1 DEF HasToken, Path
  <2>4. QED
    BY <1>0, <2>1, <2>2, <2>3 DEF Doomed, Cancelled
<1>2. ASSUME Receive(v) \/ Advance(v) PROVE Doomed(v)'
  <2>0. /\ step[v] \in {"validate", "add", "commit", "release", "done"}
        /\ Cancelled(v)
    BY DEF Doomed
  <2>1. Validate(v) \/ EndValidation(v) \/ AddRows(v) \/ Abort(v) \/ Release(v)
    BY <1>2, <2>0 DEF Receive, Advance, PreCheck, Commit, MayCommit, LogHistory, LogActivity,
      NextFile, Finish
  <2>2. UNCHANGED <<rows, options>>
    BY <2>1 DEF Validate, EndValidation, AddRows, Abort, Release, dbVars
  <2>3. step'[v] \in {"validate", "add", "commit", "release", "done"}
    BY <1>0, <1>t, <2>0, <2>1 DEF Validate, EndValidation, AddRows, Abort, Release,
      FileFails, EndRequest, Goto, ImportTyped
  <2>4. QED
    BY <1>0, <2>2, <2>3 DEF Doomed, Cancelled, HasToken, Path, RowsOf
<1>3. ASSUME NEW u \in Uploads, CancelUpload(u) \/ UNCHANGED vars PROVE Doomed(v)'
  <2>1. UNCHANGED <<step, options, rows>>
    BY <1>3 DEF CancelUpload, vars, importVars, dbVars
  <2>2. QED
    BY <1>0, <2>1 DEF Doomed, Cancelled, HasToken, Path, RowsOf
<1>4. QED
  BY <1>1, <1>2, <1>3 DEF Next

(***************************************************************************)
(* A cancellation that arrives before the commit is never too late: from   *)
(* then on no row of the upload is in the database.                        *)
(***************************************************************************)
THEOREM CancelInTimeLeavesNothing == Spec => CancelBeforeCommitLeavesNothing
<1> DEFINE InTime(u) == Cancelled(u) /\ step[u] \in {"validate", "add", "commit"}
           NoRow(u) == RowsOf(u, 1) = {}
<1>1. Spec => []FreshInv
  <2>1. Init => FreshInv
    BY DEF Init, FreshInv, Fresh
  <2>2. QED
    BY <2>1, NextFresh, ImportInvHolds, PTL DEF Spec
<1>2. ASSUME NEW u \in Uploads PROVE Spec => [](InTime(u) => []NoRow(u))
  <2>1. TypeInv /\ ImportInv /\ FreshInv /\ InTime(u) => Doomed(u)
    <3> SUFFICES ASSUME TypeInv, ImportInv, FreshInv, InTime(u) PROVE RowsOf(u, 1) = {}
      BY DEF Doomed
    <3>1. cur[u] = 1 /\ 1 \in 1 .. MaxFiles
      BY BulkImportAssumption, TypeParts DEF ImportTyped, PlaceOK, Cancelled
    <3>2. CASE step[u] = "commit"
      BY <3>1, <3>2 DEF FreshInv, Fresh
    <3>3. CASE step[u] # "commit"
      BY <3>1, <3>3 DEF ImportInv, FileWhole, Untouched, Before
    <3>4. QED
      BY <3>2, <3>3
  <2>2. TypeInv /\ ImportInv /\ Doomed(u) /\ [Next]_vars => Doomed(u)'
    BY StaysDoomed
  <2>3. Doomed(u) => NoRow(u)
    BY DEF Doomed
  <2> HIDE DEF InTime, NoRow
  <2>4. QED
    BY <1>1, <2>1, <2>2, <2>3, ImportInvHolds, PTL DEF Spec
<1>3. QED
  BY <1>2 DEF CancelBeforeCommitLeavesNothing

-----------------------------------------------------------------------------
(* The import as FileQueueService sees it.                                 *)

\* The phase of an import, case by case.
LEMMA PhaseIs ==
  ASSUME NEW u
  PROVE  /\ Path(u) # "queued" => Phase(u) = "open"
         /\ Path(u) = "queued" =>
              /\ outcome[u][1] = "ok" => Phase(u) = "succeeded"
              /\ outcome[u][1] = "failed" => Phase(u) = "failed"
              /\ outcome[u][1] = "none" =>
                   Phase(u) = IF step[u] = "history" THEN "committed" ELSE "open"
BY DEF Phase

\* What one step of the program does to one import.
PhaseStep(u) ==
  \/ Phase(u)' = Phase(u) /\ Stored(u)' = Stored(u)
  \/ /\ Phase(u) = "open" /\ Phase(u)' = "committed" /\ ~CancellationRequested(u)
     /\ Stored(u)' = Stored(u)
  \/ Phase(u) = "open" /\ Phase(u)' = "failed" /\ Stored(u)' = Stored(u)
  \/ Phase(u) = "committed" /\ Phase(u)' = "succeeded"

\* Each step of an upload is one of these for its own import.
LEMMA OwnPhaseStep ==
  ASSUME TypeInv, ImportInv, NEW u \in Uploads, Receive(u) \/ Advance(u)
  PROVE  PhaseStep(u)
<1>t. ImportTyped /\ DataTyped
  BY TypeParts
<1>1. 1 \in 1 .. MaxFiles /\ FileWhole(u, 1)
  BY BulkImportAssumption DEF ImportInv
<1>p. /\ Path(u)' # "queued" => Phase(u)' = "open"
      /\ Path(u)' = "queued" =>
           /\ outcome'[u][1] = "ok" => Phase(u)' = "succeeded"
           /\ outcome'[u][1] = "failed" => Phase(u)' = "failed"
           /\ outcome'[u][1] = "none" =>
                Phase(u)' = IF step'[u] = "history" THEN "committed" ELSE "open"
  BY DEF Phase
<1>2. CASE Receive(u)
  <2>1. /\ step[u] = "new" /\ UNCHANGED <<outcome, histories>>
        /\ step'[u] \in {"precheck", "validate"}
    BY <1>2, <1>t DEF Receive, TakeFile, Goto, ImportTyped, dbVars
  <2>2. outcome[u][1] = "none" /\ cur[u] = 1
    BY <1>1, <1>t, <2>1 DEF ImportTyped, PlaceOK
  <2>3. ASSUME NEW h \in histories PROVE h.upload # u
    <3>1. h.file \in 1 .. MaxFiles
      BY <1>t DEF DataTyped, History
    <3>0. Untouched(u, h.file)
      BY <2>1, <2>2, <3>1 DEF Untouched, Before
    <3>2. Of(histories \cup tracked[u].history, u, h.file) = {}
      BY <3>0, <3>1 DEF ImportInv, FileWhole
    <3>3. QED
      BY <3>2 DEF Of
  <2>4. ~Stored(u) /\ ~Stored(u)'
    BY <2>1, <2>3 DEF Stored
  <2>5. Phase(u) = "open" /\ Phase(u)' = "open"
    BY <1>p, <2>1, <2>2, PhaseIs
  <2>6. QED
    BY <2>4, <2>5 DEF PhaseStep, Stored
<1>3. CASE Advance(u) /\ Path(u) # "queued"
  <2>1. UNCHANGED options
    BY <1>3 DEF Advance, PreCheck, Validate, EndValidation, AddRows, Commit, Abort,
      LogHistory, LogActivity, NextFile, Finish, Release
  <2>2. Path(u)' # "queued"
    BY <1>3, <2>1 DEF Path
  <2>3. QED
    BY <1>3, <1>p, <2>2, PhaseIs DEF PhaseStep, Stored
<1>4. CASE Advance(u) /\ Path(u) = "queued"
  <2>1. cur[u] = 1 /\ HasToken(u)
    <3>1. HasToken(u) /\ cur[u] \in 1 .. MaxFiles /\ cur[u] <= size[u] /\ size[u] = 1
      BY <1>4, <1>t DEF ImportTyped, PlaceOK, HasToken
    <3>2. QED
      BY <3>1
  <2>2. UNCHANGED options
    BY <1>4 DEF Advance, PreCheck, Validate, EndValidation, AddRows, Commit, Abort,
      LogHistory, LogActivity, NextFile, Finish, Release
  <2>3. Path(u)' = "queued"
    BY <1>4, <2>2 DEF Path
  <2>4. step[u] \notin {"precheck", "next", "finish", "activity"}
    BY <1>4, <1>t, <2>1 DEF ImportTyped, PlaceOK
  <2>5. step[u] \in {"validate", "add", "commit", "history"} => outcome[u][1] = "none"
    BY <1>1, <2>1 DEF FileWhole, Untouched, Before, Underway
  <2>6. CASE FileFails(u) /\ UNCHANGED histories /\ step[u] \in {"validate", "commit"}
    <3>1. outcome'[u][1] = "failed"
      BY <1>t, <1>1, <2>1, <2>6 DEF FileFails, ImportTyped
    <3>2. Phase(u) = "open" /\ Phase(u)' = "failed"
      BY <1>4, <1>p, <2>3, <2>5, <2>6, <3>1, PhaseIs
    <3>3. QED
      BY <2>2, <2>6, <3>2 DEF PhaseStep, Stored, Path
  <2>7. CASE UNCHANGED <<outcome, histories>> /\ step[u] # "history" /\ step'[u] # "history"
    <3>1. outcome[u][1] \in {"none", "ok", "failed"}
      BY <1>t, <1>1 DEF ImportTyped, Verdict
    <3>2. Phase(u)' = Phase(u)
      BY <1>4, <1>p, <2>3, <2>7, <3>1, PhaseIs
    <3>3. QED
      BY <2>2, <2>7, <3>2 DEF PhaseStep, Stored, Path
  <2>8. CASE Commit(u)
    <3>1. /\ UNCHANGED <<outcome, histories>> /\ step[u] = "commit" /\ step'[u] = "history"
          /\ ~CancellationRequested(u)
      BY <1>t, <2>1, <2>8 DEF Commit, MayCommit, Cancelled, Goto, ImportTyped, dbVars
    <3>2. Phase(u) = "open" /\ Phase(u)' = "committed"
      BY <1>4, <1>p, <2>3, <2>5, <3>1, PhaseIs
    <3>3. QED
      BY <2>2, <3>1, <3>2 DEF PhaseStep, Stored, Path
  <2>9. CASE LogHistory(u)
    <3>1. step[u] = "history" /\ outcome'[u][1] = "ok"
      BY <1>4, <1>t, <1>1, <2>1, <2>9 DEF LogHistory, FileSucceeds, ImportTyped
    <3>2. Phase(u) = "committed" /\ Phase(u)' = "succeeded"
      BY <1>4, <1>p, <2>3, <2>5, <3>1, PhaseIs
    <3>3. QED
      BY <3>2 DEF PhaseStep
  <2>10. CASE Validate(u) \/ EndValidation(u) \/ AddRows(u) \/ Abort(u) \/ Release(u)
    <3>1. /\ UNCHANGED histories /\ step[u] # "history"
          /\ \/ FileFails(u) /\ step[u] \in {"validate", "commit"}
             \/ UNCHANGED outcome /\ step'[u] # "history"
      BY <1>t, <2>10 DEF Validate, EndValidation, AddRows, Abort, Release, dbVars, Goto,
        EndRequest, ImportTyped
    <3>2. QED
      BY <2>6, <2>7, <3>1
  <2>11. QED
    BY <1>4, <2>4, <2>8, <2>9, <2>10 DEF Advance, PreCheck, LogActivity, NextFile, Finish
<1>5. QED
  BY <1>2, <1>3, <1>4

\* Only a cancellation cancels a token.
LEMMA TokensKept ==
  ASSUME TypeInv, NEW u \in Uploads, Receive(u) \/ Advance(u), NEW v \in Uploads
  PROVE  CancellationRequested(v)' = CancellationRequested(v)
<1>t. sources \in [Uploads -> SourceState]
  BY TypeParts DEF CancellationTypeOK
<1>1. ASSUME NEW w, \/ UNCHANGED sources
                    \/ sources' = [sources EXCEPT ![w].created = TRUE]
                    \/ sources' = [sources EXCEPT ![w].disposed = TRUE]
      PROVE  sources'[v].cancelled = sources[v].cancelled
  <2>1. sources[v] \in SourceState
    BY <1>t
  <2>2. CASE w = v
    BY <1>1, <1>t, <2>1, <2>2 DEF SourceState
  <2>3. CASE w # v
    BY <1>1, <1>t, <2>3
  <2>4. QED
    BY <2>2, <2>3
<1>2. CASE Receive(u)
  <2>1. UNCHANGED sources \/ sources' = [sources EXCEPT ![u].created = TRUE]
    BY <1>2 DEF Receive, CreateJobCancellation, cancellationVars
  <2>2. QED
    BY <1>1, <2>1 DEF CancellationRequested
<1>3. CASE Release(u)
  <2>1. UNCHANGED sources \/ sources' = [sources EXCEPT ![activeJobs[u]].disposed = TRUE]
    BY <1>3 DEF Release, RemoveJob
  <2>2. QED
    BY <1>1, <2>1 DEF CancellationRequested
<1>4. CASE Advance(u) /\ ~Release(u)
  <2>1. UNCHANGED cancellationVars
    BY <1>4 DEF Advance, PreCheck, Validate, EndValidation, AddRows, Commit, Abort,
      LogHistory, LogActivity, NextFile, Finish
  <2>2. QED
    BY <2>1 DEF CancellationRequested, cancellationVars
<1>5. QED
  BY <1>2, <1>3, <1>4

\* The empty database is the initial state of FileImport.
LEMMA ImportInit == Init => Import!Init
<1> SUFFICES ASSUME Init PROVE Import!Init
  OBVIOUS
<1>1. ASSUME NEW u \in Uploads
      PROVE  /\ Phase(u) = "open" /\ CancellationRequested(u) = FALSE
             /\ Stored(u) = FALSE
  <2>1. 1 \in 1 .. MaxFiles
    BY BulkImportAssumption
  <2>2. outcome[u][1] = "none" /\ step[u] = "new" /\ histories = {}
    BY <2>1 DEF Init
  <2>3. CancellationRequested(u) = FALSE
    BY DEF Init, CancellationInit, CancellationRequested
  <2>4. QED
    BY <2>2, <2>3, PhaseIs DEF Stored
<1>2. QED
  BY <1>1 DEF Import!Init

(***************************************************************************)
(* Every step of the program is a step of FileImport for one import, or    *)
(* none.                                                                   *)
(***************************************************************************)
LEMMA ImportStep == TypeInv /\ ImportInv /\ [Next]_vars => [Import!Next]_(Import!vars)
<1> SUFFICES ASSUME TypeInv, ImportInv, [Next]_vars PROVE [Import!Next]_(Import!vars)
  OBVIOUS
<1> DEFINE phase == [u \in Uploads |-> Phase(u)]
           cancelled == [u \in Uploads |-> CancellationRequested(u)]
           stored == [u \in Uploads |-> Stored(u)]
<1>1. ASSUME \A u \in Uploads : Phase(u)' = Phase(u) /\ Stored(u)' = Stored(u),
             \A u \in Uploads : CancellationRequested(u)' = CancellationRequested(u)
      PROVE  UNCHANGED Import!vars
  BY <1>1 DEF Import!vars
<1>2. ASSUME NEW u \in Uploads, Receive(u) \/ Advance(u) PROVE [Import!Next]_(Import!vars)
  <2>1. ASSUME NEW v \in Uploads, v # u
        PROVE  Phase(v)' = Phase(v) /\ Stored(v)' = Stored(v)
    <3>1. ViewOf(v)' = ViewOf(v)
      BY <1>2, <2>1, OthersView
    <3>2. /\ outcome'[v] = outcome[v] /\ step'[v] = step[v] /\ Path(v)' = Path(v)
          /\ OwnHistories(v)' = OwnHistories(v)
      BY <3>1 DEF ViewOf
    <3>3. Phase(v)' = Phase(v)
      BY <3>2 DEF Phase
    <3>4. \A h : h \in histories' /\ h.upload = v <=> h \in histories /\ h.upload = v
      BY <3>2 DEF OwnHistories
    <3>5. Stored(v)' = Stored(v)
      BY <3>2, <3>4 DEF Stored
    <3>6. QED
      BY <3>3, <3>5
  <2>2. UNCHANGED cancelled
    BY <1>2, TokensKept
  <2>3. PhaseStep(u)
    BY <1>2, OwnPhaseStep
  <2>4. CASE Phase(u)' = Phase(u) /\ Stored(u)' = Stored(u)
    BY <1>1, <1>2, <2>1, <2>4, TokensKept
  <2>5. CASE /\ Phase(u) = "open" /\ Phase(u)' = "committed" /\ ~CancellationRequested(u)
             /\ Stored(u)' = Stored(u)
    <3>1. Import!Commit(u)
      BY <2>1, <2>2, <2>5 DEF Import!Commit
    <3>2. QED
      BY <3>1 DEF Import!Next
  <2>6. CASE Phase(u) = "open" /\ Phase(u)' = "failed" /\ Stored(u)' = Stored(u)
    <3>1. Import!Fail(u)
      BY <2>1, <2>2, <2>6 DEF Import!Fail
    <3>2. QED
      BY <3>1 DEF Import!Next
  <2>7. CASE Phase(u) = "committed" /\ Phase(u)' = "succeeded"
    <3>1. Stored(u)' \in BOOLEAN
      BY DEF Stored
    <3>2. stored' = [stored EXCEPT ![u] = Stored(u)']
      BY <2>1
    <3>3. Import!Save(u)
      BY <2>1, <2>2, <2>7, <3>1, <3>2 DEF Import!Save
    <3>4. QED
      BY <3>3 DEF Import!Next
  <2>8. QED
    BY <2>3, <2>4, <2>5, <2>6, <2>7 DEF PhaseStep
<1>3. ASSUME NEW u \in Uploads, CancelUpload(u) PROVE [Import!Next]_(Import!vars)
  <2>1. UNCHANGED <<outcome, step, options, histories>>
    BY <1>3 DEF CancelUpload, importVars, dbVars
  <2>2. \A v \in Uploads : Phase(v)' = Phase(v) /\ Stored(v)' = Stored(v)
    BY <2>1 DEF Phase, Stored, Path
  <2>3. sources \in [Uploads -> SourceState] /\ activeJobs \in [JobIds -> Uploads \cup {NoSource}]
    BY TypeParts DEF CancellationTypeOK
  <2>4. PICK w \in Uploads : \/ UNCHANGED sources
                            \/ sources' = [sources EXCEPT ![w].cancelled = TRUE]
    BY <1>3, <2>3, BulkImportAssumption DEF CancelUpload, LookupSource, CancelSource
  <2>5. CASE UNCHANGED sources
    BY <1>1, <2>2, <2>5 DEF CancellationRequested
  <2>6. CASE sources' = [sources EXCEPT ![w].cancelled = TRUE]
    <3>1. \A v \in Uploads : sources'[v].cancelled = IF v = w THEN TRUE ELSE sources[v].cancelled
      BY <2>3, <2>6 DEF SourceState
    <3>2. cancelled' = [cancelled EXCEPT ![w] = TRUE]
      BY <3>1 DEF CancellationRequested
    <3>3. Import!Cancel(w)
      BY <2>2, <3>2 DEF Import!Cancel
    <3>4. QED
      BY <3>3 DEF Import!Next
  <2>7. QED
    BY <2>4, <2>5, <2>6
<1>4. CASE UNCHANGED vars
  <2>1. UNCHANGED <<outcome, step, options, histories, sources>>
    BY <1>4 DEF vars, importVars, dbVars, cancellationVars
  <2>2. QED
    BY <1>1, <2>1 DEF Phase, Stored, Path, CancellationRequested
<1>5. QED
  BY <1>2, <1>3, <1>4 DEF Next

(***************************************************************************)
(* On the queued path the import keeps what FileImport promises to         *)
(* FileQueueService: a file is committed or fails, never after a           *)
(* cancellation, and a committed one is reported as a success.             *)
(***************************************************************************)
THEOREM ImportIsFileImport == Spec => ImplementsFileImport
<1>1. Spec => Import!Init /\ [][Import!Next]_(Import!vars)
  BY ImportInit, ImportStep, ImportInvHolds, PTL DEF Spec
<1>2. QED
  BY <1>1 DEF ImplementsFileImport, Import!Spec
=============================================================================
