-------------------------- MODULE PilotAssessment --------------------------
(***************************************************************************)
(* The assessments of a pilot, pilot.py: from rows of observations to PASS,*)
(* FAIL or INCONCLUSIVE, for the history of a repository (assess_history), *)
(* the answers of a model (assess_llm) and the cost of maintenance         *)
(* (assess_maintenance).                                                   *)
(*                                                                         *)
(* A row is abstracted to what the assessment tells apart; the flags that  *)
(* mean a failure are one field.  A row of a history states its            *)
(* content_digest, a field like the others: its form is checked, and       *)
(* nothing computes it again, so that it may be that of another row.  The  *)
(* rows of a document come in an order that nobody chose on purpose, and a *)
(* document grows from one assessment to the next, the only action here.   *)
(* The thresholds of the code are the constants.                           *)
(***************************************************************************)
EXTENDS Integers, Sequences, SequencesExt, FiniteSetsExt

CONSTANTS
  PairRows, CleanRows, CaseRows, WorkRows,  \* the rows that may be observed
  Categories,                               \* required_categories
  MinPairs, MinPerRepository, MinClean, MaxFalseAlerts,  \* 20, 5, 100, 5
  MinLabel, MinPerCategory,                 \* 200, 100
  ExactWork, MinPerUse,                     \* 20, 5
  MaxRows                                   \* bound: rows of each kind

ASSUME AssessmentAssumption ==
  /\ {MinPairs, MinPerRepository, MinClean, MinLabel, MinPerCategory, ExactWork, MinPerUse}
       \subseteq Nat \ {0}
  /\ MaxFalseAlerts \in Nat

VARIABLE observations  \* kind of row -> the rows of the document

assessmentVars == <<observations>>

Kinds == {"pairs", "clean", "cases", "work"}

AssessmentInit == observations = [kind \in Kinds |-> <<>>]

-----------------------------------------------------------------------------
(* Reading the rows.                                                        *)

\* The first row of each key; the later ones are only compared with it.
Firsts(rows) == {i \in DOMAIN rows : \A j \in 1 .. i - 1 : rows[j].key # rows[i].key}

\* The rows that are counted.
Accepted(rows) == {rows[i] : i \in {j \in Firsts(rows) : rows[j].status = "COMPLETE"}}

Gap(rows) == \E i \in Firsts(rows) : rows[i].status # "COMPLETE"

\* _history_rows: a row with the digest of the first row of its key is a second
\* delivery, whatever else it says; with another digest it is a conflict.
Contradicted(rows) ==
  \E i \in Firsts(rows), j \in DOMAIN rows :
    rows[j].key = rows[i].key /\ rows[j].digest # rows[i].digest

\* _llm_rows, _maintenance_rows: any repetition is a conflict.
Repeated(rows) == Firsts(rows) # DOMAIN rows

Count(rows, name, value) == Cardinality({row \in rows : row[name] = value})


\* _status.
Status(failure, gap) == IF failure THEN "FAIL" ELSE IF gap THEN "INCONCLUSIVE" ELSE "PASS"

-----------------------------------------------------------------------------
(* assess_history.                                                          *)

Repositories(pairs) == {row.repository : row \in pairs}

HistoryGap(pairs, clean) ==
  LET counted == Accepted(pairs)
  IN \/ Gap(pairs) \/ Gap(clean) \/ Contradicted(pairs) \/ Contradicted(clean)
     \/ Cardinality(Repositories(counted)) # 2
     \/ \E r \in Repositories(counted) :
          Count(counted, "repository", r) < MinPerRepository
     \/ Cardinality(counted) < MinPairs \/ Cardinality(Accepted(clean)) < MinClean
     \/ Count(counted, "real", TRUE) < 1

HistoryFailure(pairs, clean) ==
  \/ \E row \in Accepted(pairs) : row.missed
  \/ Count(Accepted(clean), "alert", "action") > MaxFalseAlerts
  \/ \E row \in Accepted(clean) : row.alert = "critical"

History(pairs, clean) == Status(HistoryFailure(pairs, clean), HistoryGap(pairs, clean))

-----------------------------------------------------------------------------
(* assess_llm.  A wrong prediction is counted and is no failure.            *)

Labelled(rows, label) == Count(rows, "label", label)

LlmGap(cases) ==
  LET counted == Accepted(cases)
  IN \/ Gap(cases) \/ Repeated(cases)
     \/ \E row \in counted : row.label = "indeterminate" \/ row.prediction = "indeterminate"
     \/ \E label \in {"positive", "negative"} :
          \/ Labelled(counted, label) < MinLabel
          \/ \E c \in Categories :
               Labelled({row \in counted : row.category = c}, label) < MinPerCategory

LlmFailure(cases) == \E row \in Accepted(cases) : ~row.sound

Llm(cases) == Status(LlmFailure(cases), LlmGap(cases))

-----------------------------------------------------------------------------
(* assess_maintenance.                                                      *)

\* The accepted rows in the order of the document.
InOrder(rows) ==
  LET Kept(i) == i \in Firsts(rows) /\ rows[i].status = "COMPLETE"
  IN [k \in 1 .. Cardinality({i \in DOMAIN rows : Kept(i)}) |->
        rows[CHOOSE i \in DOMAIN rows :
               Kept(i) /\ Cardinality({j \in 1 .. i : Kept(j)}) = k]]

\* _median_fraction, twice the median.
Median2(values) ==
  LET sorted == SortSeq(values, <)
      middle == Len(values) \div 2
  IN IF Len(values) % 2 = 1 THEN 2 * sorted[middle + 1]
     ELSE sorted[middle] + sorted[middle + 1]

Field(rows, name) == [i \in DOMAIN rows |-> rows[i][name]]

Total(rows, name) == FoldSeq(LAMBDA row, sum : sum + row[name], 0, rows)

MaintenanceGap(work) ==
  LET rows == InOrder(work)
  IN \/ Gap(work) \/ Repeated(work)
     \/ Len(rows) # ExactWork
     \/ \E use \in {"UC-CI", "UC-LLM"} :
          Count(Accepted(work), "use", use) < MinPerUse
     \/ rows = <<>> \/ Median2(Field(rows, "legacyTime")) = 0

\* The reduction of the median is at least 30 percent and no metric has grown;
\* one sum stands for the eight sums and maxima that are compared.
MaintenanceFailure(work) ==
  LET rows == InOrder(work)
  IN rows # <<>> /\
     \/ \E i \in DOMAIN rows : ~rows[i].equal
     \/ Total(rows, "gahCost") > Total(rows, "legacyCost")
     \/ LET base == Median2(Field(rows, "legacyTime"))
            delta == base - Median2(Field(rows, "gahTime"))
        IN base # 0 /\ delta * 10 < base * 3

Maintenance(work) == Status(MaintenanceFailure(work), MaintenanceGap(work))

-----------------------------------------------------------------------------
(* The document grows.                                                      *)

Observable == [pairs |-> PairRows, clean |-> CleanRows, cases |-> CaseRows, work |-> WorkRows]

Observe(kind, row) ==
  /\ row \in Observable[kind] /\ Len(observations[kind]) < MaxRows[kind]
  /\ observations' = [observations EXCEPT ![kind] = Append(@, row)]

AssessmentNext == \E kind \in Kinds : \E row \in Observable[kind] : Observe(kind, row)

-----------------------------------------------------------------------------
(* Properties.                                                              *)

\* The digests tell the truth: rows of one key with one digest are one row.
HonestDigests(rows) ==
  \A i, j \in DOMAIN rows :
    rows[i].key = rows[j].key /\ rows[i].digest = rows[j].digest => rows[i] = rows[j]

\* The answer "passed" does not depend on the order of the rows although the
\* first row of a key hides the others (_llm_rows, _maintenance_rows); for a
\* history, as long as its digests tell the truth (_history_rows).
PassIgnoresOrder ==
  LET o == observations
  IN /\ HonestDigests(o.pairs) /\ HonestDigests(o.clean) =>
          (History(o.pairs, o.clean) = "PASS" <=>
             History(Reverse(o.pairs), Reverse(o.clean)) = "PASS")
     /\ Llm(o.cases) = "PASS" <=> Llm(Reverse(o.cases)) = "PASS"
     /\ Maintenance(o.work) = "PASS" <=> Maintenance(Reverse(o.work)) = "PASS"

\* A failure that was found is not undone, hidden or diluted by more rows
\* (failure before missing in _status).
FailureStands ==
  LET o == observations
  IN /\ \A pairs \in Prefixes(o.pairs), clean \in Prefixes(o.clean) :
          History(pairs, clean) = "FAIL" => History(o.pairs, o.clean) = "FAIL"
     /\ \A cases \in Prefixes(o.cases) : Llm(cases) = "FAIL" => Llm(o.cases) = "FAIL"

\* Row i repeats the key and the digest of an earlier row.
Redelivered(rows, i) ==
  \E j \in 1 .. i - 1 : rows[j].key = rows[i].key /\ rows[j].digest = rows[i].digest

\* Behind the answer "passed" no row of the whole document says otherwise, the
\* ones that were not counted included; of a history, no row but one that states
\* the digest of an earlier row of its key, which is taken at its word.
PassHidesNothing ==
  LET o == observations
      All(rows) == {rows[i] : i \in DOMAIN rows}
      Told(rows) == {rows[i] : i \in {j \in DOMAIN rows : ~Redelivered(rows, j)}}
  IN /\ History(o.pairs, o.clean) = "PASS" =>
          /\ \A row \in Told(o.pairs) : row.status = "COMPLETE" /\ ~row.missed
          /\ \A row \in Told(o.clean) : row.status = "COMPLETE" /\ row.alert # "critical"
          /\ Cardinality({row.key : row \in All(o.pairs)}) >= MinPairs
     /\ Llm(o.cases) = "PASS" =>
          \A row \in All(o.cases) : row.status = "COMPLETE" /\ row.sound
     /\ Maintenance(o.work) = "PASS" =>
          \A row \in All(o.work) : row.status = "COMPLETE" /\ row.equal

\* The median has as many values below as above it (_median_fraction).
MedianIsMiddle ==
  LET values == Field(InOrder(observations.work), "gahTime")
      n == Len(values)
  IN n > 0 =>
       /\ 2 * Cardinality({i \in 1 .. n : 2 * values[i] <= Median2(values)}) >= n
       /\ 2 * Cardinality({i \in 1 .. n : 2 * values[i] >= Median2(values)}) >= n

\* A row that comes twice never helps.  In a history one with the digest of an
\* earlier row of its key changes nothing, one with another content is a gap as
\* long as the digests tell the truth (_history_rows); elsewhere any repetition,
\* the same row delivered again included, denies the answer "passed" (_llm_rows,
\* _maintenance_rows).
RepeatsNeverHelp ==
  LET o == observations
      Differ(rows) == \E i, j \in DOMAIN rows : rows[i].key = rows[j].key /\ rows[i] # rows[j]
      AgainAtEnd(rows) == rows # <<>> /\ Redelivered(rows, Len(rows))
  IN /\ AgainAtEnd(o.pairs) => History(Front(o.pairs), o.clean) = History(o.pairs, o.clean)
     /\ AgainAtEnd(o.clean) => History(o.pairs, Front(o.clean)) = History(o.pairs, o.clean)
     /\ HonestDigests(o.pairs) /\ HonestDigests(o.clean) /\ (Differ(o.pairs) \/ Differ(o.clean)) =>
          HistoryGap(o.pairs, o.clean)
     /\ Repeated(o.cases) => Llm(o.cases) # "PASS"
     /\ Repeated(o.work) => Maintenance(o.work) # "PASS"

=============================================================================
