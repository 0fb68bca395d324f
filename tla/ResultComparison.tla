-------------------------- MODULE ResultComparison -------------------------
(***************************************************************************)
(* The comparison report (oamb/reporting/comparison_project.py and         *)
(* saved_results.py): documents of the cells, of every pair and of every   *)
(* question, and the decision whether one provider leads.  A cell document *)
(* is made on two paths, from the sealed capsules' evidence or from the    *)
(* saved question results.  Fractions are compared by multiplying out.     *)
(***************************************************************************)
EXTENDS QuestionResults, Combinatorics

CONSTANTS
    ProviderSeq,        \* the plan's cells, one provider each, in plan order
    MinDelta,           \* [num, den]: the least difference that decides
    MaxP                \* [num, den]: the largest p-value that decides

Providers == ToSet(ProviderSeq)

CaseCount == Len(QuestionSeq)

ASSUME ComparisonAssumption ==
    /\ IsInjective(ProviderSeq) /\ Len(ProviderSeq) >= 2
    /\ \A f \in {MinDelta, MaxP} : f.den > 0 /\ f.num \in 0..f.den

NoLeader == "none"

AtMost(a, b) == a.num * b.den <= b.num * a.den

Abs(n) == IF n < 0 THEN -n ELSE n

-----------------------------------------------------------------------------
(* Measurements of a cell.                                                 *)

Ordered(f) == SelectSeq(QuestionSeq, LAMBDA q : q \in DOMAIN f)

InOrder(f, V(_)) == LET qs == Ordered(f) IN [i \in DOMAIN qs |-> V(f[qs[i]])]

Sorted(values) == SortSeq(values, LAMBDA a, b : a < b)

(* Median (doubled), 95th percentile by nearest rank, and maximum.         *)
DurationSummary(values) ==
    LET s == Sorted(values)
        n == Len(s)
        mid == n \div 2
    IN  IF n = 0 THEN [count |-> 0, median2 |-> Unavailable, p95 |-> Unavailable, max |-> Unavailable]
        ELSE [count |-> n,
              median2 |-> IF n % 2 = 1 THEN 2 * s[mid + 1] ELSE s[mid] + s[mid + 1],
              p95 |-> s[(95 * n + 99) \div 100], max |-> s[n]]

(* The saved measurements of the questions, put together.                  *)
QuestionResultIndexingTokenStage(rs) ==
    LET tokens == InOrder(rs, LAMBDA r : r.tokens)
        measured == SelectSeq(tokens, LAMBDA t : t.value # Unavailable)
    IN  [status |-> Coverage(measured # <<>>, Len(measured) # Len(tokens),
                             \E i \in DOMAIN tokens : tokens[i].status = "measured_partial"),
         value |-> IF measured = <<>> THEN Unavailable
                   ELSE Total([i \in DOMAIN measured |-> measured[i].value])]

QuestionResultRetrievalProofState(rs) ==
    LET states == {rs[q].proof : q \in DOMAIN rs} IN
    CASE "unsupported" \in states -> "unsupported"
      [] "unsupported" \notin states /\ "unattested" \in states -> "unattested"
      [] states \cap {"unsupported", "unattested"} = {}
         /\ "build_provenance_verified" \in states -> "build_provenance_verified"
      [] OTHER -> "runtime_verified"

RetrievalRuntimeProof(es) ==
    LET proofs == {es[q].proof : q \in DOMAIN es} IN
    CASE proofs = {} \/ "unavailable" \in proofs -> "unavailable"
      [] proofs = {"runtime_verified"} -> "runtime_verified"
      [] OTHER -> "invalid"

-----------------------------------------------------------------------------
(* Cell documents.  A case that was not judged has no numerator.           *)

Judged(cases) == {q \in DOMAIN cases : cases[q].judged}

Correct(cases) == {q \in Judged(cases) : cases[q].num = 1}

(* Wilson's interval is a function of these two counts. *)
AccuracySlice(cases) == [num |-> Cardinality(Correct(cases)), den |-> Cardinality(Judged(cases))]

CellOf(p, source, cases, completed) ==
    [cell |-> p, source |-> source, cases |-> cases, caseCount |-> Cardinality(DOMAIN cases),
     completed |-> completed, judged |-> Cardinality(Judged(cases)),
     num |-> Cardinality(Correct(cases)), den |-> Cardinality(Judged(cases)),
     accuracy |-> IF Cardinality(DOMAIN cases) = CaseCount THEN {AccuracySlice(cases)} ELSE {}]

QuestionResultCaseDocument(r) ==
    [state |-> IF r.terminal = "judged" THEN "completed" ELSE "error",
     judged |-> r.terminal = "judged", num |-> r.num,
     shown |-> CASE r.terminal = "judged" -> IF r.num = 1 THEN "correct" ELSE "incorrect"
                 [] r.terminal = "unjudged" -> "unjudged"
                 [] OTHER -> "failed"]

QuestionResultAccountingDocument(rs) ==
    [tokens |-> QuestionResultIndexingTokenStage(rs),
     context |-> Total(InOrder(rs, LAMBDA r : r.context)),
     attempts |-> Total(InOrder(rs, LAMBDA r : r.attempts.ingestion + r.attempts.retrieval
                                               + r.attempts.answer + r.attempts.judge))]

QuestionResultObservedTime(rs) ==
    [ready |-> DurationSummary(InOrder(rs, LAMBDA r : r.ready)),
     request |-> DurationSummary(InOrder(rs, LAMBDA r : r.request))]

(* Every saved result counts as completed here.                            *)
QuestionResultCellDocument(p, rs) ==
    [document |-> CellOf(p, "question_results",
                         [q \in DOMAIN rs |-> QuestionResultCaseDocument(rs[q])],
                         Cardinality(DOMAIN rs)),
     skipped |-> Total(InOrder(rs, LAMBDA r : r.skipped)),
     partial |-> Cardinality({q \in DOMAIN rs : rs[q].skipped > 0}),
     accounting |-> QuestionResultAccountingDocument(rs),
     time |-> QuestionResultObservedTime(rs),
     proof |-> QuestionResultRetrievalProofState(rs)]

\* How an error is worded (unknown, timeout, blocked, unavailable) is left out.
CaseDisplayState(e) ==
    CASE e.state = "completed" /\ e.judged -> IF e.num = 1 THEN "correct" ELSE "incorrect"
      [] e.state = "completed" /\ ~e.judged -> "unjudged"
      [] OTHER -> "failed"

CaseDocument(e) ==
    [state |-> e.state, judged |-> e.judged, num |-> IF e.judged THEN e.num ELSE Unavailable,
     shown |-> CaseDisplayState(e)]

AccountingDocument(es) ==
    [tokens |-> TokenStageDocument(Recovered(InOrder(es, LAMBDA e : e))),
     context |-> Total(InOrder(es, LAMBDA e : e.context)),
     attempts |-> Total(InOrder(es, LAMBDA e : Len(e.ingestions) + Len(e.queries) + e.calls))]

\* Every plan of a capsule that is reported is ready or sealed.
IndexingReadySummary(es) ==
    DurationSummary(LET measured == SelectSeq(InOrder(es, LAMBDA e : e), ReadyMeasured) IN
                    [i \in DOMAIN measured |-> ReadyDuration(measured[i])])

ObservedTime(es) ==
    [ready |-> IndexingReadySummary(es),
     request |-> DurationSummary(FlattenSeq(InOrder(es, LAMBDA e :
                    [i \in DOMAIN e.queries |-> e.queries[i].end - e.queries[i].start])))]

CellDocument(p, es) ==
    [document |-> CellOf(p, "capsule", [q \in DOMAIN es |-> CaseDocument(es[q])],
                         Cardinality({q \in DOMAIN es : es[q].state = "completed"})),
     skipped |-> Total(InOrder(es, LAMBDA e : e.skipped)),
     partial |-> Cardinality({q \in DOMAIN es : es[q].skipped > 0}),
     accounting |-> AccountingDocument(es),
     time |-> ObservedTime(es),
     proof |-> RetrievalRuntimeProof(es)]

-----------------------------------------------------------------------------
(* Pairs.                                                                  *)

BinaryAccuracyOutcome(c) == c.state = "completed" /\ c.judged /\ c.num \in {0, 1}

(* As a bug would have it: the tail of one side only. *)
ExactMcNemarDocumentOneSided(leftOnly, rightOnly) ==
    LET n == leftOnly + rightOnly
        less == IF leftOnly < rightOnly THEN leftOnly ELSE rightOnly
        tail == Total([i \in 1..(less + 1) |-> choose(n, i - 1)])
    IN  IF n = 0 THEN [num |-> 1, den |-> 1] ELSE [num |-> tail, den |-> 2^n]

ExactMcNemarDocument(leftOnly, rightOnly) ==
    LET n == leftOnly + rightOnly
        less == IF leftOnly < rightOnly THEN leftOnly ELSE rightOnly
        tail == Total([i \in 1..(less + 1) |-> choose(n, i - 1)])
    IN  IF n = 0 \/ 2 * tail > 2^n THEN [num |-> 1, den |-> 1]
        ELSE [num |-> 2 * tail, den |-> 2^n]

(* {} when some question was not judged on both sides. *)
PairedAccuracyDocument(left, right) ==
    IF /\ DOMAIN left.cases = DOMAIN right.cases
       /\ \A q \in DOMAIN left.cases :
             BinaryAccuracyOutcome(left.cases[q]) /\ BinaryAccuracyOutcome(right.cases[q])
    THEN {[left |-> Cardinality(Correct(left.cases) \ Correct(right.cases)),
           right |-> Cardinality(Correct(right.cases) \ Correct(left.cases)),
           p |-> ExactMcNemarDocument(Cardinality(Correct(left.cases) \ Correct(right.cases)),
                                      Cardinality(Correct(right.cases) \ Correct(left.cases)))]}
    ELSE {}

PairAccuracyDecision(left, right, comparable, complete, delta, paired) ==
    IF /\ comparable /\ complete
       /\ \E d \in delta : AtMost(MinDelta, [num |-> Abs(d.num), den |-> d.den]) /\ d.num # 0
       /\ \E a \in paired : AtMost(a.p, MaxP)
    THEN IF \E d \in delta : d.num > 0 THEN left.cell ELSE right.cell
    ELSE NoLeader

(* limits: limitations the caller found between the two sources.  The      *)
(* capsules of a pair must come from one code revision.                    *)
PairDocument(left, right, limits, oneRevision, complete) ==
    LET comparable ==
            /\ limits = {}
            /\ \/ left.source = "question_results" /\ right.source = "question_results"
               \/ oneRevision
            /\ left.judged = left.caseCount /\ right.judged = right.caseCount
            /\ left.completed = left.caseCount /\ right.completed = right.caseCount
            /\ left.den > 0 /\ right.den > 0
        paired == PairedAccuracyDocument(left, right)
        delta == IF comparable /\ paired # {}
                 THEN {[num |-> left.num * right.den - right.num * left.den,
                        den |-> left.den * right.den]}
                 ELSE {}
    IN  [left |-> left.cell, right |-> right.cell, delta |-> delta, paired |-> paired,
         comparable |-> comparable /\ paired # {},
         leader |-> PairAccuracyDecision(left, right, comparable /\ paired # {}, complete, delta, paired)]

-----------------------------------------------------------------------------
(* The report: cells, the pairs in plan order, the questions, the leader.  *)

Pairs(docs, limits, oneRevision, complete) ==
    LET order == {ij \in (1..Len(ProviderSeq)) \X (1..Len(ProviderSeq)) : ij[1] < ij[2]}
    IN  {PairDocument(docs[ProviderSeq[ij[1]]].document, docs[ProviderSeq[ij[2]]].document,
                      limits[ProviderSeq[ij[1]], ProviderSeq[ij[2]]], oneRevision, complete)
           : ij \in order}

ReportAccuracyDecision(cells, pairs) ==
    LET best == {p \in DOMAIN cells : \A o \in DOMAIN cells :
                     cells[o].num * cells[p].den <= cells[p].num * cells[o].den}
        pairsOf(p) == {x \in pairs : p \in {x.left, x.right}}
    IN  IF /\ \A p \in DOMAIN cells : /\ cells[p].caseCount = CaseCount
                                      /\ cells[p].completed = CaseCount
                                      /\ cells[p].judged = CaseCount
                                      /\ cells[p].den = CaseCount
           /\ Cardinality(best) = 1
           /\ \A p \in best : /\ Cardinality(pairsOf(p)) = Cardinality(DOMAIN cells) - 1
                              /\ \A x \in pairsOf(p) : x.leader = p
        THEN CHOOSE p \in best : TRUE
        ELSE NoLeader

(* The published export is checked again before it is written: the matrix  *)
(* of questions and providers is whole, and a diagnostic report covers     *)
(* some but not all questions and has no accuracy.                         *)
ValidateComparisonExport(report) ==
    \A p \in DOMAIN report.cells :
        LET c == report.cells[p].document IN
        /\ IF report.diagnostic
           THEN c.caseCount \in 1..(CaseCount - 1) /\ c.accuracy = {}
           ELSE c.caseCount = CaseCount /\ c.accuracy = {AccuracySlice(c.cases)}
        /\ \A o \in DOMAIN report.cells :
              DOMAIN report.cells[o].document.cases = DOMAIN c.cases

ReportOf(docs, limits, oneRevision, diagnostic) ==
    LET pairs == Pairs(docs, limits, oneRevision, ~diagnostic)
        report == [cells |-> docs, pairs |-> pairs, diagnostic |-> diagnostic,
                   unproven |-> {p \in Providers : docs[p].proof # "runtime_verified"},
                   leader |-> ReportAccuracyDecision([p \in Providers |-> docs[p].document], pairs)]
    IN  IF ValidateComparisonExport(report) THEN {report} ELSE {}

NoLimits == [lr \in Providers \X Providers |-> {}]

(* From the saved results of every provider. *)
BuildQuestionResultsComparisonProject(rs, limits) ==
    IF \A p \in Providers : RequireCompleteQuestionResults(rs[p])
    THEN ReportOf([p \in Providers |-> QuestionResultCellDocument(p, rs[p])], limits, FALSE, FALSE)
    ELSE {}

(* From the capsules: every one validated now as it was before, all with   *)
(* the same cases, all of the manifest's unless the report is diagnostic.  *)
RequireSharedCaseManifest(es, diagnostic) ==
    /\ \A p, o \in Providers : DOMAIN es[p] = DOMAIN es[o]
    /\ \A p \in Providers : IF diagnostic THEN DOMAIN es[p] # {} ELSE DOMAIN es[p] = Questions

BuildComparisonProject(es, validated, oneRevision, diagnostic) ==
    IF /\ validated
       /\ RequireSharedCaseManifest(es, diagnostic)
       /\ \A p \in Providers : /\ UsageCloses(InOrder(es[p], LAMBDA e : e))
                               /\ \A q \in DOMAIN es[p] :
                                     ReadyMeasured(es[p][q]) => ReadySettled(es[p][q])
    THEN ReportOf([p \in Providers |-> CellDocument(p, es[p])], NoLimits, oneRevision, diagnostic)
    ELSE {}

-----------------------------------------------------------------------------
(* Reports from preserved snapshots, each with one provider's results and  *)
(* the plan they were made under.                                          *)

(* {} unless every snapshot that has results and a plan has one provider's *)
(* and each provider occurs once.                                          *)
DiscoverSavedProviderInputs(snapshots) ==
    LET found == {s \in snapshots : s.whole} IN
    IF /\ \A s \in found : Cardinality(s.holds) = 1
       /\ \A s, t \in found : s.holds = t.holds => s = t
       /\ UNION {s.holds : s \in found} = Providers
    THEN {[p \in Providers |-> CHOOSE s \in found : p \in s.holds]}
    ELSE {}

(* The plan most of the readable snapshots share; of equals the least.     *)
SelectReferencePlan(sources) ==
    LET readable == {p \in Providers : sources[p].readable}
        votes(h) == Cardinality({p \in readable : sources[p].plan = h})
        plans == {sources[p].plan : p \in readable}
    IN  {h \in plans : \A k \in plans : votes(k) < votes(h) \/ (votes(k) = votes(h) /\ h <= k)}

RequireSharedReportPolicy(sources, reference) ==
    \E r \in Providers :
        /\ sources[r].readable /\ sources[r].plan = reference
        /\ \A p \in Providers : sources[p].policy = sources[r].policy

(* The candidate ceiling: a report control may supply it, never change it. *)
ControlAgrees(s) == s.control # 0 /\ s.topK # 0 => s.control = s.topK

Ceiling(s) == IF s.control # 0 THEN s.control ELSE s.topK

MostCandidates(rs) == CHOOSE n \in {rs[q].candidates : q \in DOMAIN rs} :
                         \A q \in DOMAIN rs : rs[q].candidates <= n

SavedPairLimits(sources, rs) ==
    [lr \in Providers \X Providers |->
        LET a == Ceiling(sources[lr[1]])
            b == Ceiling(sources[lr[2]])
        IN  CASE a = 0 \/ b = 0 \/ a # b -> {"ceiling not shared"}
              [] a = b /\ a # 0 /\ (\E p \in {lr[1], lr[2]} : MostCandidates(rs[p]) > a) -> {"ceiling exceeded"}
              [] OTHER -> {}]

BuildSavedResultsReport(snapshots, rs) ==
    UNION {BuildQuestionResultsComparisonProject(rs, SavedPairLimits(sources, rs))
             : sources \in {s \in DiscoverSavedProviderInputs(snapshots) :
                              /\ \E h \in SelectReferencePlan(s) : RequireSharedReportPolicy(s, h)
                              /\ \A p \in Providers : ControlAgrees(s[p]) /\ DOMAIN rs[p] # {}}}
=============================================================================
