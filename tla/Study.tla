------------------------------- MODULE Study -------------------------------
(***************************************************************************)
(* A full study: run.sh starts it or resumes it, `oamb run` executes the   *)
(* questions that are still missing, one process per provider cell, and    *)
(* every terminal case is added to its provider's result file; `oamb       *)
(* compare` builds the report once the files are complete and publishes it *)
(* create-only with a marker last.  Several drivers may be at work on one  *)
(* study, each may be killed anywhere, and only the provider's lifecycle   *)
(* domain keeps two cells of one provider apart.                           *)
(*                                                                         *)
(* What happens inside a cell is NativePipeline's, NativeSupervisor's and  *)
(* LiveCells' matter; here a cell seals some case, fails, or ends.         *)
(***************************************************************************)
EXTENDS ResultComparison

CONSTANTS
    Drivers,      \* shells that run run.sh, `oamb compare` or a report from snapshots
    Studies,      \* labels of full-run directories
    NoStudy, NoOwner,
    Evidences,    \* what a case may be sealed with
    Preserved,    \* the collections of snapshots there may be
    MaxStarts,    \* bound: commands started
    MaxKills,     \* bound: commands killed
    MaxSeals      \* bound: cases sealed

ASSUME StudyAssumption ==
    /\ NoStudy \notin Studies /\ NoOwner \notin Drivers
    /\ MaxStarts \in Nat /\ MaxKills \in Nat /\ MaxSeals \in Nat

VARIABLES
    plan,         \* studies whose resolved-plan.json was copied
    results,      \* study -> provider -> result file
    capsule,      \* study -> provider -> evidence of the fresh run's finalized capsule
    selector,     \* the study the full-run selector names
    owner,        \* provider -> the driver whose cell holds its lifecycle domain
    report,       \* study -> report directory -> file -> content
    cache,        \* study -> stored analyses
    snapshots,    \* preserved provider results, for a report of their own
    driver,       \* what each driver does
    used          \* the bounds used up

vars == <<plan, results, capsule, selector, owner, report, cache, snapshots, driver, used>>

disk == <<plan, results, capsule, selector, report, cache, snapshots>>

\* 0: the study's comparison; n: the directory of the n-th command; and the
\* usual ones of a comparison of capsules and of a report from snapshots.
Directories == 0..(MaxStarts + 2)

CapsuleComparison == MaxStarts + 1
SavedReport == MaxStarts + 2

NoCell == [at |-> "off", todo |-> {}, question |-> QuestionSeq[1], next |-> <<>>, sealed |-> <<>>]

Idle == [at |-> "idle", pid |-> 0, study |-> NoStudy, fresh |-> FALSE,
         cells |-> [p \in Providers |-> NoCell],
         directory |-> 0, build |-> {}, analysis |-> 0, left |-> {}]

Live(d) == {p \in Providers : driver[d].cells[p].at \in {"open", "adding"}}

Failed(d) == {p \in Providers : driver[d].cells[p].at = "failed"}

Goes(d, at) == driver' = [driver EXCEPT ![d].at = at]

Dies(d) == driver' = [driver EXCEPT ![d] = Idle]

Starts(d, command) ==
    /\ driver[d].at = "idle" /\ used.starts < MaxStarts
    /\ used' = [used EXCEPT !.starts = @ + 1]
    /\ driver' = [driver EXCEPT ![d] = [command EXCEPT !.pid = used.starts + 1]]

Put(f, x, y) == [z \in DOMAIN f \cup {x} |-> IF z = x THEN y ELSE f[z]]

(* Nothing was ever started. *)
Init ==
    /\ plan = {} /\ selector = NoStudy /\ snapshots \in Preserved
    /\ results = [s \in Studies |-> [p \in Providers |-> NoFile]]
    /\ capsule = [s \in Studies |-> [p \in Providers |-> <<>>]]
    /\ owner = [p \in Providers |-> NoOwner]
    /\ report = [s \in Studies |-> [n \in Directories |-> <<>>]]
    /\ cache = [s \in Studies |-> {}]
    /\ driver = [d \in Drivers |-> Idle]
    /\ used = [starts |-> 0, kills |-> 0, seals |-> 0]

-----------------------------------------------------------------------------
(* run.sh: a fresh study, or the one the selector names.                   *)

(* The directory is new and holds the plan.  No other driver can make it.  *)
Fresh(d, s) ==
    /\ s \notin plan /\ \A p \in Providers : ~results[s][p].exists
    /\ Starts(d, [Idle EXCEPT !.at = "init", !.study = s, !.fresh = TRUE])
    /\ plan' = plan \cup {s}
    /\ UNCHANGED <<results, capsule, selector, owner, report, cache, snapshots>>

(* The empty result files, one provider after the other. *)
InitializeResults(d) ==
    LET s == driver[d].study IN
    /\ driver[d].at = "init"
    /\ \E i \in DOMAIN ProviderSeq : \E file \in InitializeQuestionResults(results[s][ProviderSeq[i]]) :
          /\ \A j \in 1..(i - 1) : results[s][ProviderSeq[j]].exists
          /\ results' = [results EXCEPT ![s][ProviderSeq[i]] = file]
    /\ UNCHANGED <<plan, capsule, selector, owner, report, cache, snapshots, driver, used>>

(* As a bug would have it: the selector names the study before its files are there. *)
SelectEarly(d) ==
    /\ driver[d].at = "init" /\ selector # driver[d].study
    /\ selector' = driver[d].study
    /\ IF \A p \in Providers : results[driver[d].study][p].exists
       THEN Goes(d, "load") ELSE UNCHANGED driver
    /\ UNCHANGED <<plan, results, capsule, owner, report, cache, snapshots, used>>

Select(d) ==
    /\ driver[d].at = "init"
    /\ \A p \in Providers : results[driver[d].study][p].exists
    /\ selector' = driver[d].study
    /\ Goes(d, "load")
    /\ UNCHANGED <<plan, results, capsule, owner, report, cache, snapshots, used>>

(* The saved plan must be there, and `provider-services up` refuses while  *)
(* any lifecycle domain is active.                                         *)
Resume(d) ==
    /\ selector # NoStudy /\ selector \in plan
    /\ \A p \in Providers : owner[p] = NoOwner
    /\ Starts(d, [Idle EXCEPT !.at = "load", !.study = selector])
    /\ UNCHANGED <<disk, owner>>

-----------------------------------------------------------------------------
(* oamb run.                                                               *)

Loaded(s) ==
    IF \A p \in Providers : LoadQuestionResults(results[s][p]) # {}
    THEN {[p \in Providers |-> results[s][p].saved]} ELSE {}

(* Reads every result file and builds a cell for each provider that lacks  *)
(* some question.  Nothing missing: nothing is dispatched, and a fresh     *)
(* study ends there because no result map is written.                      *)
LoadSelection(d) ==
    LET s == driver[d].study
        lacking(rs) == {p \in Providers : RemainingQuestionIds(rs[p]) # {}}
    IN  /\ driver[d].at = "load"
        /\ \/ Loaded(s) = {} /\ Dies(d)
           \/ \E rs \in Loaded(s) :
                 IF lacking(rs) = {}
                 THEN IF driver[d].fresh THEN Dies(d) ELSE Goes(d, "compare")
                 ELSE IF \E p \in lacking(rs) : owner[p] # NoOwner THEN Dies(d)
                 ELSE driver' = [driver EXCEPT ![d].at = "run",
                        ![d].cells = [p \in Providers |->
                            IF p \in lacking(rs)
                            THEN [NoCell EXCEPT !.at = "built", !.todo = RemainingQuestionIds(rs[p])]
                            ELSE NoCell]]
        /\ UNCHANGED <<disk, owner, used>>

Cell(d, p, c) == driver' = [driver EXCEPT ![d].cells[p] = c]

(* As a bug would have it: a cell runs without the provider's domain. *)
OpenCellUnowned(d, p) ==
    LET c == driver[d].cells[p] IN
    /\ driver[d].at = "run" /\ c.at = "built" /\ Failed(d) = {}
    /\ owner' = [owner EXCEPT ![p] = d]
    /\ Cell(d, p, [c EXCEPT !.at = "open"])
    /\ UNCHANGED <<disk, used>>

(* A cell is admitted while none has failed, and takes the domain or fails. *)
OpenCell(d, p) ==
    LET c == driver[d].cells[p] IN
    /\ driver[d].at = "run" /\ c.at = "built" /\ Failed(d) = {}
    /\ IF owner[p] = NoOwner
       THEN owner' = [owner EXCEPT ![p] = d] /\ Cell(d, p, [c EXCEPT !.at = "open"])
       ELSE UNCHANGED owner /\ Cell(d, p, [c EXCEPT !.at = "failed"])
    /\ UNCHANGED <<disk, used>>

(* The case's evidence is sealed and its result projected; the file is     *)
(* read and the addition accepted, or the publisher raises.                *)
SealCase(d, p, q, e) ==
    LET c == driver[d].cells[p]
        s == driver[d].study
        additions == UNION {AddQuestionResult(results[s][p], q, r) : r \in ProjectNativeQuestionResult(e)}
    IN  /\ c.at = "open" /\ q \in c.todo /\ used.seals < MaxSeals
        /\ used' = [used EXCEPT !.seals = @ + 1]
        /\ \/ /\ additions = {}
              /\ Cell(d, p, [c EXCEPT !.at = "failed"])
              /\ owner' = [owner EXCEPT ![p] = NoOwner]
           \/ \E next \in additions :
                 /\ Cell(d, p, [c EXCEPT !.at = "adding", !.question = q, !.next = next,
                                         !.sealed = Put(@, q, e)])
                 /\ UNCHANGED owner
        /\ UNCHANGED disk

(* The file is replaced by what was made of the content read before. *)
SaveResult(d, p) ==
    LET c == driver[d].cells[p] IN
    /\ c.at = "adding"
    /\ results' = [results EXCEPT ![driver[d].study][p] = File(c.next)]
    /\ Cell(d, p, [c EXCEPT !.at = "open", !.todo = @ \ {c.question}, !.next = <<>>])
    /\ UNCHANGED <<plan, capsule, selector, owner, report, cache, snapshots, used>>

FinishCell(d, p) ==
    LET c == driver[d].cells[p] IN
    /\ c.at = "open" /\ c.todo = {}
    /\ Cell(d, p, [c EXCEPT !.at = "done"])
    /\ owner' = [owner EXCEPT ![p] = NoOwner]
    /\ capsule' = IF driver[d].fresh
                  THEN [capsule EXCEPT ![driver[d].study][p] = c.sealed] ELSE capsule
    /\ UNCHANGED <<plan, results, selector, report, cache, snapshots, used>>

(* A stage fails for good, or the stop shared with a failed cell arrives. *)
FailCell(d, p) ==
    LET c == driver[d].cells[p] IN
    /\ c.at = "open" /\ c.todo # {}
    /\ Cell(d, p, [c EXCEPT !.at = "failed"])
    /\ owner' = [owner EXCEPT ![p] = NoOwner]
    /\ UNCHANGED <<disk, used>>

EndRun(d) ==
    LET ats == {driver[d].cells[p].at : p \in Providers} IN
    /\ driver[d].at = "run" /\ ats \cap {"open", "adding"} = {}
    /\ \/ "failed" \in ats /\ Dies(d)
       \/ /\ ats \cap {"failed", "built"} = {}
          /\ Goes(d, IF driver[d].fresh THEN "validate" ELSE "compare")
    /\ UNCHANGED <<disk, owner, used>>

(* A fresh run's capsules are validated; NativeCapsule says with what result. *)
ValidateCapsules(d) ==
    /\ driver[d].at = "validate"
    /\ Goes(d, "compare") \/ Dies(d)
    /\ UNCHANGED <<disk, owner, used>>

-----------------------------------------------------------------------------
(* oamb compare and the report.                                            *)

(* The usual directory, or one of this command's own if it is there. *)
ChooseDirectory(d) ==
    /\ driver[d].at = "compare"
    /\ driver' = [driver EXCEPT ![d].at = "build",
            ![d].directory = IF report[driver[d].study][0] = <<>> THEN 0 ELSE driver[d].pid]
    /\ UNCHANGED <<disk, owner, used>>

BuildReport(d) ==
    LET s == driver[d].study
        builds == UNION {BuildQuestionResultsComparisonProject(rs, NoLimits) : rs \in Loaded(s)}
    IN  /\ driver[d].at = "build"
        /\ \/ builds = {} /\ Dies(d)
           \/ builds # {} /\ driver' = [driver EXCEPT ![d].at = "analysis", ![d].build = builds]
        /\ UNCHANGED <<disk, owner, used>>

Payloads(a) == {"pairs", "html", "export"} \cup (IF a = 0 THEN {} ELSE {"analysis"})

Files(a) == Payloads(a) \cup {"checksums", "marker"}

PublicationOrder ==
    [pairs |-> 1, analysis |-> 2, html |-> 3, export |-> 4, checksums |-> 5, marker |-> 6]

Foremost(left) == {name \in left : \A other \in left : PublicationOrder[name] <= PublicationOrder[other]}

Publishes(d, a) ==
    driver' = [driver EXCEPT ![d].at = "publish", ![d].analysis = a, ![d].left = Files(a)]

Stored(s, build) == {x \in cache[s] : x.build = build}

(* The analysis: the stored one of this very report, or the model is asked *)
(* (0: there is none; otherwise the command that obtained it).             *)
FindAnalysis(d) ==
    LET stored == Stored(driver[d].study, driver[d].build) IN
    /\ driver[d].at = "analysis"
    /\ \/ stored = {} /\ Goes(d, "asking")
       \/ \E x \in stored : Publishes(d, x.text)
    /\ UNCHANGED <<disk, owner, used>>

(* The model fails, or its answer is stored create-only: another answer    *)
(* there already leaves this report without one.                           *)
AnswerAnalysis(d) ==
    LET s == driver[d].study IN
    /\ driver[d].at = "asking"
    /\ \/ Publishes(d, 0) /\ UNCHANGED cache
       \/ /\ Stored(s, driver[d].build) # {}
          /\ Publishes(d, 0) /\ UNCHANGED cache
       \/ /\ Stored(s, driver[d].build) = {}
          /\ Publishes(d, driver[d].pid)
          /\ cache' = [cache EXCEPT ![s] = @ \cup {[build |-> driver[d].build, text |-> driver[d].pid]}]
    /\ UNCHANGED <<plan, results, capsule, selector, owner, report, snapshots, used>>

(* What each file says: the pair documents and the export do not have the  *)
(* analysis, the page, the checksums and the marker depend on it.          *)
Content(name, build, a) ==
    [build |-> build, text |-> IF name \in {"pairs", "export"} THEN 0 ELSE a]

(* As a bug would have it: the file is written over whatever is there. *)
PublishFileOver(d) ==
    LET s == driver[d].study
        files == report[s][driver[d].directory]
    IN  /\ driver[d].at = "publish"
        /\ \E name \in Foremost(driver[d].left) :
              LET content == Content(name, driver[d].build, driver[d].analysis) IN
              /\ report' = [report EXCEPT ![s][driver[d].directory] = Put(files, name, content)]
              /\ driver' = [driver EXCEPT ![d].left = @ \ {name}]
        /\ UNCHANGED <<plan, results, capsule, selector, owner, cache, snapshots, used>>

(* Create-only: the same bytes are fine, other bytes end the publication. *)
PublishFile(d) ==
    LET s == driver[d].study
        files == report[s][driver[d].directory]
    IN  /\ driver[d].at = "publish"
        /\ \E name \in Foremost(driver[d].left) :
              LET content == Content(name, driver[d].build, driver[d].analysis) IN
              IF name \in DOMAIN files /\ files[name] # content
              THEN UNCHANGED report /\ Dies(d)
              ELSE /\ report' = [report EXCEPT ![s][driver[d].directory] = Put(files, name, content)]
                   /\ driver' = [driver EXCEPT ![d].left = @ \ {name}]
        /\ UNCHANGED <<plan, results, capsule, selector, owner, cache, snapshots, used>>

(* The publication is reopened; whether it verifies or not, run.sh ends. *)
VerifyReport(d) ==
    /\ driver[d].at = "publish" /\ driver[d].left = {}
    /\ Dies(d)
    /\ UNCHANGED <<disk, owner, used>>

(* The other ways to a report: from the fresh run's capsules, which have   *)
(* one revision, and from preserved snapshots.  Each takes its usual       *)
(* directory while it is absent, so that two commands may meet in it, and  *)
(* goes on with the analysis.                                              *)
ReportDirectly(d, s, builds, usual) ==
    \E build \in builds :
        Starts(d, [Idle EXCEPT !.at = "analysis", !.study = s, !.build = {build},
                               !.directory = IF report[s][usual] = <<>> THEN usual ELSE used.starts + 1])

CompareCapsules(d, s, diagnostic) ==
    /\ s \in plan
    /\ \A p \in Providers : DOMAIN capsule[s][p] # {}
    /\ ReportDirectly(d, s, BuildComparisonProject(capsule[s], TRUE, TRUE, diagnostic),
                      CapsuleComparison)
    /\ UNCHANGED <<disk, owner>>

GenerateReport(d, s) ==
    /\ snapshots # {} /\ s \in plan
    /\ \E rs \in Loaded(s) : ReportDirectly(d, s, BuildSavedResultsReport(snapshots, rs), SavedReport)
    /\ UNCHANGED <<disk, owner>>

(* SIGKILL to the command's process group, then `provider-services stop`,  *)
(* which clears every domain or fails.  The operator is assumed not to     *)
(* interrupt one driver while another has a cell at work.                  *)
Kill(d) ==
    /\ driver[d].at # "idle" /\ used.kills < MaxKills
    /\ \A o \in Drivers \ {d} : Live(o) = {}
    /\ used' = [used EXCEPT !.kills = @ + 1]
    /\ Dies(d)
    /\ \E cleared \in BOOLEAN :
          owner' = IF cleared THEN [p \in Providers |-> NoOwner] ELSE owner
    /\ UNCHANGED disk

-----------------------------------------------------------------------------
CellStep(d, p) ==
    \/ OpenCell(d, p)
    \/ \E q \in Questions, e \in Evidences : SealCase(d, p, q, e)
    \/ SaveResult(d, p)
    \/ FinishCell(d, p)
    \/ FailCell(d, p)

Next ==
    \E d \in Drivers :
        \/ \E s \in Studies : Fresh(d, s) \/ GenerateReport(d, s)
        \/ \E s \in Studies, diagnostic \in BOOLEAN : CompareCapsules(d, s, diagnostic)
        \/ InitializeResults(d) \/ Select(d) \/ Resume(d)
        \/ LoadSelection(d) \/ EndRun(d) \/ ValidateCapsules(d)
        \/ \E p \in Providers : CellStep(d, p)
        \/ ChooseDirectory(d) \/ BuildReport(d)
        \/ FindAnalysis(d) \/ AnswerAnalysis(d)
        \/ PublishFile(d) \/ VerifyReport(d)
        \/ Kill(d)

Spec == Init /\ [][Next]_vars

-----------------------------------------------------------------------------
(* Properties.                                                             *)

(* No step of any driver changes or drops a result that is in a provider's *)
(* file, although every addition rewrites the whole file from a copy read  *)
(* before (add_question_result), and the cells' processes share nothing    *)
(* but the file and the lifecycle domain.                                  *)
SavedStays ==
    [][\A s \in Studies, p \in Providers : \A q \in DOMAIN results[s][p].saved :
          /\ q \in DOMAIN results'[s][p].saved
          /\ results'[s][p].saved[q] = results[s][p].saved[q]]_vars

(* The study the selector names can always be resumed: its plan is saved   *)
(* and every provider's result file exists, wherever a fresh start was     *)
(* killed (run.sh publishes the selector last).                            *)
SelectorNamesWhole ==
    selector # NoStudy => /\ selector \in plan
                          /\ \A p \in Providers : Loaded(selector) # {} /\ results[selector][p].exists

(* A report directory with a marker has the checksums and every file they  *)
(* name, all of one build, although two commands may publish into the same *)
(* directory; and the comparison shows the study's results as they are     *)
(* now.                                                                    *)
MarkedReportStands ==
    \A s \in Studies, n \in Directories :
        LET files == report[s][n] IN
        "marker" \in DOMAIN files =>
            /\ "checksums" \in DOMAIN files
            /\ LET index == files["checksums"] IN
                  /\ \A name \in Payloads(index.text) \cup {"marker"} :
                        name \in DOMAIN files /\ files[name] = Content(name, index.build, index.text)
                  /\ n = 0 => index.build =
                        BuildQuestionResultsComparisonProject(
                            [p \in Providers |-> results[s][p].saved], NoLimits)

(* The chance that as uneven a split of the questions that only one of two *)
(* providers got right arises by coin flips: all splits are counted.       *)
ExactP(mine, theirs) ==
    LET differ == (mine \ theirs) \cup (theirs \ mine)
        uneven(A) == Abs(2 * Cardinality(A) - Cardinality(differ))
    IN  [num |-> Cardinality({A \in SUBSET differ : uneven(A) >= uneven(mine \ theirs)}),
         den |-> 2^Cardinality(differ)]

Beats(mine, theirs) ==
    /\ Cardinality(mine) > Cardinality(theirs)
    /\ AtMost(MinDelta, [num |-> Cardinality(mine) - Cardinality(theirs), den |-> CaseCount])
    /\ AtMost(ExactP(mine, theirs), MaxP)

(* A published full report names a leader exactly when every question of   *)
(* every provider was judged and that provider beats each other one by the *)
(* plan's difference and the exact two-sided test over all splits          *)
(* (_report_accuracy_decision and the pair decisions it combines); a       *)
(* diagnostic report, or one from snapshots with a limitation, names none  *)
(* that the test does not support.                                         *)
LeaderIsProven ==
    \A s \in Studies, n \in Directories :
        "export" \in DOMAIN report[s][n] =>
            \A b \in report[s][n]["export"].build :
                LET cases(p) == b.cells[p].document.cases
                    right(p) == {q \in DOMAIN cases(p) : cases(p)[q].shown = "correct"}
                    wrong(p) == {q \in DOMAIN cases(p) : cases(p)[q].shown = "incorrect"}
                    proven(p) == /\ \A o \in Providers : right(o) \cup wrong(o) = Questions
                                 /\ \A o \in Providers \ {p} : Beats(right(p), right(o))
                IN  /\ b.leader # NoLeader => proven(b.leader)
                    /\ n = 0 => \A p \in Providers : proven(p) => b.leader = p

(* Case by case the recovered session counters replace unproven usage; the *)
(* capsules replace it only when all cases need it.                        *)
OneUsageSource(es) ==
    LET bare(e) == \A i \in DOMAIN Selected(<<e>>) : Selected(<<e>>)[i].proof = "unavailable" IN
    \/ \A q \in DOMAIN es : es[q].session => ~bare(es[q])
    \/ \A q \in DOMAIN es : es[q].session /\ bare(es[q]) /\ es[q].snapshots # <<>>

(* Where a study was run in one piece, the report made from its capsules   *)
(* and the one made from its result files say the same of every provider:  *)
(* judged and correct questions, skipped sources, indexing tokens and how  *)
(* completely they are known, time to ready, context; and of every pair    *)
(* and the leader (build_comparison_project against                        *)
(* build_question_results_comparison_project).                             *)
PathsAgree ==
    \A s \in Studies :
        (\A p \in Providers : DOMAIN capsule[s][p] = Questions) =>
            \A a \in BuildComparisonProject(capsule[s], TRUE, TRUE, FALSE),
               b \in BuildQuestionResultsComparisonProject(
                        [p \in Providers |-> results[s][p].saved], NoLimits) :
                /\ \A p \in Providers :
                      LET x == a.cells[p]
                          y == b.cells[p]
                      IN  /\ \A f \in {"caseCount", "judged", "num", "den", "accuracy"} :
                                x.document[f] = y.document[f]
                          /\ x.skipped = y.skipped /\ x.partial = y.partial
                          /\ x.accounting.context = y.accounting.context
                          /\ x.time.ready = y.time.ready
                          /\ OneUsageSource(capsule[s][p]) => x.accounting.tokens = y.accounting.tokens
                /\ a.pairs = b.pairs /\ a.leader = b.leader
=============================================================================
