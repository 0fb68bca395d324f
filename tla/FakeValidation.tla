---------------------------- MODULE FakeValidation ---------------------------
(***************************************************************************)
(* The rules by which artifacts/validation/fake.py decides whether the     *)
(* capsule of a fake run is evidence.  A file is <<kind, name, content>>;  *)
(* a rule that the code states as a list of issues is here the predicate   *)
(* that there are none.                                                    *)
(***************************************************************************)
EXTENDS FakeRecords

Records(files, kind) == {f[3] : f \in {g \in files : g[1] = kind}}
Has(S, id) == \E x \in S : x.id = id
The(S, id) == CHOOSE x \in S : x.id = id
Ids(S) == {x.id : x \in S}
Unique(seq) == Len(seq) = Cardinality(ToSet(seq))

\* load_fake_capsule
Snapshot(manifest, files) ==
    [manifest |-> manifest, files |-> files,
     raws     |-> Records(files, "raw"),
     runs     |-> Records(files, "run"),       specs    |-> Records(files, "spec"),
     datasets |-> Records(files, "dataset"),   cases    |-> Records(files, "case"),
     manifests |-> Records(files, "caseManifest"), budgets |-> Records(files, "budget"),
     origins  |-> Records(files, "origin"),    contexts |-> Records(files, "context"),
     plans    |-> Records(files, "plan"),      attempts |-> Records(files, "attempt"),
     usages   |-> Records(files, "usage"),     closes   |-> Records(files, "close")]

ManifestPlan(s, p) == CHOOSE m \in UNION {c.plans : c \in s.manifests} : m.plan = p
ManifestCase(s, q) == CHOOSE m \in UNION {ToSet(c.cases) : c \in s.manifests} : m.id = q
PlanOf(s, occurrence) == The(s.plans, occurrence)

-----------------------------------------------------------------------------
(* fake.schema.v1, fake.manifest-closure.v1                                *)

\* Each record is the one its file name says, and its contract holds.
SchemaRule(s) ==
    \A f \in s.files :
        /\ f[1] \in {"attempt", "usage", "plan", "case", "context", "origin", "close"} => f[3].id = f[2]
        /\ f[1] = "attempt" => AttemptCloses(f[3])
        /\ f[1] = "usage" => UsageCloses(f[3])
        /\ f[1] = "plan" => PlanRecordCloses(f[3])
        /\ f[1] = "case" => CaseRecordCloses(f[3])

ManifestRule(s) == s.manifest.entries = s.files

-----------------------------------------------------------------------------
(* fake.parentage.v1                                                       *)

ControlBinds(s) ==
    /\ Cardinality(s.runs) = 1 /\ Cardinality(s.specs) = 1 /\ Cardinality(s.datasets) = 1
    /\ Cardinality(s.manifests) = 1 /\ Cardinality(s.budgets) = 1
    /\ \A run \in s.runs, spec \in s.specs, dataset \in s.datasets, m \in s.manifests, budget \in s.budgets :
          /\ run.id = s.manifest.run /\ run.spec = s.manifest.spec /\ run.spec = spec
          /\ spec.run = run.id /\ spec.dataset = dataset /\ spec.cases = m /\ spec.workload = m.workload
          /\ budget.budget = spec.budget /\ budget.scope = run.id /\ budget.attempts = 0 /\ budget.tokens = 0
          /\ spec.protocol = "oamb-fake-v1" /\ spec.system = System

\* The run names its plans and cases, and they are those of the manifest.
PlansBelong(s) ==
    \A run \in s.runs, m \in s.manifests :
        /\ Unique(run.plans) /\ ToSet(run.plans) = Ids(s.plans)
        /\ \A p \in s.plans : p.run = run.id
        /\ {p.plan : p \in s.plans} = {e.plan : e \in m.plans}
        /\ Cardinality({p.plan : p \in s.plans}) = Cardinality(s.plans)
        /\ \A p \in s.plans :
              LET expected == <<"occurrence", run.id, p.system, p.plan>>
              IN  /\ \A spec \in s.specs : p.system = spec.system
                  /\ p.id = expected /\ p.members = ManifestPlan(s, p.plan).members
                  /\ p.cases = [i \in DOMAIN ManifestPlan(s, p.plan).cases |->
                                   CaseOccurrence(expected, ManifestPlan(s, p.plan).cases[i])]

CasesBelong(s) ==
    \A run \in s.runs, m \in s.manifests :
        /\ Unique(run.cases) /\ ToSet(run.cases) = Ids(s.cases)
        /\ \A c \in s.cases : c.run = run.id /\ Has(s.plans, c.occurrence) /\ c.id = CaseOccurrence(c.occurrence, c.entry)
        /\ {c.entry : c \in s.cases} = Ids(ToSet(m.cases))
        /\ Cardinality({c.entry : c \in s.cases}) = Cardinality(s.cases)

ContextsBelong(s) ==
    \A m \in s.manifests :
        /\ Ids(s.contexts) = Ids(m.contexts)
        /\ \A c \in s.contexts :
              /\ c.content = The(m.contexts, c.id).content /\ c.source = The(m.contexts, c.id).source
              /\ LET own == SelectSeq(m.cases, LAMBDA e : e.context = c.id)
                 IN  c.cases = [i \in DOMAIN own |-> own[i].id]

OriginsBelong(s) ==
    /\ Ids(s.origins) = {c.origin : c \in s.contexts}
    /\ \A o \in s.origins, dataset \in s.datasets : o.source = dataset.source

\* Every attempt is named by its own fields and listed once, by its parent.
AttemptsBelong(s) ==
    LET Listed(parent, kind) ==
            /\ Unique(parent.attempts)
            /\ \A id \in ToSet(parent.attempts) :
                  Has(s.attempts, id) /\ The(s.attempts, id).kind = kind /\ The(s.attempts, id).parent = parent.id
    IN  /\ \A a \in s.attempts : a.id = AttemptId(a.parent, a.stage, a.ordinal, a.fp)
        /\ Ids(s.attempts) = UNION {ToSet(p.attempts) : p \in s.plans} \cup UNION {ToSet(c.attempts) : c \in s.cases}
        /\ \A p \in s.plans : Listed(p, "ingestion_plan")
        /\ \A c \in s.cases : Listed(c, "case")

UsageBelongs(s) ==
    /\ \A p \in s.plans :
          LET own == {u \in s.usages : u.attempt \in ToSet(p.attempts) /\ u.kind = "ingestion_plan" /\ u.parent = p.id}
          IN  Unique(p.usages) /\ ToSet(p.usages) = Ids(own)
    /\ \A u \in s.usages :
          /\ u.parent \in (IF u.kind = "case" THEN Ids(s.cases) ELSE Ids(s.plans))
          /\ Has(s.attempts, u.attempt)
          /\ The(s.attempts, u.attempt).kind = u.kind /\ The(s.attempts, u.attempt).parent = u.parent

CloseErrorsBelong(s) ==
    /\ Cardinality({c.client : c \in s.closes}) = Cardinality(s.closes)
    /\ \A c \in s.closes, run \in s.runs :
          c.owner = run.id /\ c.client \in {"fake-model", "fake-memory"} /\ c.id = <<"close", run.id, c.client, c.error>>

ParentageRule(s) ==
    /\ ControlBinds(s) /\ PlansBelong(s) /\ CasesBelong(s) /\ ContextsBelong(s) /\ OriginsBelong(s)
    /\ AttemptsBelong(s) /\ UsageBelongs(s) /\ CloseErrorsBelong(s)

-----------------------------------------------------------------------------
(* fake.execution.v1                                                       *)

StageParent(stage) == IF stage = "memory_ingest" THEN "ingestion_plan" ELSE "case"

\* _attempt_raw_outcome_matches
RawOutcomeMatches(a) ==
    /\ (a.response # NoRef) = (a.outcome = "succeeded")
    /\ (a.error # NoRef) = (a.outcome = "failed")

\* _plan_attempt_chain_matches: a plan without an attempt was not begun; the
\* attempt of one that was tells how far it can have come.
PlanChainMatches(s, p) ==
    LET untouched == p.accepted = 0 /\ p.failed = 0 /\ p.readiness = << >> /\ p.usages = << >>
    IN  \/ p.attempts = << >> /\ p.state \in {"error", "cancelled"} /\ untouched
        \/ /\ Len(p.attempts) = 1 /\ Has(s.attempts, p.attempts[1])
           /\ LET a == The(s.attempts, p.attempts[1])
              IN  /\ a.stage = "memory_ingest"
                  /\ \/ a.outcome = "unknown" /\ p.state = "interrupted" /\ untouched
                     \/ /\ a.outcome = "succeeded" /\ p.state \in {"sealed", "error"}
                        /\ p.accepted + p.failed = p.intended /\ Len(p.readiness) = 2 /\ Len(p.usages) = 1

\* _case_attempt_chain_matches
CaseChainMatches(s, c) ==
    LET shape == [i \in DOMAIN c.attempts |-> <<The(s.attempts, c.attempts[i]).stage, The(s.attempts, c.attempts[i]).outcome>>]
        query == << <<"memory_query", "succeeded">> >>
        answer == << <<"answer", "succeeded">> >>
    IN  /\ ToSet(c.attempts) \subseteq Ids(s.attempts)
        /\ CASE c.disposition = "not_run" -> c.attempts = << >> /\ {c.retrieval, c.prompt, c.answer} = {NoRef}
             [] c.disposition = "deterministic" ->
                   shape \in {query \o answer, query \o << <<"answer", "failed">> >> \o answer}
             [] OTHER -> shape = query \o answer \o << <<"judge", "failed">> >>

\* A retry names the failed attempt before it in the same slot.
RetryEdgesClose(s) ==
    \A a \in s.attempts :
        /\ \A b \in s.attempts \ {a} : <<a.kind, a.parent, a.stage, a.ordinal>> # <<b.kind, b.parent, b.stage, b.ordinal>>
        /\ a.ordinal = 1 => a.retryOf = NoRef
        /\ a.ordinal > 1 =>
              \E b \in s.attempts :
                 /\ b.id = a.retryOf /\ b.outcome = "failed" /\ b.ordinal + 1 = a.ordinal
                 /\ <<a.kind, a.parent, a.stage, a.fp>> = <<b.kind, b.parent, b.stage, b.fp>>

\* A finished fake run has its one failed answer, its one retry and its one
\* unjudged case.
FinalizedShape(s) ==
    (\E run \in s.runs : run.state = "finalized") =>
        LET answers == {a \in s.attempts : a.stage = "answer"}
            retries == {a \in answers : a.retryOf # NoRef}
        IN  /\ Cardinality({a \in answers : a.outcome = "failed"}) = 1
            /\ Cardinality(retries) = 1 /\ \A a \in retries : a.outcome = "succeeded"
            /\ Cardinality({c \in s.cases : c.errorStage = "judge"}) = 1

\* A lost answer ends the run: nothing else was tried, and every case says so.
UnknownPropagates(s) ==
    LET unknown == {a \in s.attempts : a.outcome = "unknown"}
        interrupted == {p \in s.plans : p.state = "interrupted"}
    IN  IF unknown # {}
        THEN /\ s.attempts = unknown /\ Cardinality(unknown) = 1 /\ Cardinality(interrupted) = 1
             /\ \A a \in unknown, p \in interrupted : a.stage = "memory_ingest" /\ p.id = a.parent /\ p.attempts = <<a.id>>
             /\ \A run \in s.runs : run.state = "interrupted" /\ run.resume = "replacement_run_required"
             /\ \A c \in s.cases : c.state = "error" /\ c.errorStage = "unknown_outcome" /\ c.attempts = << >>
        ELSE /\ interrupted = {}
             /\ \A run \in s.runs : run.state # "interrupted" /\ run.resume = "not_applicable"

ExecutionRule(s) ==
    /\ \A run \in s.runs : run.state \in {"finalized", "aborted", "interrupted"}
    /\ Cardinality(s.plans) = 2 /\ Cardinality(s.cases) = 4
    /\ \A p \in s.plans : p.state \in {"sealed", "error", "cancelled", "interrupted"}
    /\ \A c \in s.cases : c.state \in {"completed", "error", "cancelled"}
    /\ \A a \in s.attempts : StageParent(a.stage) = a.kind /\ RawOutcomeMatches(a)
    /\ \A p \in s.plans : PlanChainMatches(s, p)
    /\ \A c \in s.cases : CaseChainMatches(s, c)
    /\ RetryEdgesClose(s) /\ FinalizedShape(s) /\ UnknownPropagates(s)

-----------------------------------------------------------------------------
(* fake.raw-reference.v1                                                   *)

References(s) ==
    (UNION {{a.response, a.error} : a \in s.attempts} \cup UNION {{c.retrieval, c.answer, c.evaluation} : c \in s.cases}
     \cup UNION {ToSet(p.readiness) : p \in s.plans} \cup {u.raw : u \in s.usages} \cup {c.error : c \in s.closes}) \ {NoRef}

RawOf(a) == IF a.response # NoRef THEN a.response ELSE a.error
Raw(s, operation) == {r \in s.raws : r[1] = operation}

\* One resolution, and one allocation for each plan that was ingested.
LifecycleCloses(s) ==
    /\ Cardinality(Raw(s, "resolve")) = 1
    /\ \A r \in Raw(s, "resolve"), spec \in s.specs : r[2] = spec.system /\ r[3] = spec.runtime
    /\ \A r \in Raw(s, "allocate_scope") : r[4] = ScopeOf(r[2], r[3])
    /\ {<<r[2], r[3]>> : r \in Raw(s, "allocate_scope")} =
          {<<p.id, p.plan>> : p \in {q \in s.plans : \E a \in s.attempts :
                                        a.id \in ToSet(q.attempts) /\ a.stage = "memory_ingest" /\ a.outcome # "unknown"}}

\* _ingest_raw_matches
IngestRawMatches(s, a) ==
    LET p == PlanOf(s, a.parent)
        units == ManifestPlan(s, p.plan).units
        r == a.response
    IN  /\ Has(s.plans, a.parent) /\ r \in Raw(s, "ingest")
        /\ r[3] = p.id /\ r[4] = ScopeOf(p.id, p.plan)
        /\ r[5] = units /\ p.intended = Len(units)
        /\ r[6] = SubSeq(units, 1, p.accepted) /\ r[7] = SubSeq(units, p.accepted + 1, Len(units))
        /\ Len(r[7]) = p.failed

\* _retrieval_raw_matches
RetrievalRawMatches(s, a) ==
    LET c == The(s.cases, a.parent)
        r == a.response
    IN  /\ Has(s.cases, a.parent) /\ r \in Raw(s, "retrieve") /\ Has(s.plans, c.occurrence)
        /\ r[2] = c.id /\ r[3] = ScopeOf(c.occurrence, PlanOf(s, c.occurrence).plan)
        /\ r[4] = c.entry /\ r[5] = 3 /\ r[6] = Candidates /\ c.retrieval = r

\* _model_request_matches: the request is what the case's retrieval, answer and
\* reference make.
ModelRequestMatches(s, a, c, r) ==
    LET prompt == IF a.stage = "answer" THEN AnswerPrompt(c.retrieval[4])
                  ELSE JudgePrompt(c.retrieval[4], c.parsed, ManifestCase(s, c.entry).answer)
        expected == RequestFingerprint(a.parent, a.stage, RoleOf(a.stage), prompt)
    IN  /\ c.retrieval \in Raw(s, "retrieve")
        /\ r[4] = expected /\ a.fp = expected
        /\ a.stage = "answer" => c.prompt = prompt

\* _model_raw_matches
ModelRawMatches(s, a) ==
    LET c == The(s.cases, a.parent)
        r == RawOf(a)
        usage == {u \in s.usages : u.attempt = a.id}
    IN  /\ Has(s.cases, a.parent) /\ r \in Raw(s, "call")
        /\ r[2] = a.id
        /\ r[3] = (CASE a.outcome = "succeeded" -> "success" [] a.stage = "judge" -> "judge-unavailable" [] OTHER -> "billed-failure")
        /\ ModelRequestMatches(s, a, c, r)
        /\ usage = {ModelUsage(a.id, a.parent, a.stage, r)}
        /\ a.outcome = "succeeded" /\ a.stage = "answer" => r[5] = c.parsed /\ c.answer = r
        /\ a.outcome = "failed" => r[5] = ""

\* _readiness_raw_matches: two checks, of which the first was not ready.
ReadinessRawMatches(s, p) ==
    IF p.attempts = << >> \/ p.state \in {"cancelled", "interrupted"} THEN p.readiness = << >>
    ELSE p.readiness = [n \in 1..2 |-> <<"wait_ready", p.id, ScopeOf(p.id, p.plan), n, n = 2 /\ p.state = "sealed",
                                         SubSeq(ManifestPlan(s, p.plan).units, 1, p.accepted)>>]

EvaluationRawMatches(s, c) ==
    c.disposition = "deterministic" => c.evaluation = EvaluationPayload(c.parsed, {ManifestCase(s, c.entry).answer})

RawReferenceRule(s) ==
    /\ References(s) \subseteq s.raws
    /\ LifecycleCloses(s)
    /\ s.raws \ References(s) \subseteq Raw(s, "resolve") \cup Raw(s, "allocate_scope")
    /\ \A a \in s.attempts :
          /\ a.stage = "memory_ingest" /\ a.outcome # "unknown" => IngestRawMatches(s, a)
          /\ a.stage = "memory_query" => RetrievalRawMatches(s, a)
          /\ a.stage \in {"answer", "judge"} => ModelRawMatches(s, a)
    /\ \A p \in s.plans : ReadinessRawMatches(s, p)
    /\ \A c \in s.cases : EvaluationRawMatches(s, c)

-----------------------------------------------------------------------------
(* fake.index-accounting.v1                                                *)

\* _expected_attempt_usage
ExpectedUsage(a) ==
    CASE a.outcome = "unknown" -> {}
      [] a.stage = "memory_ingest" -> {IngestUsage(a.id, a.parent, UnitWords(a.response[5]), a.response)}
      [] a.stage = "memory_query" -> {QueryUsage(a.id, a.parent, a.response), ContextUsage(a.id, a.parent)}
      [] OTHER -> {ModelUsage(a.id, a.parent, a.stage, RawOf(a))}

IndexAccountingRule(s) ==
    /\ \A p \in s.plans : Unique(p.usages) /\ \A q \in s.plans \ {p} : ToSet(p.usages) \cap ToSet(q.usages) = {}
    /\ (\E run \in s.runs : run.state = "finalized") => MapThenSumSet(LAMBDA p : Len(p.usages), s.plans) = 2
    /\ \A a \in s.attempts :
          /\ a.index = (IF a.stage # "memory_ingest" THEN "not_applicable"
                        ELSE IF a.outcome = "succeeded" /\ PlanOf(s, a.parent).state = "sealed" THEN "final" ELSE "none")
          /\ {u \in s.usages : u.attempt = a.id} = ExpectedUsage(a)

\* validate_fake_snapshot: every rule is evaluated, and all must hold.
Validated(s) ==
    /\ SchemaRule(s) /\ ManifestRule(s) /\ ParentageRule(s) /\ ExecutionRule(s) /\ RawReferenceRule(s) /\ IndexAccountingRule(s)
=============================================================================
