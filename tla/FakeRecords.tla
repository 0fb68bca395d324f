----------------------------- MODULE FakeRecords -----------------------------
(***************************************************************************)
(* The records of a fake run (runtime/fake_run.py): the generated workload *)
(* of workloads/fake.py, ingested and asked with the scripted clients of   *)
(* memory_systems/fake.py and model_clients/fake.py.                       *)
(*                                                                         *)
(* A hash is injective, so the hash of something is that thing; a payload  *)
(* is a tuple that starts with what it is, and its reference is the        *)
(* payload.  Of a text only its words are kept where they are counted.     *)
(***************************************************************************)
EXTENDS Naturals, SequencesExt, FiniteSetsExt

Run == "run"
System == "fake-memory"
Runtime == "fake-runtime"
NoRef == <<"none">>

-----------------------------------------------------------------------------
(* The workload: two plans, the second of which is ingested in part.       *)

Plans == <<"ready plan", "partial plan">>
Units(p) == IF p = "ready plan" THEN <<"u1">> ELSE <<"v1", "v2">>
Questions(p) == IF p = "ready plan" THEN <<"first?", "second?", "grounded?">> ELSE <<"survived?">>
HasJudge(q) == q = "grounded?"
Reference(q) == CASE q = "first?" -> "alpha" [] q = "second?" -> "beta" [] q = "grounded?" -> "shared answer" [] OTHER -> "partial"
PlanOfQuestion(q) == CHOOSE p \in ToSet(Plans) : q \in ToSet(Questions(p))
AllQuestions == FlattenSeq([i \in DOMAIN Plans |-> Questions(Plans[i])])

Dataset == [source |-> "generated"]
ContextOf(p) == <<"context", p>>
Context(p) == [id |-> ContextOf(p), content |-> <<"content", p>>, source |-> Dataset.source]
CaseManifest ==
    [workload |-> "fake-vertical",
     contexts |-> {Context(p) : p \in ToSet(Plans)},
     plans    |-> {[plan |-> p, members |-> <<ContextOf(p)>>, units |-> Units(p), cases |-> Questions(p)] : p \in ToSet(Plans)},
     cases    |-> [i \in DOMAIN AllQuestions |->
                      [id |-> AllQuestions[i], context |-> ContextOf(PlanOfQuestion(AllQuestions[i])), answer |-> Reference(AllQuestions[i])]]]

-----------------------------------------------------------------------------
(* Identities.                                                             *)

PlanOccurrence(p) == <<"occurrence", Run, System, p>>
CaseOccurrence(occurrence, q) == <<"case", occurrence, q>>
ScopeOf(occurrence, p) == <<"scope", occurrence, p>>
AttemptId(parent, stage, ordinal, fp) == <<"attempt", parent, stage, ordinal, fp>>

-----------------------------------------------------------------------------
(* Control records.                                                        *)

Budget == [budget |-> "zero-external", scope |-> Run, attempts |-> 0, tokens |-> 0]

\* build_fake_run_spec
RunSpec ==
    [run |-> Run, protocol |-> "oamb-fake-v1", dataset |-> Dataset, cases |-> CaseManifest, workload |-> CaseManifest.workload,
     system |-> System, runtime |-> Runtime, budget |-> "zero-external"]

Origin == [id |-> "origin", source |-> Dataset.source]
LogicalContext(p) ==
    [id |-> ContextOf(p), run |-> Run, content |-> <<"content", p>>, source |-> Dataset.source,
     cases |-> Questions(p), origin |-> "origin"]

-----------------------------------------------------------------------------
(* What the scripted clients say, and count.                               *)

Candidates == << <<"fake-native-1", "shared answer alpha">>, <<"fake-native-2", "shared answer beta">> >>
AnswerPrompt(question) == <<"answer prompt", question, Candidates>>
JudgePrompt(question, answer, reference) == <<"judge prompt", question, answer, reference>>

\* count_whitespace_tokens, of the payloads and prompts there are.
UnitWords(units) == IF units = <<"u1">> THEN 4 ELSE 2 * Len(units)
ContextWords == 5
PromptWords(prompt) ==
    (IF prompt[2] = "grounded?" THEN 5 ELSE 4) + (IF prompt[1] = "answer prompt" THEN 4 ELSE 0)
OutputWords(text) == CASE text = "" -> 0 [] text = "shared answer" -> 2 [] OTHER -> 1

\* ModelRequest.for_attempt: the fingerprint does not depend on the ordinal.
RequestFingerprint(parent, stage, role, prompt) == <<"model request", parent, stage, role, prompt>>
RoleOf(stage) == IF stage = "answer" THEN "fake-answer-v1" ELSE "fake-judge-v1"

ModelPayload(attempt, outcome, parent, stage, prompt, output) ==
    <<"call", attempt, outcome, RequestFingerprint(parent, stage, RoleOf(stage), prompt), output,
      PromptWords(prompt), OutputWords(output)>>

\* The result of the metric: whether the answer is the reference.
EvaluationPayload(answer, references) == <<"evaluation", <<IF answer \in references THEN 1 ELSE 0, 1, answer>> >>

-----------------------------------------------------------------------------
(* Usage records.                                                          *)

\* _seal_fake_usage, _seal_not_applicable_query_usage, _seal_context_usage and
\* the model client's own: counts are external or of the local context.
IngestUsage(attempt, parent, words, ref) ==
    [id |-> <<"ingest usage", attempt, words, 0>>, attempt |-> attempt, kind |-> "ingestion_plan", parent |-> parent,
     stage |-> "memory_ingest", input |-> words, output |-> 0, context |-> 0, proof |-> "measured", raw |-> ref]
QueryUsage(attempt, parent, ref) ==
    [id |-> <<"query usage", attempt>>, attempt |-> attempt, kind |-> "case", parent |-> parent,
     stage |-> "memory_query", input |-> 0, output |-> 0, context |-> 0, proof |-> "not_applicable", raw |-> ref]
ContextUsage(attempt, parent) ==
    [id |-> <<"context usage", attempt, ContextWords>>, attempt |-> attempt, kind |-> "case", parent |-> parent,
     stage |-> "context_view", input |-> 0, output |-> 0, context |-> ContextWords, proof |-> "measured", raw |-> NoRef]
ModelUsage(attempt, parent, stage, call) ==
    [id |-> <<"model usage", attempt, call[6], call[7], call>>, attempt |-> attempt, kind |-> "case", parent |-> parent,
     stage |-> stage, input |-> call[6], output |-> call[7], context |-> 0, proof |-> "measured", raw |-> call]

-----------------------------------------------------------------------------
(* What the contracts refuse to hold (contracts/evidence.py).              *)

AttemptCloses(a) == a.ended >= a.started

PlanRecordCloses(p) ==
    /\ p.accepted + p.failed <= p.intended
    /\ p.state = "sealed" => p.accepted + p.failed = p.intended /\ p.readiness # << >>

CaseRecordCloses(c) ==
    /\ c.disposition = "not_run" => c.parsed = "" /\ c.evaluation = NoRef /\ c.state # "completed"
    /\ c.disposition # "not_run" => NoRef \notin {c.retrieval, c.prompt, c.answer} /\ c.parsed # ""
    /\ c.disposition = "deterministic" => c.evaluation # NoRef /\ c.errorStage = "none" /\ c.state = "completed"
    /\ c.disposition = "unjudged" => c.state = "error" /\ c.evaluation = NoRef /\ c.errorStage = "judge"

UsageCloses(u) ==
    /\ u.proof = "not_applicable" => {u.input, u.output, u.context} = {0}
    /\ u.proof = "measured" => {u.input, u.output, u.context} # {0}
    /\ u.stage = "context_view" => u.input = 0 /\ u.output = 0
    /\ u.stage # "context_view" => u.context = 0
=============================================================================
