----------------------------- MODULE FakeCapsule -----------------------------
(***************************************************************************)
(* A fake run: one plan after the other, then one case after the other     *)
(* (runtime/runner.py), then the shutdown sequence (runtime/shutdown.py),  *)
(* which seals what was not reached, closes the clients and only then      *)
(* writes the manifest.  The scenario says whether the first plan's answer *)
(* is lost, or a stop is requested after it.                               *)
(*                                                                         *)
(* A client may fail to close.  Before the manifest is written a file may  *)
(* be lost, or a field of a record hold the value of another record.       *)
(***************************************************************************)
EXTENDS FakeValidation

VARIABLES
    phase,      \* what the run does next
    files,      \* what is in the capsule
    manifest,   \* the sealed manifest
    damage,     \* what was damaged
    fake        \* the scenario, the tasks done, what the runner knows, the clock

fakeVars == <<phase, files, manifest, damage, fake>>

Scenarios == {"standard", "cancelled", "unknown_outcome"}
CloseMessages == {"m1", "m2"}
NoFake == [scenario |-> "none"]

Raws(refs) == {<<"raw", r, r>> : r \in refs}
Sealed(kind, records) == {<<kind, r.id, r>> : r \in records}

\* resolve, and the control records.
FakeInit ==
    /\ phase = "fake plans"
    /\ files = Raws({<<"resolve", System, Runtime>>})
                 \cup {<<"dataset", "dataset-manifest", Dataset>>, <<"caseManifest", "case-manifest", CaseManifest>>,
                       <<"spec", "run-spec", RunSpec>>, <<"budget", "budget", Budget>>}
                 \cup Sealed("origin", {Origin}) \cup Sealed("context", {LogicalContext(p) : p \in ToSet(Plans)})
    /\ manifest = [run |-> Run, spec |-> RunSpec, entries |-> {}] /\ damage = <<"none", "none">>
    /\ \E scenario \in Scenarios :
          fake = [scenario |-> scenario, next |-> 1, completed |-> {}, cancelled |-> FALSE, unknown |-> FALSE, closed |-> 0]

-----------------------------------------------------------------------------
(* The records of one task.                                                *)

Clock == Cardinality({f \in files : f[1] = "attempt"})

Attempt(kind, parent, stage, ordinal, fp, outcome, retryOf, ref, index, at) ==
    [id |-> AttemptId(parent, stage, ordinal, fp), kind |-> kind, parent |-> parent, stage |-> stage, ordinal |-> ordinal,
     fp |-> fp, started |-> 2 * at + 1, ended |-> 2 * at + 2, outcome |-> outcome, retryOf |-> retryOf,
     response |-> IF outcome = "succeeded" THEN ref ELSE NoRef, error |-> IF outcome = "failed" THEN ref ELSE NoRef,
     index |-> index]

\* _terminal_plan_record: a plan of which nothing is known.
BarePlan(p, state) ==
    [id |-> PlanOccurrence(p), run |-> Run, system |-> System, plan |-> p, members |-> <<ContextOf(p)>>,
     cases |-> [i \in DOMAIN Questions(p) |-> CaseOccurrence(PlanOccurrence(p), Questions(p)[i])], state |-> state,
     intended |-> Len(Units(p)), accepted |-> 0, failed |-> 0, readiness |-> << >>, attempts |-> << >>, usages |-> << >>]

BareCase(q, state, errorStage) ==
    LET occurrence == PlanOccurrence(PlanOfQuestion(q))
    IN  [id |-> CaseOccurrence(occurrence, q), run |-> Run, occurrence |-> occurrence, entry |-> q, state |-> state,
         retrieval |-> NoRef, prompt |-> NoRef, answer |-> NoRef, parsed |-> "", evaluation |-> NoRef,
         disposition |-> "not_run", attempts |-> << >>, errorStage |-> errorStage]

\* The scripted system takes the first unit of the second plan only, and is
\* ready at the second check of what it took whole.
Accepted(p) == IF p = "partial plan" THEN SubSeq(Units(p), 1, 1) ELSE Units(p)
Rejected(p) == IF p = "partial plan" THEN SubSeq(Units(p), 2, Len(Units(p))) ELSE << >>
Ready(p) == p # "partial plan"

\* The plan that execute_plan leaves: one dispatch, two checks of readiness.
PlanRecords(p) ==
    LET occurrence == PlanOccurrence(p)
        scope == ScopeOf(occurrence, p)
        fp == <<"dispatch", scope, Units(p)>>
        id == AttemptId(occurrence, "memory_ingest", 1, fp)
        ref == <<"ingest", id, occurrence, scope, Units(p), Accepted(p), Rejected(p)>>
        checks == [n \in 1..2 |-> <<"wait_ready", occurrence, scope, n, n = 2 /\ Ready(p), Accepted(p)>>]
        attempt == Attempt("ingestion_plan", occurrence, "memory_ingest", 1, fp, "succeeded", NoRef, ref,
                           IF Rejected(p) = << >> THEN "final" ELSE "none", Clock)
        usage == IngestUsage(id, occurrence, UnitWords(Units(p)), ref)
        plan == [BarePlan(p, IF Ready(p) THEN "sealed" ELSE "error") EXCEPT
                     !.accepted = Len(Accepted(p)), !.failed = Len(Rejected(p)), !.readiness = checks,
                     !.attempts = <<id>>, !.usages = <<usage.id>>]
    IN  Raws({<<"allocate_scope", occurrence, p, scope>>, ref} \cup ToSet(checks))
          \cup Sealed("attempt", {attempt}) \cup Sealed("usage", {usage}) \cup Sealed("plan", {plan})

\* The plan does not name the attempt that was lost.
LostPlanUnlisted(p) ==
    LET attempt == Attempt("ingestion_plan", PlanOccurrence(p), "memory_ingest", 1, <<"ingest", p>>, "unknown", NoRef, NoRef, "none", Clock)
    IN  Sealed("attempt", {attempt}) \cup Sealed("plan", {BarePlan(p, "interrupted")})

\* A lost answer: an attempt without a response, and the plan it interrupts.
LostPlanRecords(p) ==
    LET attempt == Attempt("ingestion_plan", PlanOccurrence(p), "memory_ingest", 1, <<"ingest", p>>, "unknown", NoRef, NoRef, "none", Clock)
    IN  Sealed("attempt", {attempt}) \cup Sealed("plan", {[BarePlan(p, "interrupted") EXCEPT !.attempts = <<attempt.id>>]})

\* What execute_case leaves: the retrieval, the answer and its one retry, and
\* the evaluation or the judge that fails.
CaseRecords(q) ==
    LET occurrence == PlanOccurrence(PlanOfQuestion(q))
        case == CaseOccurrence(occurrence, q)
        native == <<"retrieve", case, ScopeOf(occurrence, PlanOfQuestion(q)), q, 3, Candidates>>
        query == Attempt("case", case, "memory_query", 1, <<"query", case, q>>, "succeeded", NoRef, native, "not_applicable", Clock)
        answers == IF q = "second?" THEN <<"failed", "succeeded">> ELSE <<"succeeded">>
        Fp(stage, prompt) == RequestFingerprint(case, stage, RoleOf(stage), prompt)
        prompt == AnswerPrompt(q)
        AnswerId(n) == AttemptId(case, "answer", n, Fp("answer", prompt))
        AnswerCall(n) == ModelPayload(AnswerId(n), IF answers[n] = "failed" THEN "billed-failure" ELSE "success",
                                      case, "answer", prompt, IF answers[n] = "failed" THEN "" ELSE Reference(q))
        answered == {Attempt("case", case, "answer", n, Fp("answer", prompt), answers[n], IF n = 1 THEN NoRef ELSE AnswerId(n - 1),
                             AnswerCall(n), "not_applicable", Clock + n) : n \in DOMAIN answers}
        judgePrompt == JudgePrompt(q, Reference(q), Reference(q))
        judgeId == AttemptId(case, "judge", 1, Fp("judge", judgePrompt))
        judgeCall == ModelPayload(judgeId, "judge-unavailable", case, "judge", judgePrompt, "")
        judge == Attempt("case", case, "judge", 1, Fp("judge", judgePrompt), "failed", NoRef, judgeCall, "not_applicable", Clock + 2)
        evaluation == EvaluationPayload(Reference(q), {Reference(q)})
        record == [BareCase(q, IF HasJudge(q) THEN "error" ELSE "completed", IF HasJudge(q) THEN "judge" ELSE "none") EXCEPT
                       !.retrieval = native, !.prompt = prompt, !.answer = AnswerCall(Len(answers)), !.parsed = Reference(q),
                       !.evaluation = IF HasJudge(q) THEN NoRef ELSE evaluation,
                       !.disposition = IF HasJudge(q) THEN "unjudged" ELSE "deterministic",
                       !.attempts = <<query.id>> \o [n \in DOMAIN answers |-> AnswerId(n)] \o IF HasJudge(q) THEN <<judgeId>> ELSE << >>]
    IN  Raws({native} \cup {AnswerCall(n) : n \in DOMAIN answers} \cup {IF HasJudge(q) THEN judgeCall ELSE evaluation})
          \cup Sealed("attempt", {query} \cup answered \cup IF HasJudge(q) THEN {judge} ELSE {})
          \cup Sealed("usage", {QueryUsage(query.id, case, native), ContextUsage(query.id, case)}
                                 \cup {ModelUsage(AnswerId(n), case, "answer", AnswerCall(n)) : n \in DOMAIN answers}
                                 \cup IF HasJudge(q) THEN {ModelUsage(judgeId, case, "judge", judgeCall)} ELSE {})
          \cup Sealed("case", {record})

-----------------------------------------------------------------------------
(* The serial runner.                                                      *)

\* A plan is begun unless a stop was requested.  One that is not ready does not
\* keep the next from running; a lost answer ends the run.
ExecutePlan ==
    /\ phase = "fake plans" /\ ~fake.cancelled /\ fake.next <= Len(Plans)
    /\ LET p == Plans[fake.next]
           lost == fake.scenario = "unknown_outcome" /\ fake.next = 1
       IN  /\ files' = files \cup IF lost THEN LostPlanRecords(p) ELSE PlanRecords(p)
           /\ fake' = [fake EXCEPT !.next = @ + 1, !.unknown = lost, !.completed = IF Ready(p) /\ ~lost THEN @ \cup {p} ELSE @,
                                   !.cancelled = fake.scenario = "cancelled" /\ fake.next = 1]
           /\ phase' = IF lost THEN "fake terminal" ELSE phase
    /\ UNCHANGED <<manifest, damage>>

PlansOver ==
    /\ phase = "fake plans" /\ (fake.cancelled \/ fake.next > Len(Plans))
    /\ phase' = IF fake.cancelled THEN "fake terminal" ELSE "fake cases"
    /\ fake' = [fake EXCEPT !.next = 1]
    /\ UNCHANGED <<files, manifest, damage>>

\* A case of a plan that did not become ready is passed over.
ExecuteCase ==
    /\ phase = "fake cases" /\ fake.next <= Len(AllQuestions)
    /\ LET q == AllQuestions[fake.next]
       IN  files' = IF PlanOfQuestion(q) \in fake.completed THEN files \cup CaseRecords(q) ELSE files
    /\ fake' = [fake EXCEPT !.next = @ + 1]
    /\ phase' = IF fake.next = Len(AllQuestions) THEN "fake terminal" ELSE phase
    /\ UNCHANGED <<manifest, damage>>

-----------------------------------------------------------------------------
(* The shutdown sequence.                                                  *)

SealedIds(kind) == {f[2] : f \in {g \in files : g[1] = kind}}

\* seal_terminal_records: what was not reached says why, and the run says how
\* it ended.
SealTerminalRecords ==
    /\ phase = "fake terminal"
    /\ LET plans == {BarePlan(p, IF fake.cancelled THEN "cancelled" ELSE "error") : p \in ToSet(Plans)}
           cases == {BareCase(q, IF fake.cancelled THEN "cancelled" ELSE "error",
                              CASE fake.cancelled -> "cancelled" [] fake.unknown -> "unknown_outcome" [] OTHER -> "ingestion_readiness")
                        : q \in ToSet(AllQuestions)}
           run == [id |-> Run, spec |-> RunSpec,
                   state |-> CASE fake.unknown -> "interrupted" [] fake.cancelled -> "aborted" [] OTHER -> "finalized",
                   resume |-> IF fake.unknown THEN "replacement_run_required" ELSE "not_applicable",
                   plans |-> [i \in DOMAIN Plans |-> PlanOccurrence(Plans[i])],
                   cases |-> [i \in DOMAIN AllQuestions |->
                                 CaseOccurrence(PlanOccurrence(PlanOfQuestion(AllQuestions[i])), AllQuestions[i])]]
       IN  files' = files \cup Sealed("plan", {p \in plans : p.id \notin SealedIds("plan")})
                          \cup Sealed("case", {c \in cases : c.id \notin SealedIds("case")}) \cup Sealed("run", {run})
    /\ phase' = "fake close"
    /\ UNCHANGED <<manifest, damage, fake>>

Clients == <<"fake-model", "fake-memory">>

\* The clients are closed in turn; a failure is recorded and does not keep the
\* next from being closed.
CloseClient ==
    /\ phase = "fake close"
    /\ LET client == Clients[fake.closed + 1]
       IN  \/ UNCHANGED files
           \/ \E message \in CloseMessages :
                 LET error == <<"close error", message>>
                     record == [id |-> <<"close", Run, client, error>>, owner |-> Run, client |-> client, error |-> error]
                 IN  files' = files \cup Raws({error}) \cup Sealed("close", {record})
    /\ fake' = [fake EXCEPT !.closed = @ + 1]
    /\ phase' = IF fake.closed + 1 = Len(Clients) THEN "fake seal" ELSE phase
    /\ UNCHANGED <<manifest, damage>>

\* A file is not there.
LoseFake(f) ==
    /\ phase = "fake seal" /\ damage[1] = "none"
    /\ files' = files \ {f}
    /\ damage' = <<"lost", f[1], f>>
    /\ UNCHANGED <<phase, manifest, fake>>

\* A field of one record holds the value of another record of its kind.
CrossWireFake(f) ==
    /\ phase = "fake seal" /\ damage[1] = "none" /\ SealedIds("close") = {}
    /\ f[1] \in {"attempt", "usage", "plan", "case", "context"}
    /\ \E field \in DOMAIN f[3] \ {"id"} :
          \E value \in {g[3][field] : g \in {h \in files : h[1] = f[1]}} \ {f[3][field]} :
             /\ files' = (files \ {f}) \cup {<<f[1], f[2], [f[3] EXCEPT ![field] = value]>>}
             /\ damage' = <<"wired", f[1], field>>
    /\ UNCHANGED <<phase, manifest, fake>>

\* finalize_capsule
WriteManifest ==
    /\ phase = "fake seal"
    /\ manifest' = [manifest EXCEPT !.entries = files]
    /\ phase' = "fake sealed"
    /\ UNCHANGED <<files, damage, fake>>

FakeNext ==
    \/ ExecutePlan \/ PlansOver \/ ExecuteCase \/ SealTerminalRecords \/ CloseClient
    \/ \E f \in files : LoseFake(f) \/ CrossWireFake(f)
    \/ WriteManifest

-----------------------------------------------------------------------------
FakeAccepted == Validated(Snapshot(manifest, files))

\* However a fake run ended, its capsule is evidence of that.
FakeValidates == phase = "fake sealed" /\ damage[1] = "none" => FakeAccepted

\* A capsule in which a file is not there is refused.  Of two clients that
\* failed to close with one message, one record may go: the payload they share
\* is still referred to.
FakeLossDetected ==
    /\ phase = "fake sealed" /\ damage[1] = "lost"
    /\ ~(damage[2] = "close" /\ \E c \in Records(files, "close") : c.error = damage[3][3].error)
    => ~FakeAccepted

\* A record that holds the value of another is refused.  The times of an
\* attempt are compared with nothing, nor is the size of a plan that was not
\* ingested, or the stage at which a case that was not run ended.
FakeCrossWiringDetected ==
    /\ phase = "fake sealed" /\ damage[1] = "wired"
    /\ damage \notin {<<"wired", "attempt", "started">>, <<"wired", "attempt", "ended">>}
    /\ ~(damage = <<"wired", "plan", "intended">> /\ \E p \in Records(files, "plan") : p.readiness = << >>)
    /\ ~(damage = <<"wired", "case", "errorStage">> /\ \E c \in Records(files, "case") : c.disposition = "not_run")
    => ~FakeAccepted
=============================================================================
