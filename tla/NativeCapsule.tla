---------------------------- MODULE NativeCapsule ----------------------------
(***************************************************************************)
(* A native run as its capsule sees it: native_run.py seals a record for   *)
(* everything it did, and the finished capsule is validated by code that   *)
(* sees only the files.  One history with one question, of each of the     *)
(* memory systems; dispatches that fail and are retried or given up, model *)
(* calls that are repeated, corrected or fail.                             *)
(*                                                                         *)
(* Before the manifest is sealed a capsule may be damaged once: a file is  *)
(* not there, or a field of one record holds the value of another record.  *)
(***************************************************************************)
EXTENDS NativeValidation

CONSTANTS
    Systems,        \* the adapters to check, out of the five
    Sources,        \* the sources of the history, in order
    TroubleLimit,   \* failed dispatches and model calls of a run
    MaxOuter        \* outer attempts of a model stage

ASSUME CapsuleAssumption ==
    /\ Systems \subseteq {"hindsight", "mem0", "openviking_batch", "openviking", "scripted"}
    /\ TroubleLimit \in Nat /\ MaxOuter \in Nat \ {0} /\ TopK \in Nat \ {0}

VARIABLES
    sys,        \* the adapter of this run
    judged,     \* whether the workload has a judge
    phase,      \* what the run does next
    files,      \* what is in the capsule
    planLedger, \* attempts and accounting of the plan's own operations
    ledger,     \* those of the dispatches, later those of the case
    progress,   \* the dispatches so far
    question,   \* the model stages so far
    manifest,   \* the sealed manifest
    damage,     \* what was damaged
    trouble     \* failures so far

vars == <<sys, judged, phase, files, planLedger, ledger, progress, question, manifest, damage, trouble>>

-----------------------------------------------------------------------------
(* Sealing.                                                                *)

Raws(refs) == {<<"raw", r, r>> : r \in refs}
Clock == 2 * Cardinality({f \in files : f[1] = "attempt"})
TheLease == Lease(1, << >>)
NoLedger == [attempts |-> << >>, usages |-> << >>, resources |-> << >>, costs |-> << >>]
Joined(a, b) == [f \in DOMAIN a |-> a[f] \o b[f]]

\* _live_token_usage_v5: a usage for each model role of the route, or for its
\* first owner; a fixture seals one.  Only the token stages have any.
UsageOwners(stage) ==
    LET owners == RouteOwners(stage)
        roles == SelectSeq(owners, LAMBDA o : o[1] = "model_role")
    IN  IF stage \notin TokenStages THEN << >>
        ELSE IF Live(sys) /\ roles # << >> THEN roles ELSE <<owners[1]>>

\* _seal_native_attempt_accounting
Accounting(a) ==
    LET owners == UsageOwners(a.stage)
        usages == [i \in DOMAIN owners |->
                      [id |-> <<"usage", a.id, owners[i]>>, attempt |-> a.id, parent |-> a.parent, stage |-> a.stage,
                       owner |-> owners[i], raw |-> RawOf(a), route |-> a.route]]
        resource == [id |-> <<"resource", a.id>>, attempt |-> a.id, parent |-> a.parent, stage |-> a.stage,
                     raw |-> RawOf(a), route |-> a.route, owner |-> RouteOwners(a.stage)[1]]
        cost == [id |-> <<"cost", a.id>>, attempt |-> a.id, parent |-> a.parent, view |-> IndexingView(a),
                 usages |-> {u.id : u \in ToSet(usages)}, resource |-> resource.id, route |-> a.route,
                 owner |-> RouteOwners(a.stage)[1]]
    IN  [files  |-> {<<"usage", u.id, u>> : u \in ToSet(usages)}
                       \cup {<<"resource", resource.id, resource>>, <<"cost", cost.id, cost>>},
         ledger |-> [attempts |-> <<a.id>>, usages |-> [i \in DOMAIN usages |-> usages[i].id],
                     resources |-> <<resource.id>>, costs |-> <<cost.id>>]]

\* The records every attempt leaves, and what an accounted one adds to them.
AttemptFiles(claim, reservation, intent, receipt, attempt) ==
    {<<"claim", claim.id, claim>>, <<"reservation", reservation.id, reservation>>,
     <<"intent", intent.id, intent>>, <<"receipt", receipt.id, receipt>>, <<"attempt", attempt.id, attempt>>}

Accounted(records, ref, accounting) ==
    [files |-> records \cup Raws({ref}) \cup accounting.files, ledger |-> accounting.ledger]

\* _prepare_native_attempt and what seals its outcome: claim, reservation and
\* intent before the call, receipt, attempt and accounting after it.  A call
\* whose outcome is unknown has nothing to account for.
Sealed(at, parent, stage, ordinal, batch, retryOf, messages, outcome, ref, failure) ==
    LET id == AttemptId(parent, stage, ordinal, batch)
        fp == Fingerprint(parent, stage, ordinal)
        claim == Claim(TheLease, parent, stage, fp, at)
        reservation == Reservation(sys, id, parent, stage)
        intent == Intent(sys, Sources, id, parent, stage, fp, claim, reservation, at)
        receipt == Receipt(id, outcome, ref, failure, at)
        attempt == Attempt(sys, id, parent, stage, ordinal, retryOf, fp, messages, outcome, ref, at, intent, receipt)
    IN  IF outcome = "unknown"
        THEN [files |-> AttemptFiles(claim, reservation, intent, receipt, attempt),
              ledger |-> [NoLedger EXCEPT !.attempts = <<id>>]]
        ELSE Accounted(AttemptFiles(claim, reservation, intent, receipt, attempt), ref, Accounting(attempt))

\* An operation of the memory system that succeeded at the first call; a
\* fixture has no evidence of the ones that are not token stages.
Operation(at, parent, stage, ref) ==
    IF Live(sys) \/ stage \in TokenStages
    THEN Sealed(at, parent, stage, 1, 1, NoRef, NoRef, "succeeded", ref, NoFailure)
    ELSE [files |-> Raws({ref}), ledger |-> NoLedger]

Occurrence == IngestionOccurrenceId(SystemOf(sys), ThePlan)
CaseId == CaseOccurrenceId(Occurrence, TheCase)
Spec_ == IF Live(sys) THEN <<RunSpec(sys, Sources)>> ELSE FixtureSpec(sys, Sources)

\* _seal_live_control, the manifests of the workload and the run's lease.
ControlFiles(a) ==
    {<<"dataset", "dataset", Dataset>>, <<"caseManifest", "case-manifest", CaseManifest(Sources)>>, <<"lease", "1", TheLease>>}
    \cup IF ~Live(a) THEN {}
         ELSE {<<"spec", "run-spec", RunSpec(a, Sources)>>, <<"preflight", "run-preflight", RunPreflight(a, Sources)>>,
               <<"budget", "budget", Budget>>} \cup {<<"role", r, r>> : r \in Roles}

-----------------------------------------------------------------------------
(* The providers, as this run meets them.                                  *)

Scope ==
    CASE sys = "hindsight"        -> Bank(Occurrence)
      [] sys = "mem0"             -> Occurrence
      [] sys = "openviking_batch" -> OpenVikingRoot(Occurrence)
      [] sys = "openviking"       -> MemoryRoot(Occurrence)
      [] OTHER                    -> ScriptedScope(Occurrence)

ScopeRefs ==
    CASE sys = "hindsight"        -> HindsightScopeRefs(Scope)
      [] sys = "mem0"             -> Mem0Capture(Scope, 1, << >>)
      [] sys = "openviking_batch" -> OpenVikingScopeRefs(Occurrence)
      [] sys = "openviking"       -> SessionScopeRefs(Scope)
      [] OTHER                    -> ScriptedScopeRefs(Occurrence, Scope)

\* plan_ingestion: OpenViking's resources go in one batch, other sources alone.
Dispatches == IF sys = "openviking_batch" THEN <<Sources>> ELSE [i \in DOMAIN Sources |-> <<Sources[i]>>]

IngestRef(id, sources, try, before) ==
    CASE sys = "hindsight"        -> HindsightIngestRef(Scope, sources)
      [] sys = "mem0"             -> Mem0IngestRef(sources[1])
      [] sys = "openviking_batch" -> OpenVikingIngestRef(Scope, sources)
      [] sys = "openviking"       -> Last(SessionEvidence(Scope, SessionOf(Occurrence, sources[1], try), before))
      [] OTHER                    -> ScriptedIngestRef(id, Occurrence, Scope, sources)

\* Payloads that a successful dispatch leaves beside its response.
IngestEvidence(sources, try, before) ==
    CASE sys = "mem0"       -> Mem0AddResponses(sources[1])
      [] sys = "openviking" -> SessionEvidence(Scope, SessionOf(Occurrence, sources[1], try), before)
      [] OTHER              -> << >>

\* What a try that failed and was settled proves itself with.
SettledRef(sources, try) ==
    SettledError(SystemOf(sys),
                 CASE sys = "openviking" -> SessionOf(Occurrence, sources[1], try)
                   [] sys = "mem0" -> <<"request", sources[1], try>>
                   [] OTHER -> <<"extraction">>)

\* The n-th capture of the state, of what was accepted.
CaptureRefs(n, sources) ==
    CASE sys = "hindsight"        -> HindsightProjectionRefs(Scope, sources)
      [] sys = "mem0"             -> <<Mem0Summary(Scope, n, sources)>> \o Mem0Capture(Scope, n, sources)
      [] sys = "openviking_batch" -> OpenVikingProjectionRefs(Scope, Sources)
      [] sys = "openviking"       -> <<Tree(Scope, sources), Tree(Scope, sources)>>
      [] OTHER                    -> ScriptedProjectionRefs(Occurrence, Scope, sources)

StateOf(sources) ==
    CASE sys = "hindsight"        -> HindsightState(Scope, sources)
      [] sys = "mem0"             -> Mem0State(Scope, sources)
      [] sys = "openviking_batch" -> OpenVikingDigest(Scope, Sources)
      [] sys = "openviking"       -> SessionState(Occurrence, sources, sources)
      [] OTHER                    -> ScriptedState(Scope, sources)

\* wait_ready: what it returns as evidence, each payload once.
ReadinessRefs(refs, evidence, sources) ==
    WithoutRepeats(
        CASE sys = "hindsight"        -> refs \o CaptureRefs(1, sources)
          [] sys = "mem0"             -> refs \o CaptureRefs(2, sources) \o CaptureRefs(3, sources)
          [] sys = "openviking_batch" -> refs \o SubSeq(CaptureRefs(1, sources), 1, 2)
          [] sys = "openviking"       -> evidence \o CaptureRefs(1, sources)
          [] OTHER                    -> << <<"wait_ready", Occurrence, Scope>> >>)

-----------------------------------------------------------------------------
(* The run.                                                                *)

NoProgress == [accepted |-> << >>, skipped |-> << >>, finals |-> << >>, refs |-> << >>, evidence |-> << >>, try |-> 1]
NoQuestion == [calls |-> 0, corrections |-> << >>, outer |-> 1, transport |-> 0, previous |-> NoRef, answer |-> NoRef, judge |-> NoRef,
               outcome |-> "none", odd |-> FALSE]
NoManifest == [run |-> Run, spec |-> <<"none">>, entries |-> {}]
NoDamage == <<"none", "none">>

Init ==
    /\ sys \in Systems /\ judged \in BOOLEAN
    /\ phase = "allocate"
    /\ files = ControlFiles(sys)
    /\ planLedger = NoLedger /\ ledger = NoLedger
    /\ progress = NoProgress /\ question = NoQuestion
    /\ manifest = NoManifest /\ damage = NoDamage /\ trouble = 0

\* The runtime is resolved and a scope allocated, both recorded for the plan.
Allocate ==
    /\ phase = "allocate"
    /\ LET identity == IF SystemOf(sys) = "openviking" THEN Health("admin") ELSE <<"runtime", sys>>
           resolve == Operation(Clock, Occurrence, "runtime_resolve", identity)
           allocate == Operation(Clock + 2, Occurrence, "scope_allocate", ScopeRefs[1])
       IN  /\ files' = files \cup (IF Live(sys) THEN resolve.files ELSE {}) \cup allocate.files \cup Raws(ToSet(ScopeRefs))
           /\ planLedger' = Joined(resolve.ledger, allocate.ledger)
    /\ phase' = "ingest"
    /\ UNCHANGED <<sys, judged, ledger, progress, question, manifest, damage, trouble>>

\* Which dispatch is next, and the attempt its next try would be.
Ordinal == Len(progress.finals) + 1
TryId(try) == AttemptId(Occurrence, "memory_ingest", Ordinal, try)
RetryOf == IF progress.try = 1 THEN NoRef ELSE TryId(progress.try - 1)

IngestSucceeds ==
    /\ phase = "ingest"
    /\ LET sources == Dispatches[Ordinal]
           ref == IngestRef(TryId(progress.try), sources, progress.try, progress.accepted)
           evidence == IngestEvidence(sources, progress.try, progress.accepted)
           e == Sealed(Clock, Occurrence, "memory_ingest", Ordinal, progress.try, RetryOf, NoRef, "succeeded", ref, NoFailure)
       IN  /\ files' = files \cup e.files \cup Raws(ToSet(evidence))
           /\ ledger' = Joined(ledger, e.ledger)
           /\ progress' = [progress EXCEPT !.accepted = @ \o sources, !.finals = Append(@, TryId(progress.try)),
                                           !.refs = Append(@, ref), !.evidence = @ \o evidence, !.try = 1]
           /\ phase' = IF Ordinal = Len(Dispatches) THEN "ready" ELSE "ingest"
    /\ UNCHANGED <<sys, judged, planLedger, question, manifest, damage, trouble>>

\* A try fails and the provider proves it did not apply it: it is tried again,
\* and given up after the third.  Only these adapters prove such a thing.
IngestSettlesFailed ==
    /\ phase = "ingest" /\ sys \in {"hindsight", "mem0", "openviking"} /\ trouble < TroubleLimit
    /\ LET sources == Dispatches[Ordinal]
           ref == SettledRef(sources, progress.try)
           e == Sealed(Clock, Occurrence, "memory_ingest", Ordinal, progress.try, RetryOf, NoRef, "failed", ref,
                       [kind |-> "provider_ingestion_error", status |-> SettledStatus(SystemOf(sys)),
                        basis |-> SettlementBasis(SystemOf(sys))])
           last == progress.try = 3
       IN  /\ files' = files \cup e.files
           /\ ledger' = Joined(ledger, e.ledger)
           /\ progress' = IF last THEN [progress EXCEPT !.skipped = @ \o sources, !.finals = Append(@, TryId(3)),
                                                        !.refs = Append(@, ref), !.try = 1]
                          ELSE [progress EXCEPT !.try = @ + 1]
           /\ phase' = IF last /\ Ordinal = Len(Dispatches) THEN "ready" ELSE "ingest"
    /\ trouble' = trouble + 1
    /\ UNCHANGED <<sys, judged, planLedger, question, manifest, damage>>

\* The sealed plan and its history attempt, with the accounting of every
\* operation of the plan.
SealPlan(readiness, projection, ready, project) ==
    LET accepted == progress.accepted
        all == Joined(Joined(planLedger, Joined(ready.ledger, project.ledger)), ledger)
        plan == [id |-> Occurrence, run |-> Run, plan |-> ThePlan, system |-> SystemOf(sys), runtime |-> Runtime(sys),
                 adapter |-> AdapterProfile(sys), members |-> Sources, cases |-> <<CaseId>>, sources |-> Sources,
                 dispatches |-> progress.finals, dispatchSources |-> Dispatches, accepted |-> accepted,
                 rejected |-> << >>, skipped |-> progress.skipped,
                 projected |-> IF sys = "openviking_batch" THEN Sources ELSE accepted,
                 attempts |-> all.attempts, usages |-> all.usages, resources |-> all.resources, costs |-> all.costs,
                 scope |-> Scope, scopeRefs |-> ScopeRefs, readinessRefs |-> readiness, inventoryRef |-> projection[1],
                 projectionRefs |-> projection, state |-> "sealed", protected |-> StateOf(accepted)]
        fields == [plan |-> ThePlan, system |-> SystemOf(sys), occurrence |-> Occurrence, ordinal |-> 1, previous |-> NoRef,
                   status |-> "ready", scope |-> Scope, planRecord |-> plan, operations |-> ToSet(all.attempts),
                   scopeRefs |-> ToSet(ScopeRefs), settlementRefs |-> {}]
        history == [id |-> HistoryId(fields)] @@ fields
    IN  /\ files' = files \cup ready.files \cup project.files \cup Raws(ToSet(readiness) \cup ToSet(projection))
                       \cup {<<"plan", Occurrence, plan>>, <<"history", history.id, history>>}
        /\ planLedger' = all

\* wait_ready, the projection of what is there, and the plan sealed over them.
Ready ==
    /\ phase = "ready"
    /\ LET readiness == ReadinessRefs(progress.refs, progress.evidence, progress.accepted)
           projection == CaptureRefs(4, progress.accepted)
       IN  SealPlan(readiness, projection, Operation(Clock, Occurrence, "memory_readiness", Last(readiness)),
                    Operation(Clock + 2, Occurrence, "memory_projection", projection[1]))
    /\ ledger' = NoLedger
    /\ phase' = "query"
    /\ UNCHANGED <<sys, judged, progress, question, manifest, damage, trouble>>

\* The question's retrieval, between two captures of the state.
Query ==
    /\ phase = "query"
    /\ LET accepted == progress.accepted
           hits == IF sys = "openviking_batch" THEN Sources ELSE accepted
           pre == Operation(Clock, CaseId, "pre_query_projection", CaptureRefs(5, accepted)[1])
           query == Operation(Clock + 2, CaseId, "memory_query", RetrievalResponse(sys, Occurrence, Scope, hits))
           post == Operation(Clock + 4, CaseId, "post_query_projection", CaptureRefs(6, accepted)[1])
       IN  /\ files' = files \cup pre.files \cup query.files \cup post.files
                          \cup Raws(ToSet(CaptureRefs(5, accepted)) \cup ToSet(CaptureRefs(6, accepted))
                                    \cup ToSet(RetrievalSupport(sys, Occurrence, Scope, hits)))
                          \cup (IF sys \in {"hindsight", "mem0", "openviking"} THEN Raws({RetrievalRequest(sys, Scope)}) ELSE {})
           /\ ledger' = Joined(pre.ledger, Joined(query.ledger, post.ledger))
    /\ phase' = "answer"
    /\ UNCHANGED <<sys, judged, planLedger, progress, question, manifest, damage, trouble>>

Visible == <<"visible", Retrieved(sys, IF sys = "openviking_batch" THEN Sources ELSE progress.accepted)>>
AnswerPrompt == <<"prompt", "answer", Visible>>
JudgePrompt == <<"prompt", "judge", OutputText(question.answer)>>
StagePrompt == IF phase = "answer" THEN AnswerPrompt ELSE JudgePrompt
GoodText == <<"text", phase, "good">>
BadText == <<"text", phase, "bad">>

\* execute_model_completion_retry, one call: see ModelCompletion.  The calls of
\* one stage share its prompt; "unread" and "blank" are the responses that
\* AllSealedChainsClose is about.
Call(x) ==
    /\ phase \in {"answer", "judge"}
    /\ x # "valid" => trouble < TroubleLimit
    /\ LET n == question.calls + 1
           Id(k) == AttemptId(CaseId, phase, k, 1)
           messages == <<"messages", UserPrompt(StagePrompt) \o question.corrections>>
           text == CASE x = "valid" -> GoodText [] x = "malformed" -> BadText [] OTHER -> << >>
           ref == IF x \in {"valid", "malformed", "blank", "unread"} THEN <<"model", text>>
                  ELSE <<"supplier_error", IF x = "rate" THEN 429 ELSE 400>>
           outcome == CASE x = "valid" -> "succeeded" [] x = "lost" -> "unknown" [] OTHER -> "failed"
           failure == [kind |-> CASE x = "valid" -> "none" [] x = "lost" -> "timeout" [] x = "unread" -> "response_parse_error"
                                  [] x \in {"rate", "rejected"} -> "supplier_error" [] OTHER -> "output_contract_error",
                       status |-> CASE x = "rate" -> 429 [] x = "rejected" -> 400 [] x = "lost" -> 0 [] OTHER -> 200,
                       basis |-> <<"none">>]
           e == Sealed(Clock, CaseId, phase, n, 1, question.previous, messages, outcome, ref, failure)
           corrects == x \in {"malformed", "blank"} /\ question.outer < MaxOuter
           repeats == x \in {"rate", "lost"} /\ question.transport < 2
           next == [question EXCEPT !.calls = n, !.previous = Id(n), !.odd = @ \/ x \in {"unread", "blank"}]
       IN  /\ files' = files \cup e.files \cup Raws({messages, StagePrompt})
           /\ ledger' = Joined(ledger, e.ledger)
           /\ \/ /\ corrects
                 /\ question' = [next EXCEPT !.outer = @ + 1, !.transport = 0,
                                             !.corrections = @ \o << <<"assistant", text>>, <<"user", Correction>> >>]
                 /\ UNCHANGED phase
              \/ /\ repeats
                 /\ question' = [next EXCEPT !.transport = @ + 1]
                 /\ UNCHANGED phase
              \/ /\ x = "valid"
                 /\ question' = [NoQuestion EXCEPT !.answer = IF phase = "answer" THEN ref ELSE question.answer,
                                                   !.judge = IF phase = "judge" THEN ref ELSE NoRef,
                                                   !.odd = next.odd,
                                                   !.outcome = IF phase = "judge" THEN "judged" ELSE "deterministic"]
                 /\ phase' = IF phase = "answer" /\ judged THEN "judge" ELSE "case"
              \/ /\ x # "valid" /\ ~corrects /\ ~repeats
                 /\ question' = [next EXCEPT !.outcome = IF phase = "judge" THEN "unjudged" ELSE "not_run"]
                 /\ phase' = "case"
    /\ trouble' = IF x = "valid" THEN trouble ELSE trouble + 1
    /\ UNCHANGED <<sys, judged, planLedger, progress, manifest, damage>>

\* The case, the run record; then the capsule is all there.
SealCase ==
    /\ phase = "case"
    /\ LET accepted == progress.accepted
           hits == IF sys = "openviking_batch" THEN Sources ELSE accepted
           candidates == Retrieved(sys, hits)
           done == question.outcome \in {"judged", "deterministic"}
           answered == question.outcome # "not_run"
           text == IF answered THEN OutputText(question.answer) ELSE NoText
           ledgerRef == <<"ledger", CaseId, [i \in DOMAIN candidates |-> <<candidates[i][1], "kept">>], Visible>>
           evaluation == IF done THEN <<"evaluation", <<1, 1>>, text, question.judge>> ELSE NoRef
           case == [id |-> CaseId, run |-> Run, occurrence |-> Occurrence, entry |-> TheCase, adapter |-> AdapterProfile(sys),
                    state |-> IF done THEN "completed" ELSE "error", disposition |-> question.outcome,
                    errorStage |-> CASE done -> "none" [] answered -> "judge" [] OTHER -> "answer",
                    retrieval |-> RetrievalResponse(sys, Occurrence, Scope, hits),
                    request |-> IF sys \in {"hindsight", "mem0", "openviking"} THEN RetrievalRequest(sys, Scope) ELSE NoRef,
                    supporting |-> RetrievalSupport(sys, Occurrence, Scope, hits),
                    candidates |-> [i \in DOMAIN candidates |-> candidates[i][1]],
                    candidateSources |-> [i \in DOMAIN candidates |-> candidates[i][2]],
                    visible |-> Visible, ledger |-> ledgerRef, kept |-> Len(candidates), dropped |-> 0,
                    preRefs |-> CaptureRefs(5, accepted), postRefs |-> CaptureRefs(6, accepted),
                    preState |-> StateOf(accepted), postState |-> StateOf(accepted),
                    prompt |-> AnswerPrompt, answer |-> IF answered THEN question.answer ELSE NoRef, answerText |-> text,
                    judgePrompt |-> IF answered /\ judged THEN JudgePrompt ELSE NoRef,
                    evaluation |-> evaluation, metric |-> IF done THEN <<1, 1>> ELSE << >>,
                    attempts |-> ledger.attempts, usages |-> ledger.usages, resources |-> ledger.resources, costs |-> ledger.costs]
           run == [run |-> Run, spec |-> Spec_, state |-> "finalized", plans |-> <<Occurrence>>, cases |-> <<CaseId>>]
       IN  files' = files \cup Raws({Visible, ledgerRef} \cup ({evaluation} \ {NoRef}))
                       \cup {<<"case", CaseId, case>>, <<"run", Run, run>>}
    /\ phase' = "seal"
    /\ UNCHANGED <<sys, judged, planLedger, ledger, progress, question, manifest, damage, trouble>>

\* A file is not there.
Lose(f) ==
    /\ phase = "seal" /\ trouble = 0 /\ damage = NoDamage
    /\ files' = files \ {f}
    /\ damage' = <<"lost", IF f[1] = "raw" THEN f[2][1] ELSE f[1]>>
    /\ UNCHANGED <<sys, judged, phase, planLedger, ledger, progress, question, manifest, trouble>>

\* A field of one record holds the value of another record of its kind.
Wirable == {"claim", "reservation", "intent", "receipt", "attempt", "usage", "resource", "cost"}
CrossWire(f) ==
    /\ phase = "seal" /\ trouble = 0 /\ damage = NoDamage /\ Live(sys) /\ f[1] \in Wirable
    /\ \E field \in DOMAIN f[3] \ {"id"} :
          \E value \in {g[3][field] : g \in {h \in files : h[1] = f[1]}} \ {f[3][field]} :
             /\ files' = (files \ {f}) \cup {<<f[1], f[2], [f[3] EXCEPT ![field] = value]>>}
             /\ damage' = <<f[1], IF field = "messages" /\ value # NoRef /\ f[3].messages = NoRef THEN "no messages" ELSE field>>
    /\ UNCHANGED <<sys, judged, phase, planLedger, ledger, progress, question, manifest, trouble>>

\* source_manifest: the manifest lists what is there.
SealManifest ==
    /\ phase = "seal"
    /\ manifest' = [run |-> Run, spec |-> Spec_, entries |-> files]
    /\ phase' = "sealed"
    /\ UNCHANGED <<sys, judged, files, planLedger, ledger, progress, question, damage, trouble>>

Results == {"valid", "malformed", "blank", "rate", "lost", "rejected", "unread"}

CapsuleNext ==
    \/ Allocate \/ IngestSucceeds \/ IngestSettlesFailed \/ Ready \/ Query
    \/ \E x \in Results : Call(x)
    \/ SealCase
    \/ \E f \in files : Lose(f) \/ CrossWire(f)
    \/ SealManifest

CapsuleSpec == Init /\ [][CapsuleNext]_vars

-----------------------------------------------------------------------------
Accepted == Validated(Snapshot(manifest, files))

\* A capsule that the run sealed as finished is accepted: whatever failed and
\* was retried, given up or recorded as an error, the evidence that native_run
\* leaves is the evidence that validation asks for.  Left out are the two
\* kinds of response of AllSealedChainsClose, and a session that was given
\* up, whose failure wait_ready does not return though validation looks for it.
NativeValidates ==
    phase = "sealed" /\ damage = NoDamage /\ ~question.odd /\ ~(sys = "openviking" /\ progress.skipped # << >>)
        => Accepted

\* A capsule in which a file is not there is refused, although its manifest
\* agrees with it.  Nothing asks for a history record when there is none, or
\* for the messages of a completion of one call, which its prompt determines.
NativeLossDetected ==
    phase = "sealed" /\ damage[1] = "lost" /\ damage[2] \notin {"history", "messages"} => ~Accepted

\* A record that holds the value of another record of its kind, in a field that
\* says whose evidence it is, is refused.  The ordinal of an attempt, the owner
\* of a usage and the messages of a memory operation are compared with nothing.
NativeCrossWiringDetected ==
    phase = "sealed" /\ damage[1] \in Wirable /\ damage \notin {<<"attempt", "ordinal">>, <<"attempt", "no messages">>, <<"usage", "owner">>} => ~Accepted
=============================================================================
