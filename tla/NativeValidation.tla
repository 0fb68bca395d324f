--------------------------- MODULE NativeValidation --------------------------
(***************************************************************************)
(* The rules by which artifacts/validation/native.py decides whether a     *)
(* finished native capsule is evidence: it sees the files and nothing of   *)
(* the run.  A file is <<kind, name, content>>.  A rule that the code      *)
(* states as a list of issues is here the predicate that there are none.   *)
(***************************************************************************)
EXTENDS ProviderEvidence

\* _load_native_capsule: what the rules read.  The manifest lists the files as
\* they were when it was sealed.
Records(files, kind) == {f[3] : f \in {g \in files : g[1] = kind}}

Snapshot(manifest, files) ==
    [manifest     |-> manifest,
     files        |-> files,
     refs         |-> {f[2] : f \in {g \in files : g[1] = "raw"}},
     raws         |-> {f[2] : f \in {g \in files : g[1] = "raw" /\ g[2] = g[3]}},
     datasets     |-> Records(files, "dataset"),
     caseManifests |-> Records(files, "caseManifest"),
     specs        |-> Records(files, "spec"),
     preflights   |-> Records(files, "preflight"),
     budgets      |-> Records(files, "budget"),
     roles        |-> Records(files, "role"),
     leases       |-> Records(files, "lease"),
     claims       |-> Records(files, "claim"),
     reservations |-> Records(files, "reservation"),
     intents      |-> Records(files, "intent"),
     receipts     |-> Records(files, "receipt"),
     attempts     |-> Records(files, "attempt"),
     usages       |-> Records(files, "usage"),
     resources    |-> Records(files, "resource"),
     costs        |-> Records(files, "cost"),
     plans        |-> Records(files, "plan"),
     cases        |-> Records(files, "case"),
     histories    |-> Records(files, "history"),
     runs         |-> Records(files, "run")]

ById(S) == [i \in {x.id : x \in S} |-> CHOOSE x \in S : x.id = i]
Ids(S) == {x.id : x \in S}
AttemptsOf(s, parent) == {a \in s.attempts : a.parent = parent}

\* _parse_native_contract and the identity of a file: a record whose validator
\* raises, or that is not the one its name says, is a parse failure.
NamedBy(f) ==
    IF f[1] \in {"claim", "reservation", "intent", "receipt", "attempt", "usage", "resource", "cost",
                 "plan", "case", "history"}
    THEN f[3].id = f[2] ELSE TRUE

ContractCloses(f) ==
    CASE f[1] = "reservation" -> ReservationCloses(f[3])
      [] f[1] = "receipt" -> ReceiptCloses(f[3])
      [] f[1] = "attempt" -> AttemptCloses(f[3])
      [] f[1] = "plan" -> PlanRecordCloses(f[3])
      [] f[1] = "case" -> CaseRecordCloses(f[3])
      [] f[1] = "history" -> HistoryRecordCloses(f[3])
      [] OTHER -> TRUE

Parses(s) == \A f \in s.files : NamedBy(f) /\ ContractCloses(f)

\* The files are those of the manifest, byte for byte.
SourceInventoryCloses(s) == s.files = s.manifest.entries

-----------------------------------------------------------------------------
(* native.manifest-schema.v1                                               *)

\* The run control and the runtime that the plans name.
LiveControlCloses(s) ==
    LET spec == The(s.specs)
        preflight == The(s.preflights)
        budget == The(s.budgets)
        plan == The(s.plans)
        cases == The(s.caseManifests)
    IN  /\ Cardinality(s.specs) = 1 /\ Cardinality(s.preflights) = 1 /\ Cardinality(s.budgets) = 1
        /\ spec.run = s.manifest.run
        /\ spec.dataset = The(s.datasets) /\ spec.cases = cases /\ spec.workload = cases.workload
        /\ spec.system = plan.system /\ spec.runtime = plan.runtime
        /\ spec.budget = budget.id /\ spec.roles = preflight.roles /\ spec.roles = s.roles
        /\ preflight.run = s.manifest.run /\ preflight.spec = spec
        /\ preflight.dataset = The(s.datasets) /\ preflight.subset = cases
        /\ preflight.adapter = plan.adapter /\ preflight.runtime = plan.runtime
        /\ preflight.budget = budget /\ preflight.routes = budget.routes
        /\ budget.scope = s.manifest.run
        /\ s.manifest.spec = <<spec>>

FixtureControlCloses(s) ==
    LET plan == The(s.plans)
    IN  s.manifest.spec = <<"fixture", s.manifest.run, The(s.datasets), The(s.caseManifests),
                            plan.system, plan.runtime, plan.adapter>>

\* The occurrence of a plan: that of its one ready history attempt, or the
\* one of the first try.
PlanOccurrence(s, plan) ==
    LET ready == {h \in s.histories : h.plan = plan.plan /\ h.status = "ready"}
    IN  IF Cardinality(ready) = 1 THEN The(ready).occurrence
        ELSE IngestionOccurrenceId(plan.system, plan.plan)

ManifestPlan(s, plan) == SelectSeq(The(s.caseManifests).plans, LAMBDA p : p.plan = plan.plan)

\* The plans and cases are those the case manifest selects, in its order.
RecordInventoryCloses(s) ==
    LET selected == {c.entry : c \in s.cases}
        Occurrences(p) ==
            LET entries == SelectSeq(ManifestPlan(s, p)[1].cases, LAMBDA c : c \in selected)
            IN  [i \in DOMAIN entries |-> CaseOccurrenceId(PlanOccurrence(s, p), entries[i])]
    IN  /\ \A p \in s.plans :
              /\ p.run = s.manifest.run
              /\ \A q \in s.plans : p.plan = q.plan => p = q
              /\ Len(ManifestPlan(s, p)) = 1
              /\ Occurrences(p) # << >>
              /\ p.id = PlanOccurrence(s, p)
              /\ p.members = ManifestPlan(s, p)[1].members
              /\ p.cases = Occurrences(p)
        /\ \A c \in s.cases :
              /\ c.run = s.manifest.run
              /\ \A d \in s.cases : c.entry = d.entry => c = d
              /\ c.entry \in The(s.caseManifests).cases
              /\ c.id = CaseOccurrenceId(c.occurrence, c.entry)
              /\ \E p \in s.plans : c.id \in ToSet(Occurrences(p))

\* _history_closure_issues: with no history record there is nothing to close.
HistoriesClose(s) ==
    s.histories # {} =>
        /\ {h.plan : h \in s.histories} = {p.plan : p \in s.plans}
        /\ \A h \in s.histories :
              /\ h.ordinal = 1 /\ h.previous = NoRef /\ h.status = "ready"
              /\ \A g \in s.histories : g.plan = h.plan => g = h
              /\ \E p \in s.plans : h.plan = p.plan /\ h.occurrence = p.id /\ h.planRecord = p
              /\ h.scopeRefs \cup h.settlementRefs \subseteq s.refs
              /\ \A o \in h.operations : \E a \in s.attempts : a.id = o /\ a.parent = h.occurrence

RunTerminalCloses(s) ==
    LET run == The(s.runs)
        occurrences == IF s.histories # {} THEN {h.occurrence : h \in s.histories}
                       ELSE {PlanOccurrence(s, p) : p \in s.plans}
    IN  /\ Cardinality(s.runs) = 1
        /\ HistoriesClose(s)
        /\ run.run = s.manifest.run /\ run.spec = s.manifest.spec /\ run.state = "finalized"
        /\ Len(run.plans) = Cardinality(occurrences) /\ ToSet(run.plans) = occurrences
        /\ LET cases == UNION {ToSet(p.cases) : p \in s.plans}
           IN  Len(run.cases) = Cardinality(cases) /\ ToSet(run.cases) = cases

\* _strict_run_lease_chain
LeaseChainCloses(leases) ==
    /\ leases # {}
    /\ {l.epoch : l \in leases} = 1..Cardinality(leases)
    /\ \A l, m \in leases :
          m.epoch = l.epoch + 1 => m.previous = <<l>> /\ m.run = l.run /\ m.project = l.project

\* _has_exact_reference_inventory
ExactInventory(records, intents, named) ==
    /\ Ids(records) = named
    /\ Cardinality(intents) = Cardinality(records)

\* As a bug would have it: the receipt is not compared with the attempt.
AttemptAlignedLoosely(s, a, intent, receipt) ==
    LET claim == The({c \in s.claims : c.id = intent.claim})
    IN  claim.occurrence = a.parent /\ claim.stage = a.stage /\ claim.fp = a.fp

\* One attempt, its intent, its receipt, its claim and its reservation.
AttemptAligned(s, a, intent, receipt) ==
    LET claims == {c \in s.claims : c.id = intent.claim}
        claim == The(claims)
        reservations == {r \in s.reservations : r.id = intent.reservation}
        reservation == The(reservations)
    IN  /\ claims # {} /\ reservations # {}
        /\ claim.lease \in s.leases /\ claim.epoch = claim.lease.epoch /\ claim.owner = claim.lease.owner
        /\ claim.occurrence = a.parent /\ a.parent = intent.parent
        /\ claim.stage = a.stage /\ a.stage = intent.stage
        /\ claim.fp = a.fp /\ a.fp = intent.fp
        /\ reservation.attempt = a.id
        /\ intent.at <= a.started
        /\ receipt.started = a.started /\ receipt.observed = a.ended
        /\ receipt.response = a.response /\ receipt.error = a.error
        /\ IF a.version = 4
           THEN /\ Cardinality(s.preflights) = 1 /\ Cardinality(s.budgets) = 1
                /\ a.run = s.manifest.run
                /\ a.intent = <<intent>> /\ a.receipt = <<receipt>>
                /\ intent.scope = <<"run", s.manifest.run>> /\ reservation.scope = intent.scope
                /\ intent.preflight = <<The(s.preflights)>>
                /\ intent.budget = <<The(s.budgets)>> /\ reservation.budget = intent.budget
                /\ a.route = intent.route /\ intent.route = reservation.route
                /\ \E r \in The(s.budgets).routes : a.route = <<r>>
           ELSE reservation.scope = a.parent

AttemptEvidenceCloses(s) ==
    LET intents == ById(s.intents)
        receipts == ById(s.receipts)
    IN  /\ LeaseChainCloses(s.leases)
        /\ \A c \in s.claims : c.id = ClaimId(c)
        /\ ExactInventory(s.claims, s.intents, {i.claim : i \in s.intents})
        /\ ExactInventory(s.reservations, s.intents, {i.reservation : i \in s.intents})
        /\ Ids(s.attempts) = DOMAIN intents /\ Ids(s.attempts) = DOMAIN receipts
        /\ \A a \in s.attempts : AttemptAligned(s, a, intents[a.id], receipts[a.id])

ManifestSchemaRule(s) ==
    /\ Parses(s) /\ SourceInventoryCloses(s)
    /\ s.plans # {} /\ s.cases # {} /\ Cardinality(s.datasets) = 1 /\ Cardinality(s.caseManifests) = 1
    /\ \A p, q \in s.plans : p.system = q.system /\ p.runtime = q.runtime /\ p.adapter = q.adapter
    /\ IF s.specs # {} \/ s.preflights # {} THEN LiveControlCloses(s) ELSE FixtureControlCloses(s)
    /\ RecordInventoryCloses(s)
    /\ RunTerminalCloses(s)
    /\ AttemptEvidenceCloses(s)

-----------------------------------------------------------------------------
(* native.raw-closure.v1                                                   *)

\* _all_raw_references
AllRawReferences(s) ==
    (UNION {ToSet(p.scopeRefs) \cup ToSet(p.readinessRefs) \cup {p.inventoryRef} \cup ToSet(p.projectionRefs)
            : p \in s.plans}
     \cup UNION {{c.retrieval, c.request, c.visible, c.ledger, c.prompt, c.judgePrompt, c.answer, c.evaluation}
                 \cup ToSet(c.supporting) \cup ToSet(c.preRefs) \cup ToSet(c.postRefs) : c \in s.cases}
     \cup UNION {{a.response, a.error} : a \in s.attempts}
     \cup {u.raw : u \in s.usages}) \ {NoRef}

RawClosureRule(s) == AllRawReferences(s) \subseteq s.raws

-----------------------------------------------------------------------------
(* native.plan-closure.v1                                                  *)

\* The calls that a supplier may have answered; one whose outcome is unknown
\* left nothing to account for.
Accountable(s, atts) ==
    LET known == ById(s.attempts)
    IN  SelectSeq(atts, LAMBDA a : ~(known[a].outcome = "unknown" /\ known[a].response = NoRef /\ known[a].error = NoRef))

RawOf(a) == IF a.response # NoRef THEN a.response ELSE a.error

IndexingView(a) ==
    CASE a.stage # "memory_ingest"  -> "not_applicable"
      [] a.outcome = "succeeded"    -> "final_contribution"
      [] OTHER                      -> "attempted"

\* As a bug would have it: costs are only counted.
AccountingLedgerClosesByCount(s, parent, atts, usages, resources, costs) ==
    /\ atts # << >>
    /\ \A i \in DOMAIN atts : \E a \in AttemptsOf(s, parent) : a.id = atts[i]
    /\ Len(resources) = Len(Accountable(s, atts)) /\ Len(costs) = Len(Accountable(s, atts))

\* _accounting_ledger_closes: the usage, resource and cost records of an owner
\* are those of its attempts, in their order.
AccountingLedgerCloses(s, parent, atts, usages, resources, costs) ==
    /\ atts # << >>
    /\ \A i \in DOMAIN atts : \E a \in AttemptsOf(s, parent) : a.id = atts[i]
    /\ LET counted == Accountable(s, atts)
           known == ById(s.attempts)
           UsagesOf(a) == {u \in s.usages : u.attempt = a.id}
           live == \E i \in DOMAIN atts : known[atts[i]].version = 4
       IN  /\ Len(resources) = Len(counted) /\ Len(costs) = Len(counted)
           /\ IF live THEN /\ Unique(usages)
                           /\ ToSet(usages) = UNION {Ids(UsagesOf(known[a])) : a \in ToSet(counted)}
              ELSE Len(usages) = Len(counted)
           /\ \A i \in DOMAIN counted :
                 LET a == known[counted[i]]
                     r == The({x \in s.resources : x.id = resources[i]})
                     c == The({x \in s.costs : x.id = costs[i]})
                 IN  /\ resources[i] \in Ids(s.resources) /\ costs[i] \in Ids(s.costs)
                     /\ r.parent = parent /\ r.stage = a.stage /\ r.raw = RawOf(a)
                     /\ c.parent = parent /\ c.view = IndexingView(a) /\ c.resource = resources[i]
                     /\ live => /\ c.usages = Ids(UsagesOf(a))
                                /\ r.attempt = a.id /\ c.attempt = a.id
                                /\ r.route = a.route /\ c.route = a.route /\ r.owner = c.owner
                     /\ ~live => \E u \in UsagesOf(a) : u.id = usages[i] /\ c.usages = {u.id}
                     /\ \A u \in UsagesOf(a) : live \/ u.id = usages[i] =>
                           u.parent = parent /\ u.stage = a.stage /\ u.raw = RawOf(a) /\ u.route = a.route

\* _plan_usage_closes
PlanUsageCloses(s, p) ==
    LET dispatches == {a \in s.attempts : a.id \in ToSet(p.attempts) /\ a.stage = "memory_ingest"}
    IN  /\ p.dispatches # << >> /\ Unique(p.usages)
        /\ ToSet(p.usages) = {u.id : u \in {v \in s.usages : v.attempt \in Ids(dispatches)}}
        /\ \A a \in dispatches : \E u \in s.usages : u.attempt = a.id
        /\ \A u \in s.usages : \A a \in dispatches :
              u.attempt = a.id => u.parent = p.id /\ u.stage = "memory_ingest" /\ u.raw = RawOf(a)

\* _settled_ingestion_receipt_closes: the failure was one the provider proves
\* settled, by the evidence that this provider gives.
SettledReceiptCloses(s, p, sources, a, receipt, batchAttempt) ==
    /\ receipt.kind = "error" /\ receipt.error = a.error /\ receipt.error # NoRef
    /\ receipt.basis = SettlementBasis(p.system)
    /\ p.system = "openviking" =>
          Len(sources) = 1 /\ receipt.error = <<"settled", "openviking", SessionOf(p.id, sources[1], batchAttempt)>>
    /\ receipt.error \in s.refs
    /\ ClassifySettledFailure(receipt.basis, receipt.status, receipt.error) = receipt.failure

RetryChain(s, final) ==
    LET known == ById(s.attempts)
        Back[n \in 0..3] == IF n = 0 THEN <<final>>
                            ELSE LET first == Back[n - 1][1]
                                 IN  IF first.retryOf \in DOMAIN known THEN <<known[first.retryOf]>> \o Back[n - 1] ELSE Back[n - 1]
    IN  Back[3]

\* As a bug would have it: one attempt fewer than the producer makes.
DispatchRetryChainClosesEarly(s, p, sources, final) == Len(RetryChain(s, final)) <= 2

\* _dispatch_retry_chain_closes: at most three tries, exactly three when the
\* sources were given up, and no other attempt at the dispatch.
DispatchRetryChainCloses(s, p, sources, final) ==
    LET chain == RetryChain(s, final)
        skipped == ToSet(sources) \subseteq ToSet(p.skipped)
        Same(a) == a.parent = final.parent /\ a.stage = "memory_ingest" /\ a.ordinal = final.ordinal /\ a.fp = final.fp
        receipts == ById(s.receipts)
        Failures == IF skipped THEN Len(chain) ELSE Len(chain) - 1
    IN  /\ Len(chain) <= 3 /\ (skipped => Len(chain) = 3)
        /\ chain[1].retryOf = NoRef
        /\ {a.id : a \in {b \in s.attempts : Same(b)}} = {chain[i].id : i \in DOMAIN chain}
        /\ \A i \in DOMAIN chain : chain[i].id \in ToSet(p.attempts)
        /\ \A i \in 1..Failures :
              /\ chain[i].outcome = "failed" /\ chain[i].id \in DOMAIN receipts
              /\ SettledReceiptCloses(s, p, sources, chain[i], receipts[chain[i].id], i)
        /\ IF skipped THEN final.outcome = "failed"
           ELSE /\ final.outcome = "succeeded" /\ final.id \in DOMAIN receipts
                /\ receipts[final.id].kind = "response" /\ receipts[final.id].response = final.response

\* The adapter's own reconstruction of a plan from its raw payloads.
PlanEvidenceCloses(s, p) ==
    CASE p.adapter = AdapterProfile("hindsight")        -> HindsightPlanCloses(s, p)
      [] p.adapter = AdapterProfile("mem0")             -> Mem0PlanCloses(s, p)
      [] p.adapter = AdapterProfile("openviking_batch") -> OpenVikingPlanCloses(s, p)
      [] p.adapter = AdapterProfile("openviking")       -> OpenVikingSessionPlanCloses(s, p)
      [] OTHER                                          -> ScriptedPlanCloses(s, p)

PlanClosureRule(s) ==
    \A p \in s.plans :
        /\ p.state = "sealed" /\ p.scope # NoRef
        /\ AccountingLedgerCloses(s, p.id, p.attempts, p.usages, p.resources, p.costs)
        /\ \A i \in DOMAIN p.dispatches :
              \A a \in s.attempts : a.id = p.dispatches[i] => DispatchRetryChainCloses(s, p, p.dispatchSources[i], a)
        /\ PlanEvidenceCloses(s, p)
        /\ PlanUsageCloses(s, p)

-----------------------------------------------------------------------------
(* native.retrieval-closure.v1 and native.retrieval-request.v1             *)

PlanOf(s, c) == The({p \in s.plans : p.id = c.occurrence})

\* _normalized_native_candidates
Candidates(s, c) ==
    LET p == PlanOf(s, c)
    IN  IF c.retrieval \notin s.refs \/ ~\E q \in s.plans : q.id = c.occurrence THEN NoCandidates
        ELSE CASE c.adapter = AdapterProfile("hindsight") -> HindsightCandidates(s, p, c)
               [] c.adapter = AdapterProfile("mem0") -> Mem0Candidates(s, p, c)
               [] c.adapter = AdapterProfile("openviking_batch") -> OpenVikingCandidates(s, p, c)
               [] c.adapter = AdapterProfile("openviking") -> OpenVikingSessionCandidates(s, p, c)
               [] OTHER -> ScriptedCandidates(s, p, c)

CaseAttempts(s, c, stage) ==
    LET known == ById(s.attempts)
        atts == [i \in DOMAIN c.attempts |-> known[c.attempts[i]]]
    IN  SelectSeq(atts, LAMBDA a : a.stage = stage)

\* The attempts of a case: one query, between two projections when it is
\* live, and the chains of the answer and of the judge.
CaseAttemptLedgerCloses(s, c) ==
    LET Of_(stage) == CaseAttempts(s, c, stage)
        answers == Of_("answer")
        judges == Of_("judge")
        receipts == ById(s.receipts)
        live == \E i \in DOMAIN c.attempts : \E a \in s.attempts : a.id = c.attempts[i] /\ a.version = 4
    IN  /\ Len(Of_("memory_query")) = 1 /\ Of_("memory_query")[1].response = c.retrieval
        /\ ModelAttemptChainCloses(s.raws, receipts, answers, c.prompt, c.answer, c.disposition # "not_run")
        /\ (judges # << >>) = (c.disposition \in {"judged", "unjudged"})
        /\ judges # << >> => ModelAttemptChainCloses(s.raws, receipts, judges, c.judgePrompt, NoRef, c.disposition = "judged")
        /\ IF live THEN /\ Len(Of_("pre_query_projection")) = 1 /\ Len(Of_("post_query_projection")) = 1
                        /\ Of_("pre_query_projection")[1].response \in ToSet(c.preRefs)
                        /\ Of_("post_query_projection")[1].response \in ToSet(c.postRefs)
                        /\ Len(c.attempts) = 3 + Len(answers) + Len(judges)
           ELSE Len(c.attempts) = 1 + Len(answers) + Len(judges)

AnswerCloses(s, c) ==
    /\ c.prompt \in s.refs
    /\ IF c.disposition = "not_run" THEN c.answer = NoRef /\ c.answerText = NoText
       ELSE c.answer \in s.refs /\ OutputText(c.answer) = c.answerText /\ c.answerText # NoText
    /\ c.disposition = "deterministic" => c.judgePrompt = NoRef

RetrievalClosureRule(s) ==
    \A c \in s.cases :
        /\ \E p \in s.plans : p.id = c.occurrence /\ c.adapter = p.adapter /\ c.id \in ToSet(p.cases)
        /\ c.state = "completed" \/ <<c.disposition, c.errorStage>> \in {<<"unjudged", "judge">>, <<"not_run", "answer">>}
        /\ Candidates(s, c) # NoCandidates
        /\ [i \in DOMAIN Candidates(s, c) |-> Candidates(s, c)[i][1]] = c.candidates
        /\ [i \in DOMAIN Candidates(s, c) |-> Candidates(s, c)[i][2]] = c.candidateSources
        /\ ToSet(c.attempts) \subseteq Ids(s.attempts)
        /\ CaseAttemptLedgerCloses(s, c)
        /\ AccountingLedgerCloses(s, c.id, c.attempts, c.usages, c.resources, c.costs)
        /\ AnswerCloses(s, c)

RetrievalRequestRule(s) ==
    (\E a \in s.attempts : a.version = 4) => \A c \in s.cases : RequestCloses(s, c)

-----------------------------------------------------------------------------
(* native.visible-context.v1, native.query-state.v1,                       *)
(* native.metric-fraction.v1                                               *)

\* _rebuild_visible: what the model saw is what the candidates and the
\* decisions on them make.
VisibleContextRule(s) ==
    \A c \in s.cases :
        LET candidates == Candidates(s, c)
            decisions == c.ledger[3]
            kept == SelectSeq(decisions, LAMBDA d : d[2] = "kept")
        IN  /\ c.visible \in s.refs /\ c.ledger \in s.refs /\ candidates # NoCandidates
            /\ c.ledger[2] = c.id /\ c.ledger[4] = c.visible
            /\ Len(kept) = c.kept /\ Len(decisions) - Len(kept) = c.dropped
            /\ decisions = [i \in DOMAIN candidates |-> <<candidates[i][1], "kept">>]
            /\ c.visible = <<"visible", candidates>>

\* The query left the state as the plan's projection had it.
StateKept(c, p, projected, before, after) ==
    /\ before[1] # NoRef /\ before[1] = c.preState /\ after[1] = c.postState /\ before[1] = after[1]
    /\ p.adapter # AdapterProfile("scripted") => before[1] = p.protected
    /\ p.adapter = AdapterProfile("mem0") => before[2] > projected[2] /\ after[2] = before[2] + 1

QueryStateRule(s) ==
    \A c \in s.cases :
        LET p == PlanOf(s, c)
        IN  /\ \E q \in s.plans : q.id = c.occurrence
            /\ StateKept(c, p, ProvenState(s, p, p.projectionRefs),
                         ProvenState(s, p, c.preRefs), ProvenState(s, p, c.postRefs))

MetricFractionRule(s) ==
    \A c \in s.cases :
        IF c.disposition \in {"not_run", "unjudged"}
        THEN /\ c.state = "error" /\ c.errorStage = (IF c.disposition = "not_run" THEN "answer" ELSE "judge")
             /\ c.evaluation = NoRef /\ c.metric = << >>
             /\ c.disposition = "not_run" => c.answer = NoRef /\ c.answerText = NoText
        ELSE LET judges == CaseAttempts(s, c, "judge")
                 judge == IF judges = << >> THEN NoRef ELSE Last(judges).response
             IN  /\ c.evaluation \in s.refs
                 /\ c.evaluation = <<"evaluation", c.metric, c.answerText, judge>>
                 /\ (c.disposition = "judged") = (judges # << >>)
                 /\ judges # << >> => Last(judges).outcome = "succeeded"

\* validate_native_capsule: every rule is evaluated, and all must hold.
Validated(s) ==
    /\ ManifestSchemaRule(s) /\ RawClosureRule(s) /\ PlanClosureRule(s) /\ RetrievalClosureRule(s)
    /\ VisibleContextRule(s) /\ QueryStateRule(s) /\ MetricFractionRule(s) /\ RetrievalRequestRule(s)
=============================================================================
