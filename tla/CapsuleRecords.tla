---------------------------- MODULE CapsuleRecords ---------------------------
(***************************************************************************)
(* The records of a native capsule (oamb/contracts/evidence.py), as        *)
(* native_run.py seals them and artifacts/validation/native.py reads them. *)
(*                                                                         *)
(* A hash is injective, so the hash of something is that thing; a record   *)
(* that is named by the hash of its own fields is named by a tuple of      *)
(* them.  A raw payload is a tuple that starts with what it is; its        *)
(* reference is the payload.  A time is a count of what was sealed before. *)
(***************************************************************************)
EXTENDS ModelAttemptChain, SequencesExt, FiniteSetsExt

Run == "run"
ThePlan == "plan"
TheCase == "case"

\* OpenViking has two adapters, one for resources and one for sessions.
SystemOf(adapter) == IF adapter = "openviking_batch" THEN "openviking" ELSE adapter

IngestionOccurrenceId(system, plan) == <<"occurrence", Run, system, plan>>
CaseOccurrenceId(occurrence, case) == <<"case", occurrence, case>>
AttemptId(parent, stage, ordinal, batch) == <<"attempt", parent, stage, ordinal, batch>>
Fingerprint(parent, stage, ordinal) == <<"request", parent, stage, ordinal>>

Live(sys) == sys # "scripted"

-----------------------------------------------------------------------------
(* Run control.                                                            *)

Runtime(sys) == <<"runtime", sys>>
AdapterProfile(sys) == <<"profile", sys>>

MemoryStages == {"runtime_resolve", "scope_allocate", "memory_ingest", "memory_readiness",
                 "memory_projection", "pre_query_projection", "memory_query", "post_query_projection"}
ModelStages == {"answer", "judge"}
TokenStages == {"memory_ingest", "memory_query"} \cup ModelStages

\* The owners of a route's budget, in order: the provider operation and the
\* model roles it uses, or the one role of a direct model call.
RouteOwners(stage) ==
    CASE stage \in ModelStages -> << <<"model_role", stage>> >>
      [] stage = "memory_ingest" ->
            << <<"provider_operation", stage>>, <<"model_role", "memory_llm">>, <<"model_role", "memory_embedding">> >>
      [] stage = "memory_query" -> << <<"provider_operation", stage>>, <<"model_role", "memory_embedding">> >>
      [] OTHER -> << <<"provider_operation", stage>> >>

Route(stage) == [stage |-> stage, owners |-> RouteOwners(stage)]
Routes == {Route(stage) : stage \in MemoryStages \cup ModelStages}

Dataset == <<"dataset">>
CaseManifest(sources) ==
    [workload |-> "workload",
     plans    |-> << [plan |-> ThePlan, members |-> sources, cases |-> <<TheCase>>] >>,
     cases    |-> {TheCase}]
Roles == {"answer", "judge", "memory_llm", "memory_embedding"}
Budget == [id |-> "budget", scope |-> Run, routes |-> Routes]

RunSpec(sys, sources) ==
    [run |-> Run, dataset |-> Dataset, cases |-> CaseManifest(sources), workload |-> "workload",
     system |-> SystemOf(sys), runtime |-> Runtime(sys), budget |-> "budget", roles |-> Roles]
RunPreflight(sys, sources) ==
    [run |-> Run, spec |-> RunSpec(sys, sources), dataset |-> Dataset, subset |-> CaseManifest(sources),
     adapter |-> AdapterProfile(sys), runtime |-> Runtime(sys), budget |-> Budget, routes |-> Routes, roles |-> Roles]

\* A fixture has no run specification; its hash stands for these fields.
FixtureSpec(sys, sources) ==
    <<"fixture", Run, Dataset, CaseManifest(sources), SystemOf(sys), Runtime(sys), AdapterProfile(sys)>>

-----------------------------------------------------------------------------
(* The evidence of one attempt.                                            *)

Lease(epoch, previous) == [epoch |-> epoch, owner |-> "owner", run |-> Run, project |-> "project", previous |-> previous]

Claim(lease, parent, stage, fp, at) ==
    LET fields == <<"claim", parent, lease, lease.epoch, lease.owner, stage, fp, at>>
    IN  [id |-> fields, occurrence |-> parent, lease |-> lease, epoch |-> lease.epoch, owner |-> lease.owner,
         stage |-> stage, fp |-> fp, at |-> at]
ClaimId(c) == <<"claim", c.occurrence, c.lease, c.epoch, c.owner, c.stage, c.fp, c.at>>

\* BudgetOwnerAllocation: one attempt and its tokens to each owner.
Allocations(stage) ==
    [i \in DOMAIN RouteOwners(stage) |->
        [kind |-> RouteOwners(stage)[i][1], owner |-> RouteOwners(stage)[i][2], attempts |-> 1,
         tokens |-> IF RouteOwners(stage)[i][1] = "model_role" THEN 1 ELSE 0]]

Total(allocations, F(_)) == FoldFunction(LAMBDA a, b : F(a) + b, 0, allocations)

ReservationId(r) == <<"reservation", r.attempt, r.budget, r.scope, r.route, r.allocations, r.attempts, r.tokens>>
Reservation(sys, attempt, parent, stage) ==
    LET r == [attempt |-> attempt,
              budget  |-> IF Live(sys) THEN <<Budget>> ELSE << >>,
              scope   |-> IF Live(sys) THEN <<"run", Run>> ELSE parent,
              route   |-> IF Live(sys) THEN <<Route(stage)>> ELSE << >>,
              allocations |-> Allocations(stage),
              attempts    |-> Total(Allocations(stage), LAMBDA a : a.attempts),
              tokens      |-> Total(Allocations(stage), LAMBDA a : a.tokens)]
    IN  [id |-> ReservationId(r)] @@ r

\* BudgetReservationRecordV3: named by its fields, provider operation first,
\* and the sums of its allocations.
ReservationCloses(r) ==
    LET Kinds == [i \in DOMAIN r.allocations |-> r.allocations[i].kind]
    IN  /\ r.id = ReservationId(r)
        /\ r.allocations # << >>
        /\ \A i, j \in DOMAIN r.allocations : i # j => r.allocations[i].owner # r.allocations[j].owner
        /\ IF Kinds[1] = "model_role" THEN Len(Kinds) = 1
           ELSE \A i \in DOMAIN Kinds : i > 1 => Kinds[i] = "model_role"
        /\ r.attempts = Total(r.allocations, LAMBDA a : a.attempts)
        /\ r.tokens = Total(r.allocations, LAMBDA a : a.tokens)

Intent(sys, sources, id, parent, stage, fp, claim, reservation, at) ==
    [id |-> id, claim |-> claim.id, reservation |-> reservation.id, parent |-> parent, stage |-> stage, fp |-> fp,
     scope     |-> <<"run", Run>>,
     preflight |-> IF Live(sys) THEN <<RunPreflight(sys, sources)>> ELSE << >>,
     budget    |-> reservation.budget,
     route     |-> reservation.route,
     at        |-> at]

NoFailure == [kind |-> "none", status |-> 0, basis |-> <<"none">>]

Receipt(id, outcome, ref, failure, at) ==
    [id       |-> id,
     kind     |-> CASE outcome = "succeeded" -> "response" [] outcome = "failed" -> "error" [] OTHER -> "unknown",
     response |-> IF outcome = "succeeded" THEN ref ELSE NoRef,
     error    |-> IF outcome = "failed" THEN ref ELSE NoRef,
     started  |-> at, observed |-> at + 1,
     failure  |-> failure.kind, status |-> failure.status, basis |-> failure.basis]

\* AttemptReceiptRecord: which references a receipt of each kind has.
ReceiptCloses(r) ==
    /\ r.observed >= r.started
    /\ (r.kind = "response") = (r.response # NoRef)
    /\ (r.kind = "error") = (r.error # NoRef)

Attempt(sys, id, parent, stage, ordinal, retryOf, fp, messages, outcome, ref, at, intent, receipt) ==
    [id |-> id, version |-> IF Live(sys) THEN 4 ELSE 2, run |-> Run, parent |-> parent, stage |-> stage,
     ordinal |-> ordinal, retryOf |-> retryOf, fp |-> fp, messages |-> messages, outcome |-> outcome,
     response |-> receipt.response, error |-> receipt.error, started |-> at, ended |-> at + 1,
     intent   |-> IF Live(sys) THEN <<intent>> ELSE << >>,
     receipt  |-> IF Live(sys) THEN <<receipt>> ELSE << >>,
     route    |-> intent.route]

AttemptCloses(a) == a.ended >= a.started

-----------------------------------------------------------------------------
(* Plans and history attempts.                                             *)

Unique(seq) == Len(seq) = Cardinality(ToSet(seq))

InOrderOf(seq, whole) ==
    \A i, j \in DOMAIN seq : i < j =>
        \E k, l \in DOMAIN whole : k < l /\ whole[k] = seq[i] /\ whole[l] = seq[j]

\* IngestionPlanRecordV2 and V3, sealed: the dispatches partition the sources in
\* their order, each source has one fate, and only what may have been written
\* is projected.
PlanRecordCloses(p) ==
    /\ Unique(p.members) /\ Unique(p.cases) /\ Unique(p.sources) /\ Unique(p.dispatches) /\ Unique(p.attempts)
    /\ Unique(p.accepted \o p.rejected \o p.skipped)
    /\ ToSet(p.accepted \o p.rejected \o p.skipped) = ToSet(p.sources)
    /\ ToSet(p.dispatches) \subseteq ToSet(p.attempts)
    /\ Len(p.dispatchSources) = Len(p.dispatches)
    /\ << >> \notin ToSet(p.dispatchSources)
    /\ FlattenSeq(p.dispatchSources) = p.sources
    /\ NoRef \notin {p.scope, p.inventoryRef, p.protected}
    /\ p.scopeRefs # << >> /\ p.readinessRefs # << >> /\ p.projectionRefs # << >>
    /\ Unique(p.projected) /\ InOrderOf(p.projected, p.sources)
    /\ ToSet(p.projected) \subseteq ToSet(p.accepted \o p.skipped)

\* HistoryAttemptRecord of a history that became ready.
HistoryId(h) == <<"history", h.plan, h.occurrence, h.ordinal, h.operations, h.scopeRefs>>
HistoryRecordCloses(h) ==
    /\ h.id = HistoryId(h)
    /\ h.ordinal = 1 => h.previous = NoRef
    /\ h.occurrence = IngestionOccurrenceId(h.system, h.plan)
    /\ h.status = "ready" => h.scope # NoRef /\ h.settlementRefs = {}

\* A dispatch that the provider proves it did not apply
\* (contracts/ingestion_failures.py): what each provider's proof is.
SettlementBasis(system) == <<"basis", system>>
SettledError(system, unique) == <<"settled", system, unique>>
SettledStatus(system) == CASE system = "hindsight" -> 500 [] system = "mem0" -> 502 [] OTHER -> 200

ClassifySettledFailure(basis, status, raw) ==
    IF raw[1] = "settled" /\ basis = SettlementBasis(raw[2]) /\ status = SettledStatus(raw[2])
    THEN "provider_ingestion_error" ELSE "none"

\* CaseRecordV3: aligned candidates, counts that add up, and, when the case is
\* completed, everything a score rests on.
CaseRecordCloses(c) ==
    /\ Len(c.candidates) = Len(c.candidateSources) /\ Unique(c.candidates)
    /\ c.kept + c.dropped = Len(c.candidates)
    /\ c.state = "completed" =>
          /\ NoRef \notin {c.prompt, c.retrieval, c.visible, c.ledger, c.answer, c.evaluation}
          /\ c.metric # << >> /\ c.metric[1] <= c.metric[2]
          /\ c.preRefs # << >> /\ c.postRefs # << >>
          /\ c.preState = c.postState /\ c.errorStage = "none"
          /\ c.disposition \in {"judged", "deterministic"}
          /\ (c.disposition = "judged") = (c.judgePrompt # NoRef)
=============================================================================
