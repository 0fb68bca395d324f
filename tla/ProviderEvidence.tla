--------------------------- MODULE ProviderEvidence --------------------------
(***************************************************************************)
(* The raw evidence of the memory systems: what their adapters leave in a  *)
(* capsule (memory_systems/.../adapter.py) and how validation reads it     *)
(* back (artifacts/validation/..._evidence.py).  What is written is a      *)
(* sequence of payloads; what is read back is worked out from the payloads *)
(* alone and compared with the plan and the case.                          *)
(***************************************************************************)
EXTENDS CapsuleRecords

CONSTANT PageLimit    \* items of a page of a provider's listing

ASSUME PageAssumption == PageLimit \in Nat \ {0}

The(S) == CHOOSE x \in S : TRUE
Of(op, refs) == SelectSeq(refs, LAMBDA r : r[1] = op)
WithoutRepeats(seq) ==
    FoldLeft(LAMBDA done, x : IF x \in ToSet(done) THEN done ELSE Append(done, x), << >>, seq)

\* The pages of a listing: full ones, then what is left, and an empty one.
Pages(op, scope, items) ==
    [i \in 1..((Len(items) + PageLimit - 1) \div PageLimit + 1) |->
        <<op, scope, (i - 1) * PageLimit, Len(items),
          SubSeq(items, (i - 1) * PageLimit + 1, IF i * PageLimit < Len(items) THEN i * PageLimit ELSE Len(items))>>]

\* _consume_pages: from cursor up to the first page without items, if these are
\* the pages of one listing; otherwise nothing.
ConsumePages(refs, cursor, op) ==
    LET ends == {k \in cursor..Len(refs) : refs[k][1] = op /\ refs[k][5] = << >>}
        last == Min(ends)
        pages == SubSeq(refs, cursor, last)
        Before(k) == FoldLeft(LAMBDA n, page : n + Len(page[5]), 0, SubSeq(pages, 1, k - 1))
    IN  IF /\ ends # {}
           /\ \A k \in DOMAIN pages : pages[k][1] = op /\ pages[k][4] = pages[1][4]
           /\ \A k \in DOMAIN pages : k < Len(pages) => pages[k][3] = Before(k)
           /\ Before(Len(pages)) = pages[1][4]
        THEN [items |-> FlattenSeq([k \in DOMAIN pages |-> pages[k][5]]), next |-> last + 1]
        ELSE [items |-> <<"incomplete">>, next |-> 0]

-----------------------------------------------------------------------------
(* The dispatches of a plan, which all four readers go through first.      *)

DispatchesClose(s, p) ==
    \A i \in DOMAIN p.dispatches :
        \E a \in s.attempts :
            /\ a.id = p.dispatches[i] /\ a.parent = p.id /\ a.stage = "memory_ingest"
            /\ IF ToSet(p.dispatchSources[i]) \subseteq ToSet(p.skipped)
               THEN a.outcome = "failed" /\ a.error \in s.refs
               ELSE a.outcome = "succeeded" /\ a.response \in s.refs

\* The attempts that were accepted, each with the sources it carried.
AcceptedDispatches(s, p) ==
    {[attempt |-> ia[2], sources |-> p.dispatchSources[ia[1]]] :
        ia \in {ia \in (DOMAIN p.dispatches) \X s.attempts :
                   ia[2].id = p.dispatches[ia[1]] /\ ia[2].outcome = "succeeded"}}

\* The response of each dispatch that was accepted, the error of each skipped.
DispatchRefs(s, p, skippedToo) ==
    {IF a.outcome = "succeeded" THEN a.response ELSE a.error :
        a \in {b \in s.attempts : b.id \in ToSet(p.dispatches) /\ (skippedToo \/ b.outcome = "succeeded")}}

-----------------------------------------------------------------------------
(* Hindsight: a bank for a history, retained documents, their memories.    *)

Bank(occurrence) == <<"bank", occurrence>>

HindsightScopeRefs(scope) ==
    << <<"bank_profile", scope, "created">>, <<"bank_inventory", "all">>, <<"bank_config", scope>>, <<"bank_profile", scope, "read">> >>

HindsightIngestRef(scope, sources) == <<"retain", scope, Len(sources)>>

HindsightState(scope, sources) == <<"hindsight_state", scope, sources>>

\* hindsight/projection.py: documents, their details, memories, their details
\* and two listings that must be empty.
HindsightProjectionRefs(scope, sources) ==
    <<HindsightState(scope, sources), HindsightState(scope, sources)>>
    \o Pages("documents", scope, sources) \o [i \in DOMAIN sources |-> <<"document", scope, sources[i]>>]
    \o Pages("memories", scope, sources) \o [i \in DOMAIN sources |-> <<"memory", scope, sources[i]>>]
    \o Pages("mental_models", scope, << >>) \o Pages("observations", scope, << >>)

\* reconstruct_hindsight_projection, from the last listing back to the first:
\* each part reads on from the page the part before it ended at.
EmptyListingsClose(rest, mental) ==
    /\ mental.next > 0 /\ mental.items = << >>
    /\ LET observations == ConsumePages(rest, mental.next, "observations")
       IN  observations.next = Len(rest) + 1 /\ observations.items = << >>

MemoriesClose(rest, scope, sources, memories) ==
    LET m == Len(memories.items)
    IN  /\ memories.next > 0 /\ ToSet(memories.items) \subseteq ToSet(sources)
        /\ memories.next + m - 1 <= Len(rest)
        /\ \A i \in 1..m : rest[memories.next + i - 1] = <<"memory", scope, memories.items[i]>>
        /\ EmptyListingsClose(rest, ConsumePages(rest, memories.next + m, "mental_models"))

DocumentsClose(rest, scope, sources, state, documents) ==
    LET n == Len(documents.items)
    IN  /\ documents.next > 0 /\ ToSet(documents.items) = ToSet(sources)
        /\ documents.next + n - 1 <= Len(rest)
        /\ \A i \in 1..n : rest[documents.next + i - 1] = <<"document", scope, documents.items[i]>>
        /\ MemoriesClose(rest, scope, sources, ConsumePages(rest, documents.next + n, "memories"))
        /\ state = <<"hindsight_state", scope, documents.items>>

HindsightProjectionCloses(s, scope, sources, refs) ==
    /\ Len(refs) >= 4 /\ refs[1] = refs[2] /\ ToSet(refs) \subseteq s.refs
    /\ LET rest == SubSeq(refs, 3, Len(refs))
       IN  DocumentsClose(rest, scope, sources, refs[1], ConsumePages(rest, 1, "documents"))

\* _hindsight_plan_closure
HindsightPlanCloses(s, p) ==
    /\ p.scope = Bank(p.id)
    /\ p.scopeRefs # << >> /\ ToSet(p.scopeRefs) \subseteq s.refs
    /\ p.scopeRefs[1] = <<"bank_profile", Bank(p.id), "created">>
    /\ \E i \in DOMAIN p.scopeRefs : i > 1 /\ p.scopeRefs[i] = <<"bank_config", Bank(p.id)>>
    /\ DispatchesClose(s, p)
    /\ \A d \in AcceptedDispatches(s, p) : d.attempt.response = <<"retain", Bank(p.id), Len(d.sources)>>
    /\ DispatchRefs(s, p, TRUE) \subseteq ToSet(p.readinessRefs) /\ ToSet(p.readinessRefs) \subseteq s.refs
    /\ HindsightProjectionCloses(s, p.scope, p.projected, p.projectionRefs)
    /\ p.protected = p.projectionRefs[1] /\ p.inventoryRef = p.protected

-----------------------------------------------------------------------------
(* Mem0: the history's run id is the scope; captures are numbered.         *)

Mem0State(scope, sources) == <<"mem0_state", scope, sources>>

Mem0Pages(scope, sources) ==
    [i \in 1..((Len(sources) - 1) \div PageLimit + 1) |->
        <<"mem0_page", scope, i, SubSeq(sources, (i - 1) * PageLimit + 1,
                                        IF i * PageLimit < Len(sources) THEN i * PageLimit ELSE Len(sources))>>]

Mem0Summary(scope, seq, sources) ==
    <<"mem0_summary", scope, seq, sources, Mem0State(scope, sources),
      IF sources = << >> THEN << <<"mem0_page", scope, 1, << >> >> >> ELSE Mem0Pages(scope, sources)>>

\* One capture: the receipt that sums it up, and its pages.
Mem0Capture(scope, seq, sources) == <<Mem0Summary(scope, seq, sources)>> \o Mem0Summary(scope, seq, sources)[6]

\* A source of several message pairs is one receipt over a response each.
Mem0AddResponses(source) == << <<"mem0_added", source, 1>>, <<"mem0_added", source, 2>> >>
Mem0IngestRef(source) == <<"mem0_pair_add", source, Mem0AddResponses(source)>>

\* reconstruct_mem0_projection: the one summary among the references, if it
\* names the pages that are there and says what they hold.
Mem0Projection(s, scope, refs) ==
    LET summaries == Of("mem0_summary", WithoutRepeats(refs))
        pages == Of("mem0_page", WithoutRepeats(refs))
        sources == FlattenSeq([i \in DOMAIN pages |-> pages[i][4]])
        summary == summaries[1]
    IN  IF /\ ToSet(refs) \subseteq s.refs
           /\ Len(summaries) = 1 /\ pages # << >>
           /\ \A i \in DOMAIN pages : pages[i][2] = scope /\ pages[i][3] = i
           /\ summary[2] = scope /\ summary[3] >= 1 /\ summary[4] = sources
           /\ summary[5] = <<"mem0_state", scope, sources>> /\ summary[6] = pages
        THEN [ok |-> TRUE, seq |-> summary[3], sources |-> sources, state |-> summary[5], summary |-> summary]
        ELSE [ok |-> FALSE, seq |-> 0, sources |-> << >>, state |-> NoRef, summary |-> NoRef]

\* reconstruct_mem0_projection_snapshots: the last two captures of readiness
\* follow one another and hold the same.
Mem0Readiness(s, scope, refs) ==
    LET summaries == Of("mem0_summary", WithoutRepeats(refs))
        Capture(i) == Mem0Projection(s, scope, <<summaries[i]>> \o summaries[i][6])
        n == Len(summaries)
    IN  IF /\ ToSet(refs) \subseteq s.refs /\ n >= 2
           /\ \A i \in DOMAIN summaries : ToSet(summaries[i][6]) \subseteq ToSet(refs) /\ Capture(i).ok
           /\ Capture(n).seq = Capture(n - 1).seq + 1 /\ Capture(n).state = Capture(n - 1).state
        THEN [ok |-> TRUE, last |-> Capture(n)]
        ELSE [ok |-> FALSE, last |-> Mem0Projection(s, scope, << >>)]

\* The three captures of a plan: empty, twice the same, and once again.
Mem0CapturesClose(p, absence, ready, projection) ==
    /\ absence.ok /\ absence.sources = << >>
    /\ ready.ok /\ projection.ok
    /\ projection.sources = p.projected /\ projection.state = p.protected
    /\ projection.seq = ready.last.seq + 1 /\ projection.state = ready.last.state
    /\ p.inventoryRef = projection.summary

\* reconstruct_mem0_plan
Mem0PlanCloses(s, p) ==
    /\ p.system = "mem0" /\ p.scope = p.id
    /\ Mem0CapturesClose(p, Mem0Projection(s, p.id, p.scopeRefs), Mem0Readiness(s, p.id, p.readinessRefs),
                         Mem0Projection(s, p.id, p.projectionRefs))
    /\ \A i \in DOMAIN p.dispatchSources : Len(p.dispatchSources[i]) = 1
    /\ DispatchesClose(s, p)
    /\ \A d \in AcceptedDispatches(s, p) :
          LET response == d.attempt.response
          IN  /\ response[1] = "mem0_pair_add" /\ response[2] = d.sources[1]
              /\ Len(response[3]) >= 2 /\ ToSet(response[3]) \subseteq s.raws
    /\ DispatchRefs(s, p, FALSE) \subseteq ToSet(p.readinessRefs)

-----------------------------------------------------------------------------
(* OpenViking resources: one batch of chunks under the root of a plan.     *)

OpenVikingRoot(occurrence) == <<"root", occurrence, ThePlan>>
OpenVikingPeer(occurrence) == <<"peer", occurrence>>
Health(role) == <<"health", "account", "admin", role>>

\* reconstruct_openviking_runtime_identity: one admin health payload.
RuntimeIdentityCloses(s) == Cardinality({r \in s.refs : r[1] = "health" /\ r[4] = "admin"}) = 1

OpenVikingScopeRefs(occurrence) ==
    << <<"mkdir", OpenVikingRoot(occurrence)>>, <<"not_found", OpenVikingPeer(occurrence)>>,
       <<"not_found", OpenVikingRoot(occurrence)>> >>

OpenVikingIngestRef(root, sources) == <<"batch", root, sources>>

Uris(sources) == <<"root", ".abstract.md", ".overview.md">> \o sources

OpenVikingInventory(root, sources) == <<"ov_inventory", root, ToSet(Tail(Uris(sources)))>>
OpenVikingDigest(root, sources) == <<"ov_digest", root, Uris(sources)>>
OpenVikingEntries(root, sources) ==
    [i \in DOMAIN Uris(sources) |->
        <<Uris(sources)[i], <<"attrs", root, Uris(sources)[i]>>,
          IF i = 1 THEN NoRef ELSE <<"content", root, Uris(sources)[i]>> >>]
OpenVikingState(root, sources) ==
    <<"ov_state", root, OpenVikingInventory(root, sources), OpenVikingDigest(root, sources), OpenVikingEntries(root, sources)>>

EntryRefs(entries) ==
    [i \in DOMAIN entries |-> entries[i][2]] \o [i \in DOMAIN Tail(entries) |-> Tail(entries)[i][3]]

\* _capture_projection: listing, state, then the attributes and the contents.
OpenVikingProjectionRefs(root, sources) ==
    <<OpenVikingInventory(root, sources), OpenVikingState(root, sources)>> \o EntryRefs(OpenVikingEntries(root, sources))

\* reconstruct_openviking_projection
OpenVikingProjectionCloses(s, root, sources, refs) ==
    /\ Len(refs) >= 2 /\ ToSet(refs) \subseteq s.refs
    /\ refs[1][1] = "ov_inventory" /\ refs[1][3] = ToSet(Tail(Uris(sources)))
    /\ refs[2][1] = "ov_state" /\ refs[2][2] = root /\ refs[2][3] = refs[1]
    /\ LET entries == refs[2][5]
       IN  /\ [i \in DOMAIN entries |-> entries[i][1]] = Uris(sources)
           /\ \A i \in DOMAIN entries :
                 /\ entries[i][2] = <<"attrs", root, entries[i][1]>>
                 /\ IF i = 1 THEN entries[i][3] = NoRef ELSE entries[i][3] = <<"content", root, entries[i][1]>>
           /\ SubSeq(refs, 3, Len(refs)) = EntryRefs(entries)
           /\ refs[2][4] = <<"ov_digest", root, [i \in DOMAIN entries |-> entries[i][1]]>>

\* reconstruct_openviking_plan and reconstruct_openviking_scope
OpenVikingPlanCloses(s, p) ==
    LET root == OpenVikingRoot(p.id)
    IN  /\ RuntimeIdentityCloses(s)
        /\ p.scope = root /\ ToSet(p.scopeRefs) \subseteq s.refs
        /\ p.scopeRefs = << <<"mkdir", root>>, <<"not_found", OpenVikingPeer(p.id)>>, <<"not_found", root>> >>
        /\ p.dispatchSources = <<p.sources>>
        /\ DispatchesClose(s, p)
        /\ \A d \in AcceptedDispatches(s, p) : d.attempt.response = <<"batch", root, d.sources>>
        /\ OpenVikingProjectionCloses(s, root, p.sources, p.projectionRefs)
        /\ p.inventoryRef = p.projectionRefs[1] /\ p.protected = p.projectionRefs[2][4]
        /\ p.readinessRefs = <<The(DispatchRefs(s, p, TRUE)), p.inventoryRef, p.projectionRefs[2]>>

-----------------------------------------------------------------------------
(* OpenViking sessions: a user for a history and a session for each try of *)
(* a source, whose commit is a task that ends with an archive.             *)

MemoryRoot(occurrence) == <<"memories", occurrence>>
QuestionUser == "question_user"
SessionOf(occurrence, source, batchAttempt) == <<"session", occurrence, source, batchAttempt>>
Tree(scope, uris) == <<"tree", scope, uris>>

SessionScopeRefs(scope) ==
    <<Tree(scope, << >>), <<"user_list", << >> >>, <<"registered", "account", QuestionUser>>,
      <<"health", "account", QuestionUser, "user">> >>

\* What one session leaves, in the order of its requests.
SessionEvidence(scope, session, before) ==
    << <<"session_absent", session>>, <<"session_created", session>>, <<"messages_request", session>>,
       <<"messages_response", session>>, <<"commit_accepted", session>>, <<"task_completed", session>>,
       <<"archive", "archive_001", session[3]>>, Tree(scope, Append(before, session[3])) >>

SessionState(occurrence, projected, uris) == <<"session_state", occurrence, projected, uris>>

\* _validate_question_user_scope
SessionScopeCloses(s, p) ==
    LET refs == p.scopeRefs
        health == IF refs[2][2] = << >> THEN refs[4] ELSE refs[3]
    IN  /\ ToSet(refs) \subseteq s.refs /\ Len(refs) \in {3, 4}
        /\ refs[1] = Tree(p.scope, << >>)
        /\ IF refs[2][2] = << >> THEN Len(refs) = 4 /\ refs[3] = <<"registered", "account", QuestionUser>>
           ELSE Len(refs) = 3 /\ refs[2][2] = <<QuestionUser>>
        /\ health = <<"health", "account", QuestionUser, "user">>

\* _session_terminal_evidence: an archive does not name its session; it is the
\* one of the task that completed last.
SessionTerminals(refs) ==
    FoldLeft(LAMBDA t, r :
                CASE r[1] = "session_created"  -> [t EXCEPT !.created = @ \cup {r[2]}]
                  [] r[1] = "commit_accepted"  -> [t EXCEPT !.committed = @ \cup {r[2]}]
                  [] r[1] = "task_completed"   -> [t EXCEPT !.completed = @ \cup {r[2]}, !.pending = {r[2]}]
                  [] r[1] = "archive"          -> [t EXCEPT !.archived = @ \cup t.pending, !.pending = {}]
                  [] r[1] = "messages_request" -> [t EXCEPT !.messaged = @ \cup {r[2]}]
                  [] OTHER -> t,
             [created |-> {}, committed |-> {}, completed |-> {}, archived |-> {}, messaged |-> {}, pending |-> {}], refs)

\* _batch_attempt_ordinal: which try of its source an attempt was.
BatchAttempt(s, a) ==
    LET Before(b) == {c \in s.attempts : c.id = b.retryOf}
    IN  IF Before(a) = {} THEN 1 ELSE IF Before(The(Before(a))) = {} THEN 2 ELSE 3

\* reconstruct_openviking_session_plan
OpenVikingSessionPlanCloses(s, p) ==
    LET Attempt_(i) == The({a \in s.attempts : a.id = p.dispatches[i]})
        sessions == {SessionOf(p.id, p.sources[i], BatchAttempt(s, Attempt_(i))) :
                        i \in {j \in DOMAIN p.sources : p.sources[j] \in ToSet(p.accepted)}}
        t == SessionTerminals(p.readinessRefs)
    IN  /\ RuntimeIdentityCloses(s)
        /\ p.scope = MemoryRoot(p.id) /\ SessionScopeCloses(s, p)
        /\ Len(p.dispatches) = Len(p.sources)
        /\ DispatchesClose(s, p)
        /\ DispatchRefs(s, p, TRUE) \subseteq ToSet(p.readinessRefs)
        /\ ToSet(p.readinessRefs) \subseteq s.refs
        /\ \A evidence \in {t.created, t.committed, t.completed, t.archived} : sessions \subseteq evidence
        /\ t.messaged = sessions
        /\ p.projectionRefs # << >> /\ ToSet(p.projectionRefs) \subseteq s.refs
        /\ p.projectionRefs[1][1] = "tree" /\ p.projectionRefs[1][2] = p.scope
        /\ p.inventoryRef \in ToSet(p.projectionRefs)
        /\ p.protected = <<"session_state", p.id, p.projected, p.projectionRefs[1][3]>>

-----------------------------------------------------------------------------
(* The scripted system of the fixtures, which names everything it says.    *)

ScriptedScope(occurrence) == <<"scope", occurrence>>
ScriptedScopeRefs(occurrence, scope) == << <<"allocate_scope", occurrence, ThePlan, scope>> >>
ScriptedIngestRef(attempt, occurrence, scope, sources) == <<"ingest", attempt, occurrence, scope, sources>>
ScriptedState(scope, sources) == <<"state", scope, sources>>
ScriptedProjectionRefs(occurrence, scope, sources) ==
    << <<"inventory", occurrence, scope, sources>>, <<"state_digest", occurrence, scope, ScriptedState(scope, sources)>> >>

\* The generic part of _plan_closure_rule.
ScriptedPlanCloses(s, p) ==
    /\ p.scopeRefs # << >> /\ p.scopeRefs[1] = <<"allocate_scope", p.id, p.plan, p.scope>>
    /\ DispatchesClose(s, p)
    /\ \A d \in AcceptedDispatches(s, p) :
          d.attempt.response = <<"ingest", d.attempt.id, p.id, p.scope, d.sources>>
    /\ <<"wait_ready", p.id, p.scope>> \in ToSet(p.readinessRefs)
    /\ p.inventoryRef = <<"inventory", p.id, p.scope, p.projected>>
    /\ <<"state_digest", p.id, p.scope, p.protected>> \in ToSet(p.projectionRefs)
    /\ {p.scopeRefs[1], p.inventoryRef, <<"state_digest", p.id, p.scope, p.protected>>,
        <<"wait_ready", p.id, p.scope>>} \subseteq s.refs

-----------------------------------------------------------------------------
(* What a question retrieved.  A candidate is <<native id, source>>.       *)

NoSource == "none"
CONSTANT TopK     \* candidate limit of a Hindsight case

RetrievalRequest(sys, scope) == <<"request", SystemOf(sys), scope, "generation_free">>

RetrievalResponse(sys, occurrence, scope, hits) ==
    CASE sys = "hindsight"        -> <<"recall", scope, hits>>
      [] sys = "mem0"             -> <<"search", scope, hits>>
      [] sys = "openviking_batch" -> <<"find", scope, hits>>
      [] sys = "openviking"       -> <<"memory_find", scope, hits>>
      [] OTHER -> <<"retrieve", CaseOccurrenceId(occurrence, TheCase), scope, hits,
                    << <<"retrieve_support", CaseOccurrenceId(occurrence, TheCase), hits>> >> >>

RetrievalSupport(sys, occurrence, scope, hits) ==
    CASE sys = "hindsight" ->
            << <<"candidate_limit", TopK, RetrievalRequest(sys, scope), RetrievalResponse(sys, occurrence, scope, hits)>> >>
      [] sys = "mem0" -> << >>
      [] sys = "openviking_batch" -> [i \in DOMAIN hits |-> <<"content", scope, hits[i]>>]
      [] sys = "openviking" -> FlattenSeq([i \in DOMAIN hits |-> << <<"read_request", hits[i]>>, <<"read_response", hits[i]>> >>])
      [] OTHER -> << <<"retrieve_support", CaseOccurrenceId(occurrence, TheCase), hits>> >>

\* What the adapter hands to the question.
Retrieved(sys, hits) ==
    LET n == IF sys = "hindsight" /\ TopK < Len(hits) THEN TopK ELSE Len(hits)
    IN  [i \in 1..n |-> <<hits[i], IF sys = "openviking" THEN NoSource ELSE hits[i]>>]

NoCandidates == << <<"invalid">> >>

\* normalize_recall, cut at the limit that a receipt of this very request and
\* response states (reconstruct_hindsight_candidate_limit).
HindsightCandidates(s, p, c) ==
    LET hits == c.retrieval[3]
        limits == c.supporting
        all == [i \in DOMAIN hits |-> <<hits[i], hits[i]>>]
    IN  IF /\ ToSet(hits) \subseteq ToSet(p.projected)
           /\ limits # << >> => /\ Len(limits) = 1 /\ ToSet(limits) \subseteq s.refs
                                /\ limits[1][1] = "candidate_limit"
                                /\ limits[1][3] = c.request /\ limits[1][4] = c.retrieval
        THEN IF limits = << >> \/ limits[1][2] >= Len(all) THEN all ELSE SubSeq(all, 1, limits[1][2])
        ELSE NoCandidates

\* reconstruct_mem0_candidates: every item is a point of the sealed projection.
Mem0Candidates(s, p, c) ==
    LET hits == c.retrieval[3]
    IN  IF c.retrieval[2] = p.id /\ ToSet(hits) \subseteq ToSet(p.projected) /\ c.supporting = << >>
        THEN [i \in DOMAIN hits |-> <<hits[i], hits[i]>>] ELSE NoCandidates

\* reconstruct_openviking_candidates: each hit was read, and holds what the
\* protected projection holds.
OpenVikingCandidates(s, p, c) ==
    LET hits == c.retrieval[3]
    IN  IF /\ Len(c.supporting) = Len(hits) /\ ToSet(c.supporting) \subseteq s.refs
           /\ \A i \in DOMAIN hits : c.supporting[i] = <<"content", p.scope, hits[i]>>
        THEN [i \in DOMAIN hits |-> <<hits[i], hits[i]>>] ELSE NoCandidates

\* reconstruct_openviking_session_candidates
OpenVikingSessionCandidates(s, p, c) ==
    LET hits == c.retrieval[3]
    IN  IF /\ c.request \in s.refs /\ c.request[3] = p.scope
           /\ Len(c.supporting) = 2 * Len(hits) /\ ToSet(c.supporting) \subseteq s.refs
           /\ \A i \in DOMAIN hits : /\ c.supporting[2 * i - 1] = <<"read_request", hits[i]>>
                                     /\ c.supporting[2 * i][1] = "read_response"
        THEN [i \in DOMAIN hits |-> <<hits[i], NoSource>>] ELSE NoCandidates

ScriptedCandidates(s, p, c) ==
    LET hits == c.retrieval[4]
    IN  IF c.retrieval[2] = c.id /\ c.retrieval[3] = p.scope /\ c.retrieval[5] = c.supporting
           /\ ToSet(c.supporting) \subseteq s.refs
           /\ \A i \in DOMAIN c.supporting : c.supporting[i] = <<"retrieve_support", c.id, c.candidates>>
        THEN [i \in DOMAIN hits |-> <<hits[i], hits[i]>>] ELSE NoCandidates

\* retrieval_request_proves_generation_free
RequestCloses(s, c) ==
    IF c.adapter \in {AdapterProfile("hindsight"), AdapterProfile("mem0"), AdapterProfile("openviking")}
    THEN c.request \in s.refs /\ c.request[1] = "request" /\ <<"profile", c.request[2]>> = c.adapter
         /\ c.request[4] = "generation_free"
    ELSE c.request = NoRef

-----------------------------------------------------------------------------
(* The state before and after a question.                                  *)

\* The state that a case's references prove, and its capture number (mem0).
ProvenState(s, p, refs) ==
    CASE p.adapter = AdapterProfile("hindsight") ->
            IF HindsightProjectionCloses(s, p.scope, p.projected, refs) THEN <<refs[1], 0>> ELSE <<NoRef, 0>>
      [] p.adapter = AdapterProfile("mem0") ->
            <<Mem0Projection(s, p.id, refs).state, Mem0Projection(s, p.id, refs).seq>>
      [] p.adapter = AdapterProfile("openviking_batch") ->
            IF OpenVikingProjectionCloses(s, p.scope, p.sources, refs) THEN <<refs[2][4], 0>> ELSE <<NoRef, 0>>
      [] p.adapter = AdapterProfile("openviking") ->
            IF refs # << >> /\ ToSet(refs) \subseteq s.refs /\ refs[1][1] = "tree" /\ refs[1][2] = p.scope
            THEN <<SessionState(p.id, p.projected, refs[1][3]), 0>> ELSE <<NoRef, 0>>
      [] OTHER ->
            LET digests == Of("state_digest", refs)
            IN  IF Len(digests) = 1 /\ digests[1] \in s.refs THEN <<digests[1][4], 0>> ELSE <<NoRef, 0>>
=============================================================================
