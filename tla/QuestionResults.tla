-------------------------- MODULE QuestionResults --------------------------
(***************************************************************************)
(* Ordinary question results: what a sealed case's evidence becomes in a   *)
(* provider's result file (oamb/runtime/native_results.py), and the        *)
(* operations of that file (oamb/runtime/question_results.py).             *)
(*                                                                         *)
(* An operation that raises gives the empty set, one that returns x gives  *)
(* {x}.  A result file is a function from the questions it holds; a file   *)
(* that does not exist is [exists |-> FALSE].                              *)
(***************************************************************************)
EXTENDS Integers, FiniteSets, SequencesExt

CONSTANTS
    QuestionSeq,        \* the frozen manifest's questions, in its order
    ModelMaxAttempts    \* the plan's outer attempts of a model call

ASSUME QuestionAssumption ==
    /\ IsInjective(QuestionSeq) /\ Len(QuestionSeq) > 0
    /\ ModelMaxAttempts \in Nat \ {0}

Questions == ToSet(QuestionSeq)

Unavailable == -1       \* a measurement that is "unavailable"

Total(s) == FoldLeft(LAMBDA a, b : a + b, 0, s)

Latest(is) == CHOOSE m \in DOMAIN is :
                 /\ \A n \in DOMAIN is : is[n].end <= is[m].end
                 /\ \A n \in 1..(m - 1) : is[n].end < is[m].end

-----------------------------------------------------------------------------
(* Evidence of a sealed case.  usage has one entry for every physical      *)
(* ingestion attempt: the producer's records of it and the operation's.    *)
(* outer counts are those ModelCompletion recovers from the attempts.      *)

OneRecord(u) ==
    IF Len(u.model) = 1 THEN u.model
    ELSE IF u.model = <<>> /\ Len(u.operation) = 1 THEN u.operation
    ELSE <<>>

UsageCloses(es) == \A i \in DOMAIN es : \A j \in DOMAIN es[i].usage : OneRecord(es[i].usage[j]) # <<>>

Selected(es) ==
    FlattenSeq([i \in DOMAIN es |->
        FlattenSeq([j \in DOMAIN es[i].usage |-> OneRecord(es[i].usage[j])])])

(* The session adapter's own counters stand in when no usage was proven    *)
(* and every plan of the cell has them.                                    *)
Recovered(es) ==
    LET chosen == Selected(es) IN
    IF /\ \E i \in DOMAIN es : es[i].session
       /\ chosen # <<>>
       /\ \A i \in DOMAIN chosen : chosen[i].proof = "unavailable"
       /\ \A i \in DOMAIN es : es[i].snapshots # <<>>
    THEN FlattenSeq([i \in DOMAIN es |->
            [j \in DOMAIN es[i].snapshots |->
                [proof |-> "measured_complete", total |-> es[i].snapshots[j]]]])
    ELSE chosen

Coverage(measured, unavailable, partial) ==
    CASE ~measured -> "unavailable"
      [] measured /\ (unavailable \/ partial) -> "measured_partial"
      [] OTHER -> "measured_complete"

Proofs(records) == {records[i].proof : i \in DOMAIN records}

(* As a bug would have it: a record without usage is passed over. *)
TokenStageDocumentSilent(records) ==
    LET totals == SelectSeq(records, LAMBDA r : r.total # Unavailable) IN
    [status |-> Coverage(totals # <<>>, FALSE, "measured_partial" \in Proofs(records)),
     value |-> IF totals = <<>> THEN Unavailable
               ELSE Total([i \in DOMAIN totals |-> totals[i].total])]

TokenStageDocument(records) ==
    LET totals == SelectSeq(records, LAMBDA r : r.total # Unavailable) IN
    [status |-> Coverage(Proofs(records) \cap {"measured_complete", "measured_partial"} # {},
                         "unavailable" \in Proofs(records), "measured_partial" \in Proofs(records)),
     value |-> IF totals = <<>> THEN Unavailable
               ELSE Total([i \in DOMAIN totals |-> totals[i].total])]

(* Indexing ready: from the first ingestion's start to the end of the last *)
(* readiness check, which must have succeeded after every ingestion.       *)
ReadyMeasured(e) ==
    e.ingestions # <<>> /\ e.readiness # <<>> /\ e.readiness[Latest(e.readiness)].ok

ReadySettled(e) ==
    \A i \in DOMAIN e.ingestions : e.ingestions[i].end <= e.readiness[Latest(e.readiness)].end

ReadyDuration(e) ==
    e.readiness[Latest(e.readiness)].end
      - e.ingestions[CHOOSE i \in DOMAIN e.ingestions :
                        \A j \in DOMAIN e.ingestions :
                           e.ingestions[i].start <= e.ingestions[j].start].start

Answered(e) == SelectSeq(e.queries, LAMBDA x : x.ok)

RetrievalDuration(e) == Answered(e)[1].end - Answered(e)[1].start

-----------------------------------------------------------------------------
(* The projection of one sealed case.                                      *)

EvidenceSuffices(e) ==
    /\ UsageCloses(<<e>>)
    /\ LET t == TokenStageDocument(Recovered(<<e>>)) IN
          t.value = Unavailable => t.status = "unavailable"
    /\ e.ingestions # <<>> /\ e.queries # <<>> /\ e.outer.answer > 0
    /\ Len(Answered(e)) = 1
    /\ ReadyMeasured(e) /\ ReadySettled(e)
    /\ e.proof # "invalid"

(* What the projection calls the case: a judged one, a model stage that    *)
(* used up its attempts on malformed output, or nothing reportable.        *)
Terminal(e) ==
    CASE e.state = "completed" -> IF e.judged THEN {"judged"} ELSE {}
      [] /\ e.state = "error" /\ e.stage = "answer" /\ e.outer.answer = ModelMaxAttempts
         /\ e.last = "output_contract_error" -> {"answer_failed"}
      [] /\ e.state = "error" /\ e.stage = "judge" /\ e.outer.judge = ModelMaxAttempts
         /\ e.last = "output_contract_error" -> {"unjudged"}
      [] OTHER -> {}

(* The result models insist on six attempts, whatever the plan allows.     *)
AttemptsClose(terminal, outer) ==
    CASE terminal = "judged" -> outer.judge > 0
      [] terminal = "unjudged" -> outer.judge = 6
      [] terminal = "answer_failed" -> outer.answer = 6 /\ outer.judge = 0

ProjectNativeQuestionResult(e) ==
    IF ~EvidenceSuffices(e) THEN {}
    ELSE {[terminal |-> t,
           num |-> IF t = "judged" THEN e.num ELSE Unavailable,
           intended |-> e.intended, skipped |-> e.skipped,
           tokens |-> TokenStageDocument(Recovered(<<e>>)),
           ready |-> ReadyDuration(e),
           request |-> RetrievalDuration(e),
           context |-> e.context, candidates |-> e.candidates,
           proof |-> IF e.proof = "unavailable" THEN "unattested" ELSE e.proof,
           attempts |-> [ingestion |-> Len(e.ingestions), retrieval |-> Len(e.queries),
                         answer |-> e.outer.answer, judge |-> e.outer.judge]]
          : t \in {t \in Terminal(e) : AttemptsClose(t, e.outer)}}

-----------------------------------------------------------------------------
(* A provider's result file.                                               *)

NoFile == [exists |-> FALSE, saved |-> <<>>]

File(saved) == [exists |-> TRUE, saved |-> saved]

LoadQuestionResults(file) ==
    IF file.exists /\ DOMAIN file.saved \subseteq Questions THEN {file.saved} ELSE {}

RemainingQuestionIds(saved) == Questions \ DOMAIN saved

InitializeQuestionResults(file) == IF file.exists THEN {} ELSE {File(<<>>)}

(* The content that will replace the file once the addition is accepted.   *)
AddQuestionResult(file, q, result) ==
    {[x \in DOMAIN saved \cup {q} |-> IF x = q THEN result ELSE saved[x]]
       : saved \in {s \in LoadQuestionResults(file) : q \notin DOMAIN s}}

RequireCompleteQuestionResults(saved) == DOMAIN saved = Questions
=============================================================================
