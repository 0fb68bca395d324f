------------------------------ MODULE MCStudy ------------------------------
(***************************************************************************)
(* Four kinds of initial state: a study run in one piece, with any table  *)
(* of right and wrong answers (questions in any order are one table) and   *)
(* one case of another kind; one with room for two commands that report on *)
(* it at once; a study that lacks two results; and a fresh run that is     *)
(* nearly done.                                                            *)
(***************************************************************************)
EXTENDS Study

CONSTANTS h, m, o, q1, q2, q3, q4, d1, d2, s1, s2

MCProviderSeq == <<h, m, o>>
MCQuestionSeq == <<q1, q2, q3, q4>>
MCHalf == [num |-> 1, den |-> 2]
MCSymmetry == Permutations(Drivers)

Measured(n) == [model |-> <<[proof |-> "measured_complete", total |-> n]>>, operation |-> <<>>]
Unproven == [model |-> <<>>, operation |-> <<[proof |-> "unavailable", total |-> Unavailable]>>]
Partly(n) == [model |-> <<[proof |-> "measured_partial", total |-> n]>>, operation |-> <<>>]

From(a, b) == [start |-> a, end |-> b, ok |-> TRUE]

Yes == [state |-> "completed", stage |-> "none", judged |-> TRUE, num |-> 1,
        outer |-> [answer |-> 1, judge |-> 1], calls |-> 2, last |-> "none",
        usage |-> <<Measured(5)>>, session |-> FALSE, snapshots |-> <<>>,
        ingestions |-> <<From(0, 4)>>, readiness |-> <<From(4, 6)>>, queries |-> <<From(6, 7)>>,
        intended |-> 2, skipped |-> 0, proof |-> "runtime_verified", context |-> 7, candidates |-> 3]

No == [Yes EXCEPT !.num = 0, !.readiness = <<From(4, 5)>>]

Error(stage, answers, judges) ==
    [Yes EXCEPT !.state = "error", !.stage = stage, !.judged = FALSE, !.num = Unavailable,
                !.outer = [answer |-> answers, judge |-> judges],
                !.last = "output_contract_error"]

Unjudged == Error("judge", 1, 6)
AnswerFailed == Error("answer", 6, 0)
Retried == [Yes EXCEPT !.usage = <<Unproven, Measured(3)>>,
                       !.ingestions = <<From(0, 2), From(2, 9)>>,
                       !.readiness = <<[From(4, 9) EXCEPT !.ok = FALSE], From(9, 12)>>,
                       !.queries = <<[From(12, 13) EXCEPT !.ok = FALSE], From(13, 15)>>]
Blind == [No EXCEPT !.usage = <<Unproven>>, !.candidates = 9]
Skipping == [Yes EXCEPT !.usage = <<Partly(2)>>, !.skipped = 1]
Session == [Yes EXCEPT !.usage = <<Unproven>>, !.session = TRUE, !.snapshots = <<8>>,
                       !.proof = "unavailable"]
Exhausted == Error("judge", 1, 2)

OtherKinds == {Unjudged, AnswerFailed, Retried, Blind, Skipping, Session}

MCEvidences == {Yes, No, Exhausted}

-----------------------------------------------------------------------------
Bit(n, i) == (n \div 2^(i - 1)) % 2 = 1

Column(q) == CHOOSE i \in DOMAIN QuestionSeq : QuestionSeq[i] = q
Row(p) == CHOOSE i \in DOMAIN ProviderSeq : ProviderSeq[i] = p

Rising == {c \in [1..4 -> 0..7] : c[1] <= c[2] /\ c[2] <= c[3] /\ c[3] <= c[4]}

AnswersOf(c) == [p \in Providers |-> [q \in Questions |-> IF Bit(c[Column(q)], Row(p)) THEN Yes ELSE No]]

Tables ==
    {AnswersOf(c) : c \in Rising}
      \cup {[AnswersOf(c) EXCEPT ![h][q1] = e] : c \in {c \in Rising : c[2] = c[4]}, e \in OtherKinds}
      \cup {[AnswersOf([i \in 1..4 |-> i]) EXCEPT ![o] = [q \in Questions |-> Session]]}

ResultOf(e) == CHOOSE r \in ProjectNativeQuestionResult(e) : TRUE

SavedOf(t) == [p \in Providers |-> File([q \in DOMAIN t[p] |-> ResultOf(t[p][q])])]

Snapshot(p, n, readable, topK, control, policy) ==
    [holds |-> {p}, whole |-> TRUE, plan |-> n, readable |-> readable, topK |-> topK,
     control |-> control, policy |-> policy]

SnapshotSets ==
    {{Snapshot(h, 1, TRUE, 5, 0, 1), Snapshot(m, 2, TRUE, k, c, 1), Snapshot(o, 2, r, 5, 5, v)}
       : k \in {0, 5, 6}, c \in {0, 5}, r \in BOOLEAN, v \in {1, 2}}
      \cup {{Snapshot(h, 1, TRUE, 5, 0, 1), Snapshot(m, 1, TRUE, 5, 0, 1)}}

MCSnapshots == {Snapshot(h, 1, TRUE, 5, 0, 1), Snapshot(m, 1, TRUE, 5, 0, 1), Snapshot(o, 1, TRUE, 5, 0, 1)}

MCPreserved == {{}} \cup SnapshotSets

AllRight == AnswersOf([i \in 1..4 |-> 1])

Common ==
    /\ owner = [p \in Providers |-> NoOwner]
    /\ report = [s \in Studies |-> [n \in Directories |-> <<>>]]
    /\ cache = [s \in Studies |-> {}]
    /\ driver = [d \in Drivers |-> Idle]

Empty == [p \in Providers |-> <<>>]

Whole(t, left) ==
    /\ plan = {s1} /\ selector = s1
    /\ results = [s \in Studies |-> IF s = s1 THEN SavedOf(t) ELSE [p \in Providers |-> NoFile]]
    /\ capsule = [s \in Studies |-> IF s = s1 THEN t ELSE Empty]
    /\ used = [starts |-> MaxStarts - left, kills |-> MaxKills, seals |-> MaxSeals]
    /\ Common

(* Two results of one provider are missing, or one of each of two. *)
Without(p, Q) == [AllRight EXCEPT ![p] = [q \in Questions \ Q |-> @[q]]]
LackingOne == Without(h, {q1, q2})
LackingTwo == [Without(h, {q1}) EXCEPT ![m] = [q \in Questions \ {q1} |-> @[q]]]

(* With room for a fresh start, which seals nothing more; or s2 is what a  *)
(* fresh start that was killed left behind.                                *)
Interrupted(plans, sealed) ==
    /\ plan = plans /\ selector = s1 /\ snapshots = {}
    /\ results = [s \in Studies |-> IF s = s1 THEN SavedOf(LackingOne) ELSE [p \in Providers |-> NoFile]]
    /\ capsule = [s \in Studies |-> Empty]
    /\ used = [starts |-> 1, kills |-> 0, seals |-> sealed]
    /\ Common

(* A fresh run of s1 with the cells of h and m still open. *)
NearlyDone(x) ==
    /\ plan = {s1, s2} /\ selector = s1 /\ snapshots = {}
    /\ results = [s \in Studies |-> IF s = s1 THEN SavedOf(LackingTwo) ELSE [p \in Providers |-> NoFile]]
    /\ capsule = [s \in Studies |-> IF s = s1 THEN [Empty EXCEPT ![o] = LackingTwo[o]] ELSE Empty]
    /\ used = [starts |-> 2, kills |-> 0, seals |-> 0]
    /\ owner = [p \in Providers |-> IF p = o THEN NoOwner ELSE x]
    /\ report = [s \in Studies |-> [n \in Directories |-> <<>>]]
    /\ cache = [s \in Studies |-> {}]
    /\ driver = [d \in Drivers |->
          IF d # x THEN Idle
          ELSE [Idle EXCEPT !.at = "run", !.pid = 2, !.study = s1, !.fresh = TRUE,
                  !.cells = [p \in Providers |->
                      [NoCell EXCEPT !.at = IF p = o THEN "done" ELSE "open",
                                     !.todo = Questions \ DOMAIN LackingTwo[p],
                                     !.sealed = LackingTwo[p]]]]]

MCInit ==
    \/ \E t \in Tables : Whole(t, 1) /\ snapshots = {}
    \/ \E t \in {AllRight, [AllRight EXCEPT ![m][q1] = Blind]} : Whole(t, 1) /\ snapshots \in SnapshotSets
    \/ Whole(AllRight, 2) /\ snapshots = MCSnapshots
    \/ Interrupted({s1}, MaxSeals)
    \/ Interrupted({s1, s2}, 0)
    \/ \E x \in Drivers : NearlyDone(x)
=============================================================================
