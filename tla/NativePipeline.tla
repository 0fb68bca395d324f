--------------------------- MODULE NativePipeline ---------------------------
(***************************************************************************)
(* The scheduler of one run (_execute_history_question_pipeline and the    *)
(* operations it runs, runtime/native_run.py).  Histories and questions    *)
(* are tasks of one event loop, each kind behind a semaphore of its own; a *)
(* question exists only once its history has a record and a scope.         *)
(*                                                                         *)
(* Tasks change hands only where they await: for a permit, in a provider   *)
(* call, or resting before a batch is sent again.  What runs between two   *)
(* awaits is one step.  A failure inside the run stops admission and lets  *)
(* the admitted operations come to their end; a stop from outside cancels  *)
(* them.  How one provider call is made is in NativeAttempt, how answer    *)
(* and judge calls are repeated in ModelCompletion.                        *)
(***************************************************************************)
EXTENDS Integers, FiniteSets

CONSTANTS
    Plans,           \* the ingestion plans, one history each
    Questions,       \* the cases
    PlanOf,          \* the plan a case belongs to
    HistoryLimit,    \* max_parallel_history_ingestions
    QuestionLimit,   \* max_parallel_questions
    Batches,         \* ingestion dispatches of a history
    MaxAttempts      \* max_retries_per_operation + 1

ASSUME PipelineAssumption ==
    /\ IsFiniteSet(Plans) /\ IsFiniteSet(Questions) /\ Plans \cap Questions = {}
    /\ PlanOf \in [Questions -> Plans]
    /\ HistoryLimit \in Nat \ {0} /\ QuestionLimit \in Nat \ {0}
    /\ Batches \in Nat /\ MaxAttempts \in Nat \ {0}

VARIABLES
    pc,              \* where each operation is
    at,              \* the provider call it is in, counted from 1
    attempts,        \* how often each batch of each history was sent
    skipped,         \* the batches given up, as <<plan, batch>>
    free,            \* permits of the two semaphores
    stop,            \* stop_event, or an owner that is gone
    admissionStopped,
    doomed,          \* tasks on which cancel() was called
    mode,            \* "open", "stopping" (cancel_when held), "cancelled" by the watch,
                     \* "expired" at the wall-clock limit, "lost" by the watch and then the limit
    outside,         \* someone outside asked the run to stop
    outcome          \* how the pipeline ended

vars == <<pc, at, attempts, skipped, free, stop, admissionStopped, doomed, mode, outside, outcome>>

Operations == Plans \cup Questions

Kind(o) == IF o \in Plans THEN "history" ELSE "question"
Limit == [history |-> HistoryLimit, question |-> QuestionLimit]

\* A history allocates its scope, sends its batches, waits for readiness and
\* projects.  A question projects, queries, projects, answers and is judged.
Calls(o) == IF o \in Plans THEN Batches + 3 ELSE 5

\* Whether the code looks for a stop before that call.
Checked(o, k) == o \in Plans \/ k > 3

IsBatch(o, k) == o \in Plans /\ k \in 2..(Batches + 1)

Holding == {"running", "resting"}
Over == {"recorded", "refused", "stopped", "cancelled", "failed"}

TypeOK ==
    /\ pc \in [Operations -> {"idle", "ready", "queued"} \cup Holding \cup Over]
    /\ at \in [Operations -> 0..(Batches + 5)]
    /\ attempts \in [Plans -> [1..Batches -> 0..MaxAttempts]]
    /\ skipped \subseteq Plans \X (1..Batches)
    /\ free \in [DOMAIN Limit -> Nat]
    /\ stop \in BOOLEAN /\ admissionStopped \in BOOLEAN /\ outside \in BOOLEAN
    /\ doomed \subseteq Operations
    /\ mode \in {"open", "stopping", "cancelled", "expired", "lost"}
    /\ outcome \in {"none", "returned", "interrupted", "cancelled", "failed", "gap"}

Init ==
    /\ pc = [o \in Operations |-> IF o \in Plans THEN "ready" ELSE "idle"]
    /\ at = [o \in Operations |-> 0]
    /\ attempts = [h \in Plans |-> [b \in 1..Batches |-> 0]]
    /\ skipped = {}
    /\ free = Limit
    /\ stop = FALSE /\ admissionStopped = FALSE /\ outside = FALSE
    /\ doomed = {}
    /\ mode = "open"
    /\ outcome = "none"

-----------------------------------------------------------------------------
(* One operation.                                                          *)

QuestionsOf(h) == {q \in Questions : PlanOf[q] = h}

Closed == admissionStopped \/ stop

\* admitted, up to the wait for a permit.
Enter(o) ==
    /\ pc[o] = "ready" /\ o \notin doomed
    /\ pc' = [pc EXCEPT ![o] = IF Closed THEN "refused" ELSE "queued"]
    /\ UNCHANGED <<at, attempts, skipped, free, stop, admissionStopped, doomed, mode, outside, outcome>>

\* As a bug would have it: the stop is not looked for again after the wait.
AdmitUnchecked(o) ==
    /\ pc[o] = "queued" /\ o \notin doomed /\ free[Kind(o)] > 0
    /\ pc' = [pc EXCEPT ![o] = "running"]
    /\ at' = [at EXCEPT ![o] = 1]
    /\ free' = [free EXCEPT ![Kind(o)] = @ - 1]
    /\ UNCHANGED <<attempts, skipped, stop, admissionStopped, doomed, mode, outside, outcome>>

\* The permit is there: with admission stopped meanwhile it is given back, else
\* the operation runs to its first call.
Admit(o) ==
    /\ pc[o] = "queued" /\ o \notin doomed /\ free[Kind(o)] > 0
    /\ \/ /\ Closed
          /\ pc' = [pc EXCEPT ![o] = "refused"]
          /\ UNCHANGED <<at, free>>
       \/ /\ ~Closed
          /\ pc' = [pc EXCEPT ![o] = "running"]
          /\ at' = [at EXCEPT ![o] = 1]
          /\ free' = [free EXCEPT ![Kind(o)] = @ - 1]
    /\ UNCHANGED <<attempts, skipped, stop, admissionStopped, doomed, mode, outside, outcome>>

\* As a bug would have it: a failure only sets the event.
SettleUnmarked(o, how) ==
    /\ pc' = [x \in Operations |->
                IF x = o THEN how
                ELSE IF how = "recorded" /\ o \in Plans /\ x \in QuestionsOf(o) THEN "ready"
                ELSE pc[x]]
    /\ free' = [free EXCEPT ![Kind(o)] = @ + 1]
    /\ stop' = (stop \/ how # "recorded")
    /\ UNCHANGED <<admissionStopped, doomed, mode, outside, outcome>>

\* admitted, from the end of the operation: an error but NativeRunInterrupted
\* stops admission, any error sets the event, the permit is given back, and a
\* recorded history creates its questions.
Settle(o, how) ==
    /\ pc' = [x \in Operations |->
                IF x = o THEN how
                ELSE IF how = "recorded" /\ o \in Plans /\ x \in QuestionsOf(o) THEN "ready"
                ELSE pc[x]]
    /\ free' = [free EXCEPT ![Kind(o)] = @ + 1]
    /\ admissionStopped' = (admissionStopped \/ how \in {"failed", "cancelled"})
    /\ stop' = (stop \/ how # "recorded")
    /\ UNCHANGED <<doomed, mode, outside, outcome>>

\* A batch is counted when it is sent.
Sends(o, k) ==
    attempts' = IF IsBatch(o, k) THEN [attempts EXCEPT ![o][k - 1] = @ + 1] ELSE attempts

\* What follows a call: the record, the next call, or the stop before it.
Proceed(o) ==
    LET k == at[o] + 1 IN
    \/ at[o] = Calls(o) /\ Settle(o, "recorded") /\ UNCHANGED <<at, attempts>>
    \/ at[o] < Calls(o) /\ Checked(o, k) /\ stop /\ Settle(o, "stopped") /\ UNCHANGED <<at, attempts>>
    \/ /\ at[o] < Calls(o) /\ ~(Checked(o, k) /\ stop)
       /\ at' = [at EXCEPT ![o] = k] /\ Sends(o, k)
       /\ UNCHANGED <<pc, free, stop, admissionStopped, doomed, mode, outside, outcome>>

Calling(o) == pc[o] = "running" /\ o \notin doomed

Return(o) == Calling(o) /\ Proceed(o) /\ UNCHANGED skipped

\* The case needs no judge, or its answer or judge stage ended in an error,
\* which is recorded with the case.
CaseEnds(q) ==
    /\ Calling(q) /\ q \in Questions /\ at[q] > 3
    /\ Settle(q, "recorded")
    /\ UNCHANGED <<at, attempts, skipped>>

\* The answer or judge stage would send its request once more, and stops.
StageStops(q) ==
    /\ Calling(q) /\ q \in Questions /\ at[q] > 3 /\ stop
    /\ Settle(q, "stopped")
    /\ UNCHANGED <<at, attempts, skipped>>

Fail(o) ==
    /\ Calling(o)
    /\ Settle(o, "failed")
    /\ UNCHANGED <<at, attempts, skipped>>

Rest(h) ==
    /\ pc' = [pc EXCEPT ![h] = "resting"]
    /\ UNCHANGED <<at, attempts, skipped, free, stop, admissionStopped, doomed, mode, outside, outcome>>

\* As a bug would have it: one retry too few.
TransientEarly(h) ==
    /\ Calling(h) /\ IsBatch(h, at[h])
    /\ \/ attempts[h][at[h] - 1] < MaxAttempts - 1 /\ Rest(h)
       \/ /\ attempts[h][at[h] - 1] >= MaxAttempts - 1
          /\ skipped' = skipped \cup {<<h, at[h] - 1>>}
          /\ Proceed(h)

\* SettledTransientIngestionFailure: the batch is sent again after a rest; the
\* last attempt gives the batch up and the history goes on.
Transient(h) ==
    /\ Calling(h) /\ IsBatch(h, at[h])
    /\ \/ attempts[h][at[h] - 1] < MaxAttempts /\ Rest(h)
       \/ /\ attempts[h][at[h] - 1] = MaxAttempts
          /\ skipped' = skipped \cup {<<h, at[h] - 1>>}
          /\ Proceed(h)

Retry(h) ==
    /\ pc[h] = "resting" /\ h \notin doomed
    /\ \/ stop /\ Settle(h, "stopped") /\ UNCHANGED <<at, attempts, skipped>>
       \/ /\ ~stop
          /\ pc' = [pc EXCEPT ![h] = "running"]
          /\ Sends(h, at[h])
          /\ UNCHANGED <<at, skipped, free, stop, admissionStopped, doomed, mode, outside, outcome>>

\* As a bug would have it: the cancellation does not reach a waiting task.
CancelledActive(o, clean) ==
    /\ o \in doomed /\ pc[o] \in Holding
    /\ Settle(o, IF clean THEN "cancelled" ELSE "failed")
    /\ UNCHANGED <<at, attempts, skipped>>

\* CancelledError arrives.  An active operation seals its evidence; if that
\* fails, or its call ends in an error of its own just then, it has failed.  The
\* unknown outcome of a cancelled write is itself a CancelledError.
Cancelled(o, clean) ==
    /\ o \in doomed
    /\ \/ /\ pc[o] \in {"ready", "queued"} /\ clean
          /\ pc' = [pc EXCEPT ![o] = "cancelled"]
          /\ UNCHANGED <<free, stop, admissionStopped, doomed, mode, outside, outcome>>
       \/ /\ pc[o] \in Holding
          /\ Settle(o, IF clean THEN "cancelled" ELSE "failed")
    /\ UNCHANGED <<at, attempts, skipped>>

-----------------------------------------------------------------------------
(* The pipeline.                                                           *)

\* A history's task also waits for the questions it has created.
TaskDone(h) == pc[h] \in Over /\ (pc[h] = "recorded" => \A q \in QuestionsOf(h) : pc[q] \in Over)

Unfinished == {h \in Plans : ~TaskDone(h)}

\* A signal, a sibling cell that failed, or the loss of an owner.
RequestStop ==
    /\ outcome = "none" /\ ~stop
    /\ stop' = TRUE /\ outside' = TRUE
    /\ UNCHANGED <<pc, at, attempts, skipped, free, admissionStopped, doomed, mode, outcome>>

\* The poll of _settle_pipeline_operations finds that cancel_when holds.
PollStop ==
    /\ outcome = "none" /\ mode = "open" /\ Unfinished # {}
    /\ stop /\ ~admissionStopped
    /\ mode' = "stopping" /\ doomed' = doomed \cup Unfinished
    /\ UNCHANGED <<pc, at, attempts, skipped, free, stop, admissionStopped, outside, outcome>>

\* The run's task is cancelled: by the watch, which sets the event first, or by
\* the wall-clock limit of the budget, which does not.  The limit may also pass
\* while the watch waits for the drain, and cancels the gather of the drain.
Interrupt(byWatch) ==
    /\ outcome = "none" /\ mode \notin {"expired", "lost"} /\ (byWatch => mode # "cancelled")
    /\ mode' = IF byWatch THEN "cancelled" ELSE IF mode = "cancelled" THEN "lost" ELSE "expired"
    /\ doomed' = doomed \cup Unfinished
    /\ stop' = (stop \/ byWatch) /\ outside' = TRUE
    /\ UNCHANGED <<pc, at, attempts, skipped, free, admissionStopped, outcome>>

\* A cancelled history task passes the cancellation on to its questions.
PassOn(h) ==
    /\ h \in doomed /\ pc[h] = "recorded"
    /\ LET qs == {q \in QuestionsOf(h) : pc[q] \notin Over} IN
          qs \ doomed # {} /\ doomed' = doomed \cup qs
    /\ UNCHANGED <<pc, at, attempts, skipped, free, stop, admissionStopped, mode, outside, outcome>>

With(how) == {o \in Operations : pc[o] = how}

\* What the pipeline raises or returns once every task has settled.  "gap" is
\* the AssertionError of a record that is missing without a reason.  A gather
\* that was cancelled waits for its tasks all the same and drops their outcomes.
Verdict ==
    IF mode = "lost" THEN "cancelled"
    ELSE IF With("failed") # {} THEN "failed"
    ELSE IF mode \in {"cancelled", "expired"} THEN "cancelled"
    ELSE IF mode = "stopping" \/ With("stopped") # {} THEN "interrupted"
    ELSE IF With("recorded") = Operations THEN "returned"
    ELSE IF stop THEN "interrupted"
    ELSE "gap"

Conclude ==
    /\ outcome = "none" /\ Unfinished = {}
    /\ outcome' = Verdict
    /\ UNCHANGED <<pc, at, attempts, skipped, free, stop, admissionStopped, doomed, mode, outside>>

Progress(o) ==
    \/ Enter(o) \/ Admit(o) \/ Return(o) \/ CaseEnds(o) \/ StageStops(o) \/ Fail(o)
    \/ Transient(o) \/ Retry(o)
    \/ \E clean \in BOOLEAN : Cancelled(o, clean)

Next ==
    \/ \E o \in Operations : Progress(o)
    \/ \E h \in Plans : PassOn(h)
    \/ RequestStop \/ PollStop \/ Conclude
    \/ \E byWatch \in BOOLEAN : Interrupt(byWatch)

Spec == Init /\ [][Next]_vars

\* The loop runs every task that can run, a semaphore serves its waiters in
\* turn, every provider call has a timeout, the poll repeats.
FairSpec ==
    /\ Spec
    /\ \A o \in Operations : WF_vars(Progress(o))
    /\ \A h \in Plans : WF_vars(PassOn(h))
    /\ WF_vars(PollStop) /\ WF_vars(Conclude)

-----------------------------------------------------------------------------
\* The two semaphores bound what is active, and no way through an operation, a
\* late refusal or a cancellation included, loses a permit or makes one.
PermitsConserved ==
    \A kind \in DOMAIN Limit :
        free[kind] + Cardinality({o \in Operations : Kind(o) = kind /\ pc[o] \in Holding}) = Limit[kind]

\* After a stop was requested or an operation failed, nothing more is started:
\* no operation that was still waiting, no batch or retry of a history, no answer
\* or judge call.  Only the three memory calls of a question follow each other.
NothingStartedAfterStop ==
    [][Closed => \A o \in Operations :
          /\ pc[o] = "queued" => pc'[o] # "running"
          /\ pc[o] = "resting" => pc'[o] # "running"
          /\ (o \in Plans \/ at[o] >= 3) => at'[o] = at[o]]_vars

\* A failure inside the run drains: as long as nobody outside asks the run to
\* stop, no admitted operation is cancelled because another one failed.
FailureDrains == ~outside => doomed = {} /\ With("cancelled") = {}

\* A question reads only a history all of whose batches were taken, or given up
\* after all their attempts.
RecordedIsWhole ==
    \A h \in Plans : (\E q \in QuestionsOf(h) : pc[q] # "idle") =>
        /\ pc[h] = "recorded"
        /\ \A b \in 1..Batches : /\ attempts[h][b] > 0
                                 /\ <<h, b>> \in skipped => attempts[h][b] = MaxAttempts

\* The run has an answer only when every history and every question has its
\* record, no question was answered from a history that was not whole, and the
\* assertions on missing records are never reached.
ReturnedIsComplete ==
    /\ RecordedIsWhole
    /\ outcome = "returned" => With("recorded") = Operations /\ mode = "open"
    /\ outcome # "gap"

\* No failure of an operation, and no evidence that could not be sealed, is lost
\* behind an interruption or a cancellation: what the pipeline raises, on which
\* the lease is decided, contains it.  It is lost if the wall-clock limit passes
\* while a stop by the watch is drained: the run then ends with a TimeoutError.
FailureReported == outcome # "none" /\ With("failed") # {} /\ mode # "lost" => outcome = "failed"

\* One failure neither takes the others down, nor hides behind them, nor keeps
\* what they are waiting for.
FailuresKept == TypeOK /\ PermitsConserved /\ FailureDrains /\ FailureReported

\* Whatever fails, waits or is cancelled, the pipeline ends.
PipelineEnds == <>(outcome # "none")
=============================================================================
