--------------------------- MODULE ModelCompletion ---------------------------
(***************************************************************************)
(* One answer or judge completion: the two retry layers of                 *)
(* runtime/model_completion_retry.py, driven by _execute_model_stage, and  *)
(* the reporting side's reconstruction of how many outer attempts were     *)
(* made, which sees only the records of the physical calls.                *)
(*                                                                         *)
(* A call's result is one of                                               *)
(*   "valid"      a response that passes validation                        *)
(*   "malformed"  a response that fails it with ValueError                 *)
(*   "blank"      one whose content is null: its text is empty             *)
(*   "filtered"   a response that fails it otherwise                       *)
(*   "rate"       HTTP 429                                                 *)
(*   "transient"  HTTP 408, 409, 5xx                                       *)
(*   "lost"       a timeout or a transport error                           *)
(*   "rejected"   another HTTP 4xx                                         *)
(*   "redirected" HTTP 3xx: the client follows no redirection              *)
(*   "unread"     a 200 whose body or choices cannot be parsed             *)
(*   "usage"      a response whose token usage cannot be parsed            *)
(*   "drift"      a 429 that the supplier says it retried by itself        *)
(*   "fault"      any other error of the client                            *)
(*   "cancelled"  the task was cancelled with the call in flight           *)
(* Messages are told apart by the number of format corrections appended.   *)
(***************************************************************************)
EXTENDS ModelAttemptChain, FiniteSetsExt

CONSTANTS
    MaxOuter,        \* max_outer_attempts
    MaxTransport     \* max_transport_retries

ASSUME CompletionAssumption == MaxOuter \in Nat \ {0} /\ MaxTransport \in Nat

VARIABLES
    phase,           \* "ready", "out", "asleep", or how the completion ended
    outer,           \* outer_attempt_index
    transport,       \* transport_retry_index
    corrections,     \* format corrections in request_messages
    calls,           \* the recorded physical calls, in order of their ordinals
    stopped          \* the run's stop event

completionVars == <<phase, outer, transport, corrections, calls, stopped>>

Results == {"valid", "malformed", "blank", "filtered", "rate", "transient", "lost",
            "rejected", "redirected", "unread", "usage", "drift", "fault", "cancelled"}

\* returned: a receipt; caseError: the case is sealed as an error and the run
\* goes on; raised: the error goes up and ends the run.
Ended == {"returned", "caseError", "raised"}

CompletionInit ==
    /\ phase = "ready"
    /\ outer = 0 /\ transport = 0 /\ corrections = 0
    /\ calls = << >>
    /\ stopped = FALSE

-----------------------------------------------------------------------------
\* As a bug would have it: a stop makes the loop wait.
DispatchWaiting ==
    /\ phase = "ready"
    /\ phase' = IF stopped THEN "ready" ELSE "out"
    /\ UNCHANGED <<outer, transport, corrections, calls, stopped>>

\* dispatch(): the stop event is looked at before an attempt is prepared, and
\* record() re-raises for a call that was never prepared.
Dispatch ==
    /\ phase = "ready"
    /\ phase' = IF stopped THEN "raised" ELSE "out"
    /\ UNCHANGED <<outer, transport, corrections, calls, stopped>>

TransportRetryable(x) == x \in {"rate", "transient", "lost"}

OuterRateLimit(x) == x = "rate"

LastOuter == outer + 1 = MaxOuter

\* Once more within the outer attempt, after the transport backoff.
RetryTransport ==
    /\ transport < MaxTransport
    /\ transport' = transport + 1
    /\ phase' = "asleep"
    /\ UNCHANGED <<outer, corrections>>

\* As a bug would have it: an outer attempt is not counted.
NextOuterUncounted(next) ==
    /\ transport' = 0
    /\ phase' = next
    /\ UNCHANGED outer

NextOuter(next) ==
    /\ outer' = outer + 1
    /\ transport' = 0
    /\ phase' = next

Stop(how) == phase' = how /\ UNCHANGED <<outer, transport, corrections>>

\* A call without a usable response.
Failed(x) ==
    \/ TransportRetryable(x) /\ RetryTransport
    \/ /\ TransportRetryable(x) => transport = MaxTransport
       /\ \/ /\ OuterRateLimit(x) /\ ~LastOuter
             /\ NextOuter("asleep") /\ UNCHANGED corrections
          \/ (~OuterRateLimit(x) \/ LastOuter) /\ Stop("caseError")

\* As a bug would have it: the response is asked for again as it was.
MalformedUncorrected ==
    \/ ~LastOuter /\ NextOuter("ready") /\ UNCHANGED corrections
    \/ LastOuter /\ Stop("caseError")

\* A response that validation refuses; _append_format_correction.
Malformed ==
    \/ ~LastOuter /\ NextOuter("ready") /\ corrections' = corrections + 1
    \/ LastOuter /\ Stop("caseError")

\* record() seals the call's attempt before anything else happens to it.
Record(x) == calls' = Append(calls, [corrections |-> corrections, result |-> x])

\* The call comes back, is recorded, and the loop decides what is next.
Receive(x) ==
    /\ phase = "out"
    /\ Record(x)
    /\ \/ x = "valid" /\ Stop("returned")
       \/ x \in {"malformed", "blank"} /\ Malformed
       \/ x = "filtered" /\ Stop("caseError")
       \/ x \in {"rate", "transient", "lost", "rejected", "redirected", "unread"} /\ Failed(x)
       \/ x \in {"usage", "drift", "fault", "cancelled"} /\ Stop("raised")
    /\ UNCHANGED stopped

\* The record of a call cannot be sealed: that error replaces the call's.
RecordFails ==
    /\ phase = "out"
    /\ Stop("raised")
    /\ UNCHANGED <<calls, stopped>>

Wake ==
    /\ phase = "asleep"
    /\ phase' = "ready"
    /\ UNCHANGED <<outer, transport, corrections, calls, stopped>>

\* The task is cancelled during a backoff.
CancelAsleep ==
    /\ phase = "asleep"
    /\ Stop("raised")
    /\ UNCHANGED <<calls, stopped>>

RequestStop ==
    /\ ~stopped
    /\ stopped' = TRUE
    /\ UNCHANGED <<phase, outer, transport, corrections, calls>>

CompletionNext ==
    \/ Dispatch \/ (\E x \in Results : Receive(x)) \/ RecordFails
    \/ Wake \/ CancelAsleep \/ RequestStop

CompletionSpec == CompletionInit /\ [][CompletionNext]_completionVars

\* A model call ends by its total timeout at the latest, and a sleep ends.
CompletionFairSpec ==
    CompletionSpec /\ WF_completionVars(Dispatch \/ Wake \/ \E x \in Results : Receive(x))

-----------------------------------------------------------------------------
(* The records that record() seals for the calls.                          *)

Prompt == <<"prompt", "q">>

Text(x) == CASE x = "malformed" -> <<"text", "bad">>
             [] x = "filtered"  -> <<"text", "filtered">>
             [] x = "valid"     -> <<"text", "good">>
             [] OTHER           -> << >>

\* _append_format_correction, once for every correction so far.
RequestMessages(n) ==
    LET corrected == SelectSeq(calls, LAMBDA c : c.result \in {"malformed", "blank"})
        Added[k \in 0..n] == IF k = 0 THEN UserPrompt(Prompt)
                             ELSE Added[k - 1] \o << <<"assistant", Text(corrected[k].result)>>, <<"user", Correction>> >>
    IN  Added[n]

HttpStatus(x) == CASE x = "rate"      -> 429
                   [] x = "transient" -> 503
                   [] x = "rejected" -> 400
                   [] x = "redirected" -> 302
                   [] x = "lost"      -> 0
                   [] OTHER           -> 200

RawReference(x) == IF HttpStatus(x) = 200 THEN <<"model", Text(x)>> ELSE <<"supplier_error", HttpStatus(x)>>

SealedAttempt(i) ==
    LET x == calls[i].result
    IN  [id       |-> <<"attempt", i>>,
         retryOf  |-> IF i = 1 THEN NoRef ELSE <<"attempt", i - 1>>,
         outcome  |-> CASE x = "valid" -> "succeeded" [] x = "lost" -> "unknown" [] OTHER -> "failed",
         messages |-> <<"messages", RequestMessages(calls[i].corrections)>>,
         response |-> IF x = "valid" THEN RawReference(x) ELSE NoRef,
         error    |-> IF x \in {"valid", "lost"} THEN NoRef ELSE RawReference(x)]

SealedReceipt(x) ==
    [kind     |-> CASE x = "valid" -> "response" [] x = "lost" -> "unknown" [] OTHER -> "error",
     failure  |-> CASE x = "valid" -> "none"
                    [] x = "lost" -> "timeout"
                    [] x \in {"rate", "transient", "rejected", "redirected"} -> "supplier_error"
                    [] x = "unread" -> "response_parse_error"
                    [] OTHER -> "output_contract_error",
     status   |-> HttpStatus(x),
     response |-> IF x = "valid" THEN RawReference(x) ELSE NoRef,
     error    |-> IF x \in {"valid", "lost"} THEN NoRef ELSE RawReference(x)]

SealedChainCloses ==
    LET atts == [i \in DOMAIN calls |-> SealedAttempt(i)]
    IN  ModelAttemptChainCloses(
            {Prompt} \cup {atts[i].messages : i \in DOMAIN atts},
            [id \in {atts[i].id : i \in DOMAIN atts} |-> SealedReceipt(calls[id[2]].result)],
            atts, Prompt, NoRef, phase = "returned")

-----------------------------------------------------------------------------
\* native_results._model_outer_attempt_count: calls with the same messages are
\* a group, and a group of n calls stands for n / (MaxTransport + 1) outer
\* attempts, rounded up.
Group(v) == {i \in DOMAIN calls : calls[i].corrections = v}

OuterAttemptCount ==
    MapThenSumSet(LAMBDA v : (Cardinality(Group(v)) + MaxTransport) \div (MaxTransport + 1),
                  {calls[i].corrections : i \in DOMAIN calls})

\* The number of outer attempts that reporting derives from the sealed calls is
\* the number the loop made, whenever a case was sealed.  It rests on an outer
\* attempt being left early only by a format correction, which changes the
\* messages, or by the end of the completion.
OuterAttemptsRecovered == phase \in {"returned", "caseError"} => OuterAttemptCount = outer + 1

\* No mix of rate limits, transport errors and malformed responses makes more
\* physical calls than the two limits allow together.
CallsBounded == Len(calls) <= MaxOuter * (MaxTransport + 1)

\* The calls of a completion are as many as the limits allow and tell how many
\* outer attempts they stand for.
AttemptsCounted == OuterAttemptsRecovered /\ CallsBounded

\* What the completion loop leaves behind when a case is sealed, a validator
\* that sees only the sealed calls accepts: every mix of rate limits, transport
\* errors and corrections, except the three kinds of response that
\* AllSealedChainsClose is about.
SealedChainsClose ==
    /\ phase \in {"returned", "caseError"}
    /\ \A i \in DOMAIN calls : calls[i].result \notin {"blank", "unread", "redirected"}
    => SealedChainCloses

\* Every completion that seals a case leaves a chain that validation accepts:
\* the test of an exhausted judge expects its capsule to validate.
AllSealedChainsClose == phase \in {"returned", "caseError"} => SealedChainCloses

\* A completion ends whatever the supplier answers.
CompletionEnds == <>(phase \in Ended)
=============================================================================
