------------------------ MODULE NativePipelineProofs ------------------------
(***************************************************************************)
(* The scheduler of a run, for any finite sets of histories and questions, *)
(* any limits, any number of batches and of attempts.  The tasks meet in   *)
(* the two flags and in the permits.  The invariant says why a flag is set *)
(* (only someone outside sets the event without stopping admission, so     *)
(* only then does the poll cancel), which questions exist, and how far a   *)
(* history has come with its batches.                                      *)
(***************************************************************************)
EXTENDS NativePipeline, FiniteSetTheorems, TLAPS

Holders(kind) == {o \in Operations : Kind(o) = kind /\ pc[o] \in Holding}

\* Why the run stops: a failure stops admission too, a stop alone came from outside.
StopHasReason ==
    /\ admissionStopped => stop
    /\ stop => outside \/ admissionStopped
    /\ \A o \in Operations : pc[o] \in {"refused", "stopped"} => stop

\* Tasks are cancelled only at a stop from outside.
CancelHasReason ==
    /\ mode # "open" => outside
    /\ doomed # {} => mode # "open"
    /\ \A o \in Operations : pc[o] = "cancelled" => mode # "open"

\* A question exists once its history is recorded.
QuestionsFollow ==
    /\ \A h \in Plans : pc[h] # "idle"
    /\ \A q \in Questions : pc[q] = "idle" <=> pc[PlanOf[q]] # "recorded"

\* A history sends its batches in order, each at most MaxAttempts times, and
\* gives one up only after the last; it rests only between two attempts.
BatchesInOrder ==
    \A h \in Plans :
        /\ \A b \in 1..Batches : attempts[h][b] = 0 <=> at[h] < b + 1
        /\ \A b \in 1..Batches : <<h, b>> \in skipped => attempts[h][b] = MaxAttempts
        /\ pc[h] \in {"ready", "queued"} => at[h] = 0
        /\ pc[h] = "resting" => IsBatch(h, at[h]) /\ attempts[h][at[h] - 1] < MaxAttempts
        /\ pc[h] = "recorded" => at[h] = Calls(h)

\* Once the pipeline has ended nothing is left that could move.
Ended == outcome # "none" => \A o \in Operations : pc[o] \in Over \cup {"idle"}

\* What it ended with is what the records say.
EndsTruly ==
    /\ outcome # "gap"
    /\ outcome # "none" /\ With("failed") # {} /\ mode # "lost" => outcome = "failed"
    /\ outcome = "returned" => With("recorded") = Operations /\ mode = "open"

PipelineInv ==
    /\ TypeOK /\ PermitsConserved /\ StopHasReason /\ CancelHasReason /\ QuestionsFollow
    /\ BatchesInOrder /\ Ended /\ EndsTruly

-----------------------------------------------------------------------------
(* The permits.                                                            *)

\* There are two semaphores, and each operation waits for one of them.
LEMMA TwoKinds ==
    /\ DOMAIN Limit = {"history", "question"}
    /\ \A o \in Operations : Kind(o) \in DOMAIN Limit
    /\ \A kind \in DOMAIN Limit : Limit[kind] \in Nat
  BY PipelineAssumption DEF Limit, Kind

\* Only finitely many operations hold a permit.
LEMMA HoldersFinite ==
    ASSUME NEW kind
    PROVE  IsFiniteSet(Holders(kind)) /\ Cardinality(Holders(kind)) \in Nat
  <1>1. IsFiniteSet(Operations)
    BY PipelineAssumption, FS_Union DEF Operations
  <1>2. Holders(kind) \subseteq Operations
    BY DEF Holders
  <1> QED
    BY <1>1, <1>2, FS_Subset, FS_CardinalityType

\* An operation that begins takes one permit of its kind.
LEMMA PermitTaken ==
    ASSUME TypeOK, PermitsConserved, NEW o \in Operations, pc[o] \notin Holding,
           NEW p \in Holding, pc' = [pc EXCEPT ![o] = p],
           free' = [free EXCEPT ![Kind(o)] = @ - 1]
    PROVE  PermitsConserved'
  <1> SUFFICES ASSUME NEW kind \in DOMAIN Limit
               PROVE  free'[kind] + Cardinality(Holders(kind)') = Limit[kind]
    BY DEF PermitsConserved, Holders
  <1>1. /\ free[kind] + Cardinality(Holders(kind)) = Limit[kind]
        /\ free[kind] \in Nat /\ Limit[kind] \in Nat /\ Kind(o) \in DOMAIN Limit
        /\ IsFiniteSet(Holders(kind)) /\ Cardinality(Holders(kind)) \in Nat
    BY TwoKinds, HoldersFinite DEF PermitsConserved, Holders, TypeOK
  <1>2. CASE kind = Kind(o)
    <2>1. Holders(kind)' = Holders(kind) \cup {o} /\ o \notin Holders(kind)
      BY <1>2 DEF Holders, TypeOK
    <2>2. Cardinality(Holders(kind)') = Cardinality(Holders(kind)) + 1
      BY <1>1, <2>1, FS_AddElement
    <2>3. free'[kind] = free[kind] - 1
      BY <1>1, <1>2 DEF TypeOK
    <2> QED
      BY <1>1, <2>2, <2>3
  <1>3. CASE kind # Kind(o)
    <2>1. Holders(kind)' = Holders(kind)
      BY <1>3 DEF Holders, TypeOK
    <2>2. free'[kind] = free[kind]
      BY <1>1, <1>3 DEF TypeOK
    <2> QED
      BY <1>1, <2>1, <2>2
  <1> QED
    BY <1>2, <1>3

\* An operation that ends gives its permit back, and nobody else's.
LEMMA PermitGiven ==
    ASSUME TypeOK, PermitsConserved, NEW o \in Operations, pc[o] \in Holding, pc'[o] \notin Holding,
           \A x \in Operations \ {o} : pc'[x] \in Holding <=> pc[x] \in Holding,
           free' = [free EXCEPT ![Kind(o)] = @ + 1]
    PROVE  PermitsConserved'
  <1> SUFFICES ASSUME NEW kind \in DOMAIN Limit
               PROVE  free'[kind] + Cardinality(Holders(kind)') = Limit[kind]
    BY DEF PermitsConserved, Holders
  <1>1. /\ free[kind] + Cardinality(Holders(kind)) = Limit[kind]
        /\ free[kind] \in Nat /\ Limit[kind] \in Nat /\ Kind(o) \in DOMAIN Limit
        /\ IsFiniteSet(Holders(kind)) /\ Cardinality(Holders(kind)) \in Nat
    BY TwoKinds, HoldersFinite DEF PermitsConserved, Holders, TypeOK
  <1>2. CASE kind = Kind(o)
    <2>1. Holders(kind)' = Holders(kind) \ {o} /\ o \in Holders(kind)
      BY <1>2 DEF Holders
    <2>2. Cardinality(Holders(kind)') = Cardinality(Holders(kind)) - 1
      BY <1>1, <2>1, FS_RemoveElement
    <2>3. free'[kind] = free[kind] + 1
      BY <1>1, <1>2 DEF TypeOK
    <2> QED
      BY <1>1, <2>2, <2>3
  <1>3. CASE kind # Kind(o)
    <2>1. Holders(kind)' = Holders(kind)
      BY <1>3 DEF Holders
    <2>2. free'[kind] = free[kind]
      BY <1>1, <1>3 DEF TypeOK
    <2> QED
      BY <1>1, <2>1, <2>2
  <1> QED
    BY <1>2, <1>3

\* A step between two states of an operation that holds a permit, or does not,
\* changes nothing about the permits.
LEMMA PermitsKept ==
    ASSUME PermitsConserved, free' = free,
           \A o \in Operations : pc'[o] \in Holding <=> pc[o] \in Holding
    PROVE  PermitsConserved'
  <1>1. \A kind \in DOMAIN Limit : Holders(kind)' = Holders(kind)
    BY DEF Holders
  <1> QED
    BY <1>1 DEF PermitsConserved, Holders

-----------------------------------------------------------------------------
(* The operations.                                                         *)

\* Histories are ready, questions do not exist, and every permit is free.
LEMMA PipelineInitInv == Init => PipelineInv
  <1> SUFFICES ASSUME Init PROVE PipelineInv
    OBVIOUS
  <1> USE PipelineAssumption, TwoKinds DEF Init, Operations
  <1>1. TypeOK
    <2>1. /\ at \in [Operations -> 0..(Batches + 5)]
          /\ attempts \in [Plans -> [1..Batches -> 0..MaxAttempts]]
      OBVIOUS
    <2>2. pc \in [Operations -> {"idle", "ready", "queued"} \cup Holding \cup Over]
      OBVIOUS
    <2>3. free \in [DOMAIN Limit -> Nat]
      BY DEF Limit
    <2> QED
      BY <2>1, <2>2, <2>3 DEF TypeOK
  <1>2. PermitsConserved
    <2> SUFFICES ASSUME NEW kind \in DOMAIN Limit
                 PROVE  free[kind] + Cardinality(Holders(kind)) = Limit[kind]
      BY DEF PermitsConserved, Holders
    <2>1. Holders(kind) = {}
      BY DEF Holders, Holding
    <2> QED
      BY <2>1, FS_EmptySet
  <1>3. StopHasReason /\ CancelHasReason /\ QuestionsFollow
    BY DEF StopHasReason, CancelHasReason, QuestionsFollow
  <1>4. BatchesInOrder
    BY DEF BatchesInOrder
  <1>5. Ended /\ EndsTruly
    BY DEF Ended, EndsTruly
  <1> QED
    BY <1>1, <1>2, <1>3, <1>4, <1>5 DEF PipelineInv

\* An operation that still has something to do keeps the pipeline from ending.
LEMMA NotEnded ==
    ASSUME PipelineInv, NEW o \in Operations, pc[o] \in {"ready", "queued"} \cup Holding
    PROVE  outcome = "none"
  BY DEF PipelineInv, Ended, Holding, Over

\* The end of an active operation, whatever it came from.
LEMMA SettleInv ==
    ASSUME PipelineInv, NEW o \in Operations,
           NEW how \in {"recorded", "stopped", "cancelled", "failed"},
           pc[o] \in Holding, Settle(o, how), UNCHANGED <<at, attempts>>,
           skipped' \subseteq Plans \X (1..Batches),
           \A h \in Plans, b \in 1..Batches : <<h, b>> \in skipped' => attempts[h][b] = MaxAttempts,
           how = "recorded" => o \in Questions \/ at[o] = Calls(o),
           how = "stopped" => stop,
           how = "cancelled" => o \in doomed
    PROVE  PipelineInv'
  <1> USE PipelineAssumption, TwoKinds DEF PipelineInv, Operations, Settle
  <1>1. outcome = "none" /\ pc[o] \notin {"idle"} \cup Over
    BY NotEnded DEF Holding, Over
  <1>2. pc' \in [Operations -> {"idle", "ready", "queued"} \cup Holding \cup Over]
    BY DEF TypeOK, Over
  <1>3. TypeOK'
    <2>1. Kind(o) \in DOMAIN Limit /\ free[Kind(o)] \in Nat
      BY DEF TypeOK
    <2>2. free' \in [DOMAIN Limit -> Nat]
      BY <2>1 DEF TypeOK
    <2> QED
      BY <1>2, <2>2 DEF TypeOK
  <1>4. \A x \in Operations \ {o} :
            pc'[x] = pc[x] \/ (x \in Questions /\ pc[x] = "idle" /\ pc'[x] = "ready")
    BY <1>1 DEF QuestionsFollow, QuestionsOf, Over
  <1>5. PermitsConserved'
    <2>1. pc'[o] \notin Holding
      BY DEF Holding
    <2>2. \A x \in Operations \ {o} : pc'[x] \in Holding <=> pc[x] \in Holding
      BY <1>4 DEF Holding
    <2> QED
      BY <2>1, <2>2, PermitGiven
  <1>6. StopHasReason' /\ CancelHasReason'
    BY <1>4 DEF StopHasReason, CancelHasReason
  <1>7. QuestionsFollow'
    <2>1. \A h \in Plans : pc'[h] # "idle"
      BY <1>4 DEF QuestionsFollow
    <2>2. ASSUME NEW q \in Questions
          PROVE  pc'[q] = "idle" <=> pc'[PlanOf[q]] # "recorded"
      <3>1. PlanOf[q] \in Plans /\ PlanOf[q] \notin Questions
        OBVIOUS
      <3>2. pc[q] = "idle" <=> pc[PlanOf[q]] # "recorded"
        BY DEF QuestionsFollow
      <3>3. CASE q = o
        BY <1>1, <1>4, <3>1, <3>2, <3>3
      <3>4. CASE PlanOf[q] = o
        BY <1>1, <3>1, <3>2, <3>4 DEF QuestionsOf, Over
      <3>5. CASE q # o /\ PlanOf[q] # o
        BY <3>1, <3>2, <3>5 DEF QuestionsOf
      <3> QED
        BY <3>3, <3>4, <3>5
    <2> QED
      BY <2>1, <2>2 DEF QuestionsFollow
  <1>8. BatchesInOrder'
    <2>1. \A h \in Plans : h # o => pc'[h] = pc[h]
      BY <1>4
    <2>2. \A h \in Plans : Calls(h)' = Calls(h) /\ (IsBatch(h, at[h])' <=> IsBatch(h, at[h]))
      BY DEF Calls, IsBatch
    <2> QED
      BY <2>1, <2>2 DEF BatchesInOrder
  <1>9. Ended' /\ EndsTruly'
    BY <1>1 DEF Ended, EndsTruly
  <1> QED
    BY <1>3, <1>5, <1>6, <1>7, <1>8, <1>9

\* What follows a call.
LEMMA ProceedInv ==
    ASSUME PipelineInv, NEW o \in Operations, Calling(o), Proceed(o),
           skipped' \subseteq Plans \X (1..Batches),
           \A h \in Plans, b \in 1..Batches :
               <<h, b>> \in skipped' => attempts[h][b] = MaxAttempts /\ b + 1 <= at[h]
    PROVE  PipelineInv'
  <1> DEFINE k == at[o] + 1
  <1> USE PipelineAssumption DEF Calling
  <1>0. pc[o] = "running" /\ at[o] \in Nat
    BY DEF PipelineInv, TypeOK
  <1>1. CASE at[o] = Calls(o) /\ Settle(o, "recorded") /\ UNCHANGED <<at, attempts>>
    BY <1>0, <1>1, SettleInv DEF Holding
  <1>2. CASE stop /\ Settle(o, "stopped") /\ UNCHANGED <<at, attempts>>
    BY <1>0, <1>2, SettleInv DEF Holding
  <1>3. CASE /\ at[o] < Calls(o) /\ ~(Checked(o, k) /\ stop)
             /\ at' = [at EXCEPT ![o] = k] /\ Sends(o, k)
             /\ UNCHANGED <<pc, free, stop, admissionStopped, doomed, mode, outside, outcome>>
    <2> USE <1>3 DEF PipelineInv
    <2>1. k \in 0..(Batches + 5)
      BY <1>0 DEF Calls
    <2>2. IsBatch(o, k) => /\ o \in Plans /\ k - 1 \in 1..Batches /\ attempts[o][k - 1] = 0
                           /\ attempts' = [attempts EXCEPT ![o][k - 1] = 1]
      <3> SUFFICES ASSUME IsBatch(o, k)
                   PROVE  /\ o \in Plans /\ k - 1 \in 1..Batches /\ attempts[o][k - 1] = 0
                          /\ attempts' = [attempts EXCEPT ![o][k - 1] = 1]
        OBVIOUS
      <3>1. o \in Plans /\ k - 1 \in 1..Batches
        BY <1>0 DEF IsBatch
      <3>2. attempts[o][k - 1] = 0
        BY <1>0, <3>1 DEF BatchesInOrder
      <3>3. attempts' = [attempts EXCEPT ![o][k - 1] = @ + 1]
        BY DEF Sends
      <3>4. [attempts[o] EXCEPT ![k - 1] = attempts[o][k - 1] + 1] = [attempts[o] EXCEPT ![k - 1] = 1]
        BY <3>2
      <3> QED
        BY <3>1, <3>2, <3>3, <3>4
    <2>3. ~IsBatch(o, k) => attempts' = attempts
      BY DEF Sends
    <2>4. attempts' \in [Plans -> [1..Batches -> 0..MaxAttempts]]
      <3>1. attempts \in [Plans -> [1..Batches -> 0..MaxAttempts]] /\ 1 \in 0..MaxAttempts
        BY DEF TypeOK
      <3>2. o \in Plans => [attempts[o] EXCEPT ![k - 1] = 1] \in [1..Batches -> 0..MaxAttempts]
        BY <3>1
      <3> QED
        BY <2>2, <2>3, <3>1, <3>2
    <2>5. TypeOK'
      BY <2>1, <2>4 DEF TypeOK
    <2>6. PermitsConserved'
      BY PermitsKept
    <2>7. StopHasReason' /\ CancelHasReason' /\ QuestionsFollow' /\ Ended' /\ EndsTruly'
      BY DEF StopHasReason, CancelHasReason, QuestionsFollow, Ended, EndsTruly, With
    <2>8. BatchesInOrder'
      <3> SUFFICES ASSUME NEW h \in Plans
                   PROVE  /\ \A b \in 1..Batches : attempts'[h][b] = 0 <=> at'[h] < b + 1
                          /\ \A b \in 1..Batches : <<h, b>> \in skipped' => attempts'[h][b] = MaxAttempts
                          /\ pc'[h] \in {"ready", "queued"} => at'[h] = 0
                          /\ pc'[h] = "resting" =>
                                IsBatch(h, at[h])' /\ attempts'[h][at'[h] - 1] < MaxAttempts
                          /\ pc'[h] = "recorded" => at'[h] = Calls(h)
        BY DEF BatchesInOrder, Calls
      <3>1. CASE h # o
        <4>1. at'[h] = at[h] /\ attempts'[h] = attempts[h]
          BY <2>2, <2>3, <3>1 DEF TypeOK, Operations
        <4> QED
          BY <4>1 DEF BatchesInOrder, IsBatch
      <3>2. CASE h = o
        <4>1. at'[h] = k /\ at[h] = k - 1 /\ pc'[h] = "running"
          BY <1>0, <3>2 DEF TypeOK
        <4>2. \A b \in 1..Batches : b # k - 1 \/ ~IsBatch(o, k) => attempts'[h][b] = attempts[h][b]
          BY <2>2, <2>3, <3>2 DEF TypeOK
        <4>3. IsBatch(o, k) => attempts'[h][k - 1] = 1
          BY <2>2, <3>2 DEF TypeOK
        <4>4. ASSUME NEW b \in 1..Batches
              PROVE  /\ attempts'[h][b] = 0 <=> at'[h] < b + 1
                     /\ <<h, b>> \in skipped' => attempts'[h][b] = MaxAttempts
          <5>1. attempts[h][b] = 0 <=> at[h] < b + 1
            BY DEF BatchesInOrder
          <5>2. CASE b = k - 1
            <6>1. IsBatch(o, k) /\ attempts'[h][b] = 1
              BY <1>0, <3>2, <4>3, <5>2 DEF IsBatch
            <6>2. <<h, b>> \notin skipped'
              BY <1>0, <3>2, <5>2
            <6> QED
              BY <1>0, <4>1, <5>2, <6>1, <6>2
          <5>3. CASE b # k - 1
            <6>1. attempts'[h][b] = attempts[h][b]
              BY <4>2, <5>3
            <6> QED
              BY <1>0, <4>1, <5>1, <5>3, <6>1
          <5> QED
            BY <5>2, <5>3
        <4> QED
          BY <4>1, <4>4
      <3> QED
        BY <3>1, <3>2
    <2> QED
      BY <2>5, <2>6, <2>7, <2>8
  <1> QED
    BY <1>1, <1>2, <1>3 DEF Proceed

\* A batch that was given up had been sent.
LEMMA SkippedWasSent ==
    ASSUME PipelineInv, NEW h \in Plans, NEW b \in 1..Batches, <<h, b>> \in skipped
    PROVE  attempts[h][b] = MaxAttempts /\ b + 1 <= at[h]
  BY PipelineAssumption DEF PipelineInv, BatchesInOrder, TypeOK, Operations

\* A call returns.
LEMMA ReturnInv ==
    ASSUME PipelineInv, NEW o \in Operations, Return(o)
    PROVE  PipelineInv'
  <1>1. skipped' \subseteq Plans \X (1..Batches)
    BY DEF Return, PipelineInv, TypeOK
  <1> QED
    BY <1>1, SkippedWasSent, ProceedInv DEF Return

\* A batch is sent again, or given up after its last attempt.
LEMMA TransientInv ==
    ASSUME PipelineInv, NEW h \in Operations, Transient(h)
    PROVE  PipelineInv'
  <1> USE PipelineAssumption
  <1>0. h \in Plans /\ at[h] - 1 \in 1..Batches /\ at[h] \in Nat /\ pc[h] = "running"
    BY DEF Transient, IsBatch, Calling, PipelineInv, TypeOK
  <1>1. CASE attempts[h][at[h] - 1] < MaxAttempts /\ Rest(h)
    <2> USE <1>1 DEF PipelineInv, Rest
    <2>1. TypeOK'
      BY DEF TypeOK, Holding
    <2>2. PermitsConserved'
      BY <1>0, PermitsKept DEF TypeOK, Holding
    <2>3. StopHasReason' /\ CancelHasReason' /\ QuestionsFollow'
      BY <1>0 DEF StopHasReason, CancelHasReason, QuestionsFollow, TypeOK, Operations
    <2>4. BatchesInOrder'
      <3>1. IsBatch(h, at[h])'
        BY DEF Transient, IsBatch
      <3>2. \A g \in Plans : g # h => pc'[g] = pc[g]
        BY DEF TypeOK, Operations
      <3> QED
        BY SMTT(30), <1>0, <3>1, <3>2 DEF BatchesInOrder, TypeOK, Operations, Calls, IsBatch
    <2>5. Ended' /\ EndsTruly'
      BY <1>0, NotEnded DEF Ended, EndsTruly, Holding
    <2> QED
      BY <2>1, <2>2, <2>3, <2>4, <2>5
  <1>2. CASE /\ attempts[h][at[h] - 1] = MaxAttempts
             /\ skipped' = skipped \cup {<<h, at[h] - 1>>}
             /\ Proceed(h)
    <2>1. skipped' \subseteq Plans \X (1..Batches)
      BY <1>0, <1>2 DEF PipelineInv, TypeOK
    <2>2. \A g \in Plans, b \in 1..Batches :
              <<g, b>> \in skipped' => attempts[g][b] = MaxAttempts /\ b + 1 <= at[g]
      BY <1>0, <1>2, SkippedWasSent
    <2> QED
      BY <1>2, <2>1, <2>2, ProceedInv DEF Transient
  <1> QED
    BY <1>1, <1>2 DEF Transient

\* A batch that has rested is sent once more, unless the run stops.
LEMMA RetryInv ==
    ASSUME PipelineInv, NEW h \in Operations, Retry(h)
    PROVE  PipelineInv'
  <1> USE PipelineAssumption
  <1>0. pc[h] = "resting" /\ skipped' \subseteq Plans \X (1..Batches)
    BY DEF Retry, PipelineInv, TypeOK
  <1>1. CASE stop /\ Settle(h, "stopped") /\ UNCHANGED <<at, attempts, skipped>>
    BY <1>0, <1>1, SkippedWasSent, SettleInv DEF Holding
  <1>2. CASE /\ ~stop
             /\ pc' = [pc EXCEPT ![h] = "running"]
             /\ Sends(h, at[h])
             /\ UNCHANGED <<at, skipped, free, stop, admissionStopped, doomed, mode, outside, outcome>>
    <2> DEFINE b == at[h] - 1
    <2> USE <1>2 DEF PipelineInv
    <2>1. ASSUME h \in Plans
          PROVE  /\ b \in 1..Batches /\ at[h] \in Nat /\ attempts[h][b] \in 1..(MaxAttempts - 1)
                 /\ attempts' = [attempts EXCEPT ![h] = [attempts[h] EXCEPT ![b] = attempts[h][b] + 1]]
      <3>1. IsBatch(h, at[h]) /\ attempts[h][b] < MaxAttempts
        BY <1>0, <2>1 DEF BatchesInOrder
      <3>2. b \in 1..Batches /\ at[h] \in Nat
        BY <3>1 DEF IsBatch, TypeOK
      <3>3. attempts[h][b] \in 0..MaxAttempts /\ attempts[h][b] # 0
        BY <2>1, <3>2 DEF TypeOK, BatchesInOrder
      <3> QED
        BY <3>1, <3>2, <3>3 DEF Sends
    <2>2. h \notin Plans => attempts' = attempts
      BY DEF Sends, IsBatch
    <2>3. TypeOK'
      <3>1. attempts \in [Plans -> [1..Batches -> 0..MaxAttempts]]
        BY DEF TypeOK
      <3>2. h \in Plans => [attempts[h] EXCEPT ![b] = attempts[h][b] + 1] \in [1..Batches -> 0..MaxAttempts]
        BY SMTT(30), <2>1, <3>1
      <3>3. attempts' \in [Plans -> [1..Batches -> 0..MaxAttempts]]
        BY <2>1, <2>2, <3>1, <3>2
      <3> QED
        BY <3>3 DEF TypeOK, Holding
    <2>4. PermitsConserved'
      BY <1>0, PermitsKept DEF TypeOK, Holding
    <2>5. StopHasReason' /\ CancelHasReason' /\ QuestionsFollow'
      BY <1>0 DEF StopHasReason, CancelHasReason, QuestionsFollow, TypeOK, Operations
    <2>6. BatchesInOrder'
      <3> SUFFICES ASSUME NEW g \in Plans
                   PROVE  /\ \A c \in 1..Batches : attempts'[g][c] = 0 <=> at[g] < c + 1
                          /\ \A c \in 1..Batches : <<g, c>> \in skipped => attempts'[g][c] = MaxAttempts
                          /\ pc'[g] \in {"ready", "queued"} => at[g] = 0
                          /\ pc'[g] = "resting" => IsBatch(g, at[g]) /\ attempts'[g][at[g] - 1] < MaxAttempts
                          /\ pc'[g] = "recorded" => at[g] = Calls(g)
        BY DEF BatchesInOrder, IsBatch, Calls
      <3>1. CASE g # h
        <4>1. attempts'[g] = attempts[g] /\ pc'[g] = pc[g]
          BY <2>1, <2>2, <3>1 DEF TypeOK, Operations
        <4> QED
          BY <4>1 DEF BatchesInOrder
      <3>2. CASE g = h
        <4>1. pc'[g] = "running"
          BY <3>2 DEF TypeOK
        <4>2. attempts'[g][b] = attempts[g][b] + 1 /\ attempts[g][b] \in 1..(MaxAttempts - 1)
          BY <2>1, <3>2 DEF TypeOK
        <4>3. \A c \in 1..Batches : c # b => attempts'[g][c] = attempts[g][c]
          BY <2>1, <3>2 DEF TypeOK
        <4> QED
          BY <2>1, <3>2, <4>1, <4>2, <4>3 DEF BatchesInOrder
      <3> QED
        BY <3>1, <3>2
    <2>7. Ended' /\ EndsTruly'
      BY <1>0, NotEnded DEF Ended, EndsTruly, Holding
    <2> QED
      BY <2>3, <2>4, <2>5, <2>6, <2>7
  <1> QED
    BY <1>1, <1>2 DEF Retry

\* A case that needs no more, a stage that stops, and a failure.
LEMMA EndsInv ==
    ASSUME PipelineInv, NEW o \in Operations, CaseEnds(o) \/ StageStops(o) \/ Fail(o)
    PROVE  PipelineInv'
  <1>0. skipped \subseteq Plans \X (1..Batches)
    BY DEF PipelineInv, TypeOK
  <1>1. CASE CaseEnds(o)
    BY <1>0, <1>1, SkippedWasSent, SettleInv DEF CaseEnds, Calling, Holding
  <1>2. CASE StageStops(o)
    BY <1>0, <1>2, SkippedWasSent, SettleInv DEF StageStops, Calling, Holding
  <1>3. CASE Fail(o)
    BY <1>0, <1>3, SkippedWasSent, SettleInv DEF Fail, Calling, Holding
  <1> QED
    BY <1>1, <1>2, <1>3

\* The wait for a permit begins, or the operation is refused.
LEMMA EnterInv ==
    ASSUME PipelineInv, NEW o \in Operations, Enter(o)
    PROVE  PipelineInv'
  <1> USE PipelineAssumption DEF PipelineInv, Enter, Closed
  <1>1. TypeOK'
    BY DEF TypeOK, Over
  <1>2. PermitsConserved'
    BY PermitsKept DEF TypeOK, Holding
  <1>3. StopHasReason' /\ CancelHasReason' /\ QuestionsFollow'
    BY DEF StopHasReason, CancelHasReason, QuestionsFollow, TypeOK, Operations
  <1>4. BatchesInOrder'
    BY DEF BatchesInOrder, TypeOK, Operations, IsBatch, Calls
  <1>5. Ended' /\ EndsTruly'
    BY NotEnded DEF Ended, EndsTruly
  <1> QED
    BY <1>1, <1>2, <1>3, <1>4, <1>5

\* A permit is taken, unless admission has stopped meanwhile.
LEMMA AdmitInv ==
    ASSUME PipelineInv, NEW o \in Operations, Admit(o)
    PROVE  PipelineInv'
  <1> USE PipelineAssumption DEF PipelineInv, Admit
  <1>0. outcome = "none"
    BY NotEnded
  <1>1. CASE Closed /\ pc' = [pc EXCEPT ![o] = "refused"] /\ UNCHANGED <<at, free>>
    <2> USE <1>1 DEF Closed
    <2>1. TypeOK'
      BY DEF TypeOK, Over
    <2>2. PermitsConserved'
      BY PermitsKept DEF TypeOK, Holding
    <2>3. StopHasReason' /\ CancelHasReason' /\ QuestionsFollow'
      BY DEF StopHasReason, CancelHasReason, QuestionsFollow, TypeOK, Operations
    <2>4. BatchesInOrder'
      BY DEF BatchesInOrder, TypeOK, Operations, IsBatch, Calls
    <2> QED
      BY <1>0, <2>1, <2>2, <2>3, <2>4 DEF Ended, EndsTruly
  <1>2. CASE /\ ~Closed
             /\ pc' = [pc EXCEPT ![o] = "running"]
             /\ at' = [at EXCEPT ![o] = 1]
             /\ free' = [free EXCEPT ![Kind(o)] = @ - 1]
    <2> USE <1>2
    <2>1. TypeOK'
      <3>1. Kind(o) \in DOMAIN Limit /\ free[Kind(o)] - 1 \in Nat
        BY TwoKinds DEF TypeOK
      <3>2. free' \in [DOMAIN Limit -> Nat] /\ 1 \in 0..(Batches + 5)
        BY <3>1 DEF TypeOK
      <3> QED
        BY <3>2 DEF TypeOK, Holding
    <2>2. PermitsConserved'
      BY PermitTaken DEF Holding
    <2>3. StopHasReason' /\ CancelHasReason' /\ QuestionsFollow'
      BY DEF StopHasReason, CancelHasReason, QuestionsFollow, TypeOK, Operations
    <2>4. BatchesInOrder'
      BY DEF BatchesInOrder, TypeOK, Operations, IsBatch, Calls
    <2> QED
      BY <1>0, <2>1, <2>2, <2>3, <2>4 DEF Ended, EndsTruly
  <1> QED
    BY <1>1, <1>2

\* A cancellation arrives where the task waits, or in its call.
LEMMA CancelledInv ==
    ASSUME PipelineInv, NEW o \in Operations, NEW clean \in BOOLEAN, Cancelled(o, clean)
    PROVE  PipelineInv'
  <1> USE PipelineAssumption
  <1>1. CASE /\ pc[o] \in {"ready", "queued"}
             /\ pc' = [pc EXCEPT ![o] = "cancelled"]
             /\ UNCHANGED <<free, stop, admissionStopped, doomed, mode, outside, outcome>>
    <2> USE <1>1 DEF PipelineInv, Cancelled
    <2>1. TypeOK'
      BY DEF TypeOK, Over
    <2>2. PermitsConserved'
      BY PermitsKept DEF TypeOK, Holding
    <2>3. StopHasReason' /\ CancelHasReason' /\ QuestionsFollow'
      BY DEF StopHasReason, CancelHasReason, QuestionsFollow, TypeOK, Operations
    <2>4. BatchesInOrder'
      BY DEF BatchesInOrder, TypeOK, Operations, IsBatch, Calls
    <2>5. Ended' /\ EndsTruly'
      BY NotEnded DEF Ended, EndsTruly
    <2> QED
      BY <2>1, <2>2, <2>3, <2>4, <2>5
  <1>2. CASE pc[o] \in Holding /\ Settle(o, IF clean THEN "cancelled" ELSE "failed")
    <2>1. skipped' \subseteq Plans \X (1..Batches)
      BY DEF PipelineInv, TypeOK, Cancelled
    <2> QED
      BY <1>2, <2>1, SkippedWasSent, SettleInv DEF Cancelled
  <1> QED
    BY <1>1, <1>2 DEF Cancelled

\* Every step of an operation keeps the invariant.
LEMMA ProgressInv ==
    ASSUME PipelineInv, NEW o \in Operations, Progress(o)
    PROVE  PipelineInv'
  BY EnterInv, AdmitInv, ReturnInv, EndsInv, TransientInv, RetryInv, CancelledInv DEF Progress

-----------------------------------------------------------------------------
(* The pipeline.                                                           *)

\* A stop from outside, the poll that finds it, and an interrupt with or without
\* the watch: the poll finds one from outside, as a failure stops admission too.
LEMMA StopsInv ==
    ASSUME PipelineInv, RequestStop \/ PollStop \/ \E byWatch \in BOOLEAN : Interrupt(byWatch)
    PROVE  PipelineInv'
  <1> USE PipelineAssumption DEF PipelineInv, RequestStop, PollStop, Interrupt
  <1>1. TypeOK'
    BY DEF TypeOK, Unfinished, Operations
  <1>2. PermitsConserved'
    BY PermitsKept
  <1>3. StopHasReason'
    <2>1. (stop => stop') /\ (outside => outside') /\ (stop' => stop \/ outside')
      BY DEF TypeOK
    <2> QED
      BY <2>1 DEF StopHasReason
  <1>4. CancelHasReason'
    BY DEF CancelHasReason, StopHasReason
  <1>5. QuestionsFollow' /\ BatchesInOrder'
    BY DEF QuestionsFollow, BatchesInOrder, IsBatch, Calls
  <1>6. Ended' /\ EndsTruly'
    BY DEF Ended, EndsTruly
  <1> QED
    BY <1>1, <1>2, <1>3, <1>4, <1>5, <1>6

\* A cancellation reaches the questions of a cancelled history.
LEMMA PassOnInv ==
    ASSUME PipelineInv, NEW h \in Plans, PassOn(h)
    PROVE  PipelineInv'
  <1> USE PipelineAssumption DEF PipelineInv, PassOn
  <1>1. TypeOK'
    BY DEF TypeOK, QuestionsOf, Operations
  <1>2. PermitsConserved'
    BY PermitsKept
  <1>3. StopHasReason' /\ CancelHasReason'
    BY DEF StopHasReason, CancelHasReason
  <1>4. QuestionsFollow' /\ BatchesInOrder'
    BY DEF QuestionsFollow, BatchesInOrder, IsBatch, Calls
  <1>5. Ended' /\ EndsTruly'
    BY DEF Ended, EndsTruly, With
  <1> QED
    BY <1>1, <1>2, <1>3, <1>4, <1>5

\* When every task has settled each operation has come to its end, but for the
\* questions of a history that has no record.
LEMMA AllSettled ==
    ASSUME PipelineInv, Unfinished = {}
    PROVE  /\ \A h \in Plans : pc[h] \in Over
           /\ \A q \in Questions : pc[q] \in Over \/ (pc[q] = "idle" /\ pc[PlanOf[q]] # "recorded")
  <1> USE PipelineAssumption DEF PipelineInv
  <1>1. \A h \in Plans : TaskDone(h)
    BY DEF Unfinished
  <1>2. ASSUME NEW q \in Questions
        PROVE  pc[q] \in Over \/ (pc[q] = "idle" /\ pc[PlanOf[q]] # "recorded")
    <2>1. PlanOf[q] \in Plans /\ TaskDone(PlanOf[q])
      BY <1>1
    <2> QED
      BY <2>1 DEF TaskDone, QuestionsOf, QuestionsFollow
  <1> QED
    BY <1>1, <1>2 DEF TaskDone

\* The verdict is the one the records call for, and is always one.
LEMMA ConcludeInv ==
    ASSUME PipelineInv, Conclude
    PROVE  PipelineInv'
  <1> USE PipelineAssumption DEF PipelineInv, Conclude
  <1>1. /\ Unfinished = {}
        /\ \A h \in Plans : pc[h] \in Over
        /\ \A q \in Questions : pc[q] \in Over \/ (pc[q] = "idle" /\ pc[PlanOf[q]] # "recorded")
    BY AllSettled
  <1>2. Verdict # "gap"
    <2> SUFFICES ASSUME With("failed") = {}, mode = "open", With("stopped") = {}, ~stop,
                        NEW o \in Operations, pc[o] # "recorded"
                 PROVE  FALSE
      BY DEF Verdict, With, TypeOK
    <2>1. \A x \in Operations : pc[x] \in Over => pc[x] = "recorded"
      BY DEF Over, With, StopHasReason, CancelHasReason
    <2>2. o \in Questions /\ pc[o] = "idle" /\ pc[PlanOf[o]] # "recorded"
      BY <1>1, <2>1 DEF Operations
    <2> QED
      BY <1>1, <2>1, <2>2 DEF Operations
  <1>3. Verdict \in {"returned", "interrupted", "cancelled", "failed"}
    BY <1>2 DEF Verdict
  <1>4. TypeOK'
    BY <1>3 DEF TypeOK
  <1>5. PermitsConserved'
    BY PermitsKept
  <1>6. StopHasReason' /\ CancelHasReason' /\ QuestionsFollow' /\ BatchesInOrder'
    BY DEF StopHasReason, CancelHasReason, QuestionsFollow, BatchesInOrder, IsBatch, Calls
  <1>7. Ended'
    BY <1>1 DEF Ended, Operations
  <1>8. EndsTruly'
    <2>1. Verdict = "returned" => With("recorded") = Operations /\ mode = "open"
      BY DEF Verdict, TypeOK
    <2>2. With("failed") # {} /\ mode # "lost" => Verdict = "failed"
      BY DEF Verdict
    <2>3. With("failed")' = With("failed") /\ With("recorded")' = With("recorded") /\ mode' = mode
      BY DEF With
    <2> QED
      BY <1>2, <2>1, <2>2, <2>3 DEF EndsTruly
  <1> QED
    BY <1>4, <1>5, <1>6, <1>7, <1>8

\* Every step of the run keeps the invariant.
LEMMA PipelineNextInv == PipelineInv /\ [Next]_vars => PipelineInv'
  <1> SUFFICES ASSUME PipelineInv, [Next]_vars PROVE PipelineInv'
    OBVIOUS
  <1>1. CASE \E o \in Operations : Progress(o)
    BY <1>1, ProgressInv
  <1>2. CASE \E h \in Plans : PassOn(h)
    BY <1>2, PassOnInv
  <1>3. CASE RequestStop \/ PollStop \/ \E byWatch \in BOOLEAN : Interrupt(byWatch)
    BY <1>3, StopsInv
  <1>4. CASE Conclude
    BY <1>4, ConcludeInv
  <1>5. CASE UNCHANGED vars
    <2> USE <1>5 DEF vars, PipelineInv
    <2>1. PermitsConserved'
      BY PermitsKept
    <2>2. TypeOK' /\ StopHasReason' /\ CancelHasReason' /\ QuestionsFollow'
      BY DEF TypeOK, StopHasReason, CancelHasReason, QuestionsFollow
    <2>3. BatchesInOrder' /\ Ended' /\ EndsTruly'
      BY DEF BatchesInOrder, IsBatch, Calls, Ended, EndsTruly, With
    <2> QED
      BY <2>1, <2>2, <2>3
  <1> QED
    BY <1>1, <1>2, <1>3, <1>4, <1>5 DEF Next

\* The invariant holds of every behaviour of the run.
THEOREM PipelineInvariant == Spec => []PipelineInv
  BY PipelineInitInv, PipelineNextInv, PTL DEF Spec

-----------------------------------------------------------------------------
(* What the runs check, for every value of the constants.                  *)

\* One failure cancels nobody, loses no permit and is not hidden behind another
\* end (_settle_pipeline_operations, admitted).
THEOREM FailuresAreKept == Spec => []FailuresKept
  <1>1. PipelineInv => FailuresKept
    <2> SUFFICES ASSUME PipelineInv PROVE FailuresKept
      OBVIOUS
    <2>1. FailureDrains
      BY DEF PipelineInv, CancelHasReason, FailureDrains, With
    <2>2. FailureReported
      BY DEF PipelineInv, EndsTruly, FailureReported
    <2> QED
      BY <2>1, <2>2 DEF PipelineInv, FailuresKept
  <1> QED
    BY <1>1, PipelineInvariant, PTL

\* The run returns only with a record of everything, reads no history that is not
\* whole, and never reaches the assertion on a record that is missing
\* (_execute_history_question_pipeline).
THEOREM ReturnsAreComplete == Spec => []ReturnedIsComplete
  <1>1. PipelineInv => ReturnedIsComplete
    <2> SUFFICES ASSUME PipelineInv PROVE ReturnedIsComplete
      OBVIOUS
    <2> USE PipelineAssumption DEF PipelineInv
    <2>1. RecordedIsWhole
      <3> SUFFICES ASSUME NEW h \in Plans, NEW q \in QuestionsOf(h), pc[q] # "idle"
                   PROVE  /\ pc[h] = "recorded"
                          /\ \A b \in 1..Batches : /\ attempts[h][b] > 0
                                                   /\ <<h, b>> \in skipped => attempts[h][b] = MaxAttempts
        BY DEF RecordedIsWhole
      <3>1. pc[h] = "recorded" /\ at[h] = Batches + 3
        BY DEF QuestionsOf, QuestionsFollow, BatchesInOrder, Calls
      <3>2. \A b \in 1..Batches : attempts[h][b] \in Nat /\ attempts[h][b] # 0
        BY <3>1 DEF BatchesInOrder, TypeOK
      <3> QED
        BY <3>1, <3>2 DEF BatchesInOrder
    <2> QED
      BY <2>1 DEF EndsTruly, ReturnedIsComplete
  <1> QED
    BY <1>1, PipelineInvariant, PTL

\* With admission stopped or a stop requested, no waiting operation begins, no
\* batch is sent or sent again and no answer or judge call is made (admitted,
\* _raise_if_stop_requested).
THEOREM StopStartsNothing == Spec => NothingStartedAfterStop
  <1> DEFINE Quiet(o) == /\ pc[o] = "queued" => pc'[o] # "running"
                         /\ pc[o] = "resting" => pc'[o] # "running"
                         /\ (o \in Plans \/ at[o] >= 3) => at'[o] = at[o]
  <1>1. PipelineInv /\ [Next]_vars => [Closed => \A o \in Operations : Quiet(o)]_vars
    <2> SUFFICES ASSUME PipelineInv, Next, Closed, NEW o \in Operations
                 PROVE  Quiet(o)
      OBVIOUS
    <2> USE PipelineAssumption DEF PipelineInv, TypeOK
    <2>1. stop
      BY DEF Closed, StopHasReason
    <2>2. ASSUME NEW x \in Operations, NEW how \in Over, Settle(x, how), at' = at
          PROVE  Quiet(o)
      BY <2>2 DEF Settle, Over
    <2>3. ASSUME NEW x \in Operations, Proceed(x), Calling(x)
          PROVE  Quiet(o)
      <3>1. CASE at' = at
        BY <2>2, <2>3, <3>1 DEF Proceed, Over
      <3>2. CASE ~Checked(x, at[x] + 1) /\ at' = [at EXCEPT ![x] = at[x] + 1] /\ pc' = pc
        BY <3>2 DEF Checked
      <3> QED
        BY <2>1, <2>3, <3>1, <3>2 DEF Proceed
    <2>4. ASSUME NEW x \in Operations, Progress(x)
          PROVE  Quiet(o)
      <3>1. CASE Enter(x) \/ Admit(x)
        BY <3>1 DEF Enter, Admit
      <3>2. CASE Return(x)
        BY <2>3, <3>2 DEF Return
      <3>3. CASE CaseEnds(x) \/ StageStops(x) \/ Fail(x)
        BY <2>2, <3>3 DEF CaseEnds, StageStops, Fail, Over
      <3>4. CASE Transient(x)
        BY <2>3, <3>4 DEF Transient, Rest
      <3>5. CASE Retry(x)
        BY <2>1, <2>2, <3>5 DEF Retry, Over
      <3>6. CASE \E clean \in BOOLEAN : Cancelled(x, clean)
        BY <2>2, <3>6 DEF Cancelled, Over
      <3> QED
        BY <2>4, <3>1, <3>2, <3>3, <3>4, <3>5, <3>6 DEF Progress
    <2>5. ASSUME UNCHANGED <<pc, at>>
          PROVE  Quiet(o)
      BY <2>5
    <2> QED
      BY <2>4, <2>5 DEF Next, PassOn, RequestStop, PollStop, Conclude, Interrupt
  <1> QED
    BY <1>1, PipelineInvariant, PTL DEF Spec, NothingStartedAfterStop
=============================================================================
