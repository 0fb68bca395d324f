----------------------- MODULE NativeSupervisorProofs -----------------------
(***************************************************************************)
(* A run and its supervisor, for any number of clients and of signals.     *)
(* The supervisor acts on what it was told, which is older than what the   *)
(* child has done since.  The invariant says how far the two can be apart: *)
(* the messages on their way, read after the close the supervisor believes *)
(* to be going on, alternate between a start and an end and lead to where  *)
(* the child is; a report is the last of them; and until the supervisor    *)
(* seals the run, the errors of the closes are those of the clients that   *)
(* the child has passed.                                                   *)
(***************************************************************************)
EXTENDS NativeSupervisor, SequenceTheorems, TLAPS

\* The supervisor has not sealed anything yet.
Early == {"listening", "retiring", "joining", "sealing"}

\* The child makes no further step that this run's capsule would notice.
Over == {"leaving"} \cup Gone

Reports == {"ready", "failed"}

\* A close is going on for who has read i messages.
OpenAfter(i) == IF i = 0 THEN active # 0 ELSE pipe[i].kind = "started"

\* A close ends after it has begun, and a report comes last.
PipeOrdered ==
    \A i \in 1..Len(pipe) :
        /\ pipe[i].kind = "finished" <=> OpenAfter(i - 1)
        /\ pipe[i].kind = "started" => pipe[i].client <= client
        /\ pipe[i].kind \in Reports => i = Len(pipe) /\ child \in Over
        /\ pipe[i].kind = "ready" => error = "none" /\ closed = 1..Clients

\* Who has read every message knows whether the child is in a close.
PipeLeadsToChild ==
    /\ child = "closing" => OpenAfter(Len(pipe))
    /\ child \notin Gone \cup {"closing"} => ~OpenAfter(Len(pipe))
    /\ active <= client

\* The child passes the clients in their order.
ChildInOrder ==
    /\ child = "closing" => client <= Clients
    /\ child \in {"ending", "recorded", "sealed"} => client = Clients + 1
    /\ closed \subseteq 1..(client - 1)
    /\ boss \in Early => closeErrors = (1..(client - 1)) \ closed

\* The child seals its own failure after the closes, the record before the manifest.
ChildRecords ==
    /\ child \in {"recorded", "sealed"} => record = "aborted"
    /\ child = "sealed" => manifest
    /\ record # "none" /\ boss \in Early =>
          record = "aborted" /\ child \in {"recorded", "sealed"} \cup Over /\ ~OpenAfter(Len(pipe))

\* Why the supervisor is where it is.
BossHasReason ==
    /\ boss = "listening" => how = "none"
    /\ boss = "retiring" => how \in {"deadline", "forced"}
    /\ boss = "joining" => how \in {"success", "failed"}
    /\ boss = "sealing" => how \in {"success", "lost", "deadline", "forced"}
    /\ boss \in {"sealing", "finalizing", "releasing", "done"} => child \in Gone
    /\ boss = "sealing" /\ how = "success" => child = "exited"
    /\ how = "deadline" => active # 0
    /\ how \in {"success", "failed", "lost"} => pipe = << >> /\ child \in Over
    /\ how \in {"success", "failed"} => active = 0
    /\ how = "success" => error = "none" /\ closed = 1..Clients

\* What the supervisor has sealed of a failure by the time it releases.
FailureSealed ==
    /\ boss \in {"finalizing", "releasing", "done"} /\ how = "deadline" =>
          closed \cup closeErrors = 1..Clients
    /\ boss \in {"finalizing", "releasing", "done"} /\ how = "lost" => record = "aborted"
    /\ boss \in {"releasing", "done"} /\ how = "lost" /\ ~torn => manifest

\* Until the supervisor ends, the lease is held.
LeaseHeld == boss \notin {"done", "dead"} => lease = "held"

SupervisorInv ==
    /\ TypeOK /\ PipeOrdered /\ PipeLeadsToChild /\ ChildInOrder /\ ChildRecords
    /\ BossHasReason /\ FailureSealed /\ LeaseHeld
    /\ ReleasedIsTerminal /\ FinalizedIsClean

-----------------------------------------------------------------------------
\* A message of the child joins the end of the pipe.
LEMMA SendKeepsOrder ==
    ASSUME TypeOK, PipeOrdered, child \notin Over, NEW kind, NEW k,
           [kind |-> kind, client |-> k] \in Message, Send(kind, k),
           active' = active, client <= client', client' \in Nat,
           kind = "finished" <=> OpenAfter(Len(pipe)),
           kind = "started" => k <= client',
           kind \in Reports => child' \in Over,
           kind = "ready" => error' = "none" /\ closed' = 1..Clients
    PROVE  /\ pipe' \in Seq(Message)
           /\ PipeOrdered'
           /\ OpenAfter(Len(pipe))' <=> kind = "started"
  <1> DEFINE m == [kind |-> kind, client |-> k]
  <1>1. pipe \in Seq(Message) /\ client \in Nat /\ Len(pipe) \in Nat
    BY SupervisorAssumption DEF TypeOK
  <1>2. /\ pipe' \in Seq(Message) /\ Len(pipe') = Len(pipe) + 1
        /\ \A i \in 1..Len(pipe) : pipe'[i] = pipe[i]
        /\ pipe'[Len(pipe) + 1] = m
    BY <1>1, AppendProperties DEF Send
  <1>3. m.kind = kind /\ m.client = k
    OBVIOUS
  <1>4. PipeOrdered'
    <2> SUFFICES ASSUME NEW i \in 1..(Len(pipe) + 1)
                 PROVE  /\ pipe'[i].kind = "finished" <=> OpenAfter(i - 1)'
                        /\ pipe'[i].kind = "started" => pipe'[i].client <= client'
                        /\ pipe'[i].kind \in Reports => i = Len(pipe) + 1 /\ child' \in Over
                        /\ pipe'[i].kind = "ready" => error' = "none" /\ closed' = 1..Clients
      BY <1>2 DEF PipeOrdered
    <2>1. OpenAfter(i - 1)' <=> OpenAfter(i - 1)
      BY <1>1, <1>2 DEF OpenAfter
    <2>2. CASE i \in 1..Len(pipe)
      <3>1. pipe[i].kind = "started" => pipe[i].client \in Nat
        BY <1>1, <2>2, SupervisorAssumption DEF Message
      <3> QED
        BY <1>1, <1>2, <2>1, <2>2, <3>1 DEF PipeOrdered, Reports
    <2>3. CASE i = Len(pipe) + 1
      BY <1>1, <1>2, <1>3, <2>1, <2>3 DEF Reports
    <2> QED
      BY <1>1, <2>2, <2>3
  <1>5. OpenAfter(Len(pipe))' <=> kind = "started"
    BY <1>1, <1>2, <1>3 DEF OpenAfter
  <1> QED
    BY <1>2, <1>4, <1>5

\* A step that neither sends nor receives leaves the messages as they stand.
LEMMA QuietKeepsOrder ==
    ASSUME TypeOK, PipeOrdered, UNCHANGED <<pipe, active>>, client' = client,
           child \in Over => child' \in Over,
           child \in Over => error' = error /\ closed' = closed
    PROVE  PipeOrdered' /\ (OpenAfter(Len(pipe))' <=> OpenAfter(Len(pipe)))
  BY DEF PipeOrdered, OpenAfter, Reports

\* The supervisor takes the first message and believes it.
LEMMA ReceiveKeepsOrder ==
    ASSUME SupervisorInv, Receive
    PROVE  /\ pipe' \in Seq(Message) /\ active' \in 0..Clients /\ active' <= client
           /\ PipeOrdered'
           /\ OpenAfter(Len(pipe))' <=> OpenAfter(Len(pipe))
           /\ Head(pipe).kind \in Reports => pipe' = << >> /\ active' = 0 /\ child \in Over
           /\ Head(pipe).kind = "ready" => error = "none" /\ closed = 1..Clients
  <1> DEFINE m == Head(pipe)
  <1>1. /\ pipe \in Seq(Message) /\ pipe # << >> /\ client \in Nat /\ Len(pipe) \in Nat \ {0}
        /\ active \in 0..Clients
    BY SupervisorAssumption, EmptySeq DEF SupervisorInv, TypeOK, Receive
  <1>2. /\ m = pipe[1] /\ m \in Message
        /\ pipe' \in Seq(Message) /\ Len(pipe') = Len(pipe) - 1
        /\ \A i \in 1..(Len(pipe) - 1) : pipe'[i] = pipe[i + 1]
    BY <1>1, HeadTailProperties DEF Receive
  <1>3. /\ m.kind \in {"started", "finished"} \cup Reports
        /\ m.kind = "started" => m.client \in 1..Clients
    BY <1>2 DEF Message, Reports
  <1>4. /\ m.kind = "started" => active' = m.client
        /\ m.kind = "finished" => active' = 0
        /\ m.kind \in Reports => active' = active
    BY <1>3 DEF Receive, Reports
  <1>5. /\ m.kind = "finished" <=> active # 0
        /\ m.kind = "started" => m.client <= client
        /\ m.kind \in Reports => Len(pipe) = 1 /\ child \in Over
        /\ m.kind = "ready" => error = "none" /\ closed = 1..Clients
    BY <1>1, <1>2 DEF SupervisorInv, PipeOrdered, OpenAfter
  <1>6. active' # 0 <=> m.kind = "started"
    BY <1>3, <1>4, <1>5 DEF Reports
  <1>7. \A i \in 0..(Len(pipe) - 1) : OpenAfter(i)' <=> OpenAfter(i + 1)
    BY <1>1, <1>2, <1>6 DEF OpenAfter
  <1>8. PipeOrdered'
    <2> SUFFICES ASSUME NEW i \in 1..(Len(pipe) - 1)
                 PROVE  /\ pipe[i + 1].kind = "finished" <=> OpenAfter(i)
                        /\ pipe[i + 1].kind = "started" => pipe[i + 1].client <= client
                        /\ pipe[i + 1].kind \in Reports => i = Len(pipe) - 1 /\ child \in Over
                        /\ pipe[i + 1].kind = "ready" => error = "none" /\ closed = 1..Clients
      <3>1. UNCHANGED <<client, child, error, closed>>
        BY DEF Receive, childVars
      <3>2. \A i \in 1..(Len(pipe) - 1) : OpenAfter(i - 1)' <=> OpenAfter(i)
        BY <1>1, <1>7
      <3> QED
        BY <1>2, <3>1, <3>2 DEF PipeOrdered
    <2> QED
      BY <1>1 DEF SupervisorInv, PipeOrdered
  <1>9. OpenAfter(Len(pipe))' <=> OpenAfter(Len(pipe))
    BY <1>1, <1>2, <1>7
  <1>10. m.kind \in Reports => pipe' = << >> /\ active' = 0
    <2> SUFFICES ASSUME m.kind \in Reports PROVE pipe' = << >> /\ active' = 0
      OBVIOUS
    <2>1. Len(pipe') = 0
      BY <1>2, <1>5
    <2> QED
      BY <1>2, <1>4, <1>5, <2>1, EmptySeq DEF Reports
  <1> QED
    BY <1>1, <1>2, <1>3, <1>4, <1>5, <1>8, <1>9, <1>10, SupervisorAssumption
       DEF SupervisorInv, PipeLeadsToChild, TypeOK, Reports





-----------------------------------------------------------------------------
\* The run starts with an empty pipe, the supervisor listening.
LEMMA SupervisorInitInv == Init => SupervisorInv
  <1> SUFFICES ASSUME Init PROVE SupervisorInv
    OBVIOUS
  <1> USE SupervisorAssumption DEF Init, Gone, Over, Early
  <1>0. pipe \in Seq(Message)
    BY EmptySeq
  <1>1. TypeOK
    <2>1. client \in 1..(Clients + 1) /\ active \in 0..Clients /\ signals \in 0..MaxSignals
      OBVIOUS
    <2> QED
      BY <1>0, <2>1 DEF TypeOK
  <1>2. PipeOrdered /\ PipeLeadsToChild
    BY EmptySeq DEF PipeOrdered, PipeLeadsToChild, OpenAfter
  <1>3. ChildInOrder /\ ChildRecords
    BY DEF ChildInOrder, ChildRecords
  <1>4. BossHasReason /\ FailureSealed /\ LeaseHeld
    BY DEF BossHasReason, FailureSealed, LeaseHeld
  <1>5. ReleasedIsTerminal /\ FinalizedIsClean
    BY DEF ReleasedIsTerminal, FinalizedIsClean
  <1> QED
    BY <1>1, <1>2, <1>3, <1>4, <1>5 DEF SupervisorInv

-----------------------------------------------------------------------------
\* The closes begin with the first client.
LEMMA ExecuteInv ==
    ASSUME SupervisorInv, NEW e \in ExecutionEnds, Execute(e)
    PROVE  SupervisorInv'
  <1> USE SupervisorAssumption DEF SupervisorInv, Execute, Gone, Over, Early, bossVars, childVars, capsule, ExecutionEnds
  <1>1. PipeOrdered' /\ (OpenAfter(Len(pipe))' <=> OpenAfter(Len(pipe)))
    BY QuietKeepsOrder
  <1>2. TypeOK'
    BY DEF TypeOK
  <1>3. PipeLeadsToChild'
    BY <1>1 DEF TypeOK, PipeLeadsToChild, ChildInOrder
  <1>4. ChildInOrder'
    BY DEF TypeOK, ChildInOrder, PipeLeadsToChild
  <1>5. ChildRecords'
    BY <1>1 DEF TypeOK, ChildRecords, PipeLeadsToChild
  <1>6. BossHasReason'
    BY DEF TypeOK, BossHasReason
  <1>7. FailureSealed' /\ LeaseHeld'
    BY DEF TypeOK, FailureSealed, LeaseHeld, BossHasReason
  <1>8. ReleasedIsTerminal' /\ FinalizedIsClean'
    BY DEF TypeOK, ReleasedIsTerminal, FinalizedIsClean, LeaseHeld, BossHasReason, UnknownReported
  <1> QED
    BY <1>1, <1>2, <1>3, <1>4, <1>5, <1>6, <1>7, <1>8

\* A run that cannot be set up reports before it has closed anything.
LEMMA SetupFailsInv ==
    ASSUME SupervisorInv, SetupFails
    PROVE  SupervisorInv'
  <1> USE SupervisorAssumption DEF SupervisorInv, SetupFails, Gone, Over, Early, bossVars, childVars, capsule
  <1>0. [kind |-> "failed", client |-> 0] \in Message
    BY DEF TypeOK, Message, ChildInOrder
  <1>1. pipe' \in Seq(Message) /\ PipeOrdered' /\ (OpenAfter(Len(pipe))' <=> FALSE)
    BY <1>0, SendKeepsOrder DEF TypeOK, PipeLeadsToChild, Reports, ChildInOrder, Failed
  <1>2. TypeOK'
    BY <1>1 DEF TypeOK, ChildInOrder
  <1>3. PipeLeadsToChild'
    BY <1>1 DEF TypeOK, PipeLeadsToChild, ChildInOrder
  <1>4. ChildInOrder'
    BY DEF TypeOK, ChildInOrder, PipeLeadsToChild
  <1>5. ChildRecords'
    BY <1>1 DEF TypeOK, ChildRecords, PipeLeadsToChild
  <1>6. BossHasReason'
    BY DEF TypeOK, BossHasReason
  <1>7. FailureSealed' /\ LeaseHeld'
    BY DEF TypeOK, FailureSealed, LeaseHeld, BossHasReason
  <1>8. ReleasedIsTerminal' /\ FinalizedIsClean'
    BY DEF TypeOK, ReleasedIsTerminal, FinalizedIsClean, LeaseHeld, BossHasReason, UnknownReported
  <1> QED
    BY <1>1, <1>2, <1>3, <1>4, <1>5, <1>6, <1>7, <1>8

\* A close is announced.
LEMMA StartCloseInv ==
    ASSUME SupervisorInv, StartClose
    PROVE  SupervisorInv'
  <1> USE SupervisorAssumption DEF SupervisorInv, StartClose, Gone, Over, Early, bossVars, childVars, capsule
  <1>0. [kind |-> "started", client |-> client] \in Message
    BY DEF TypeOK, Message, ChildInOrder
  <1>1. pipe' \in Seq(Message) /\ PipeOrdered' /\ (OpenAfter(Len(pipe))' <=> TRUE)
    BY <1>0, SendKeepsOrder DEF TypeOK, PipeLeadsToChild, Reports, ChildInOrder, Failed
  <1>2. TypeOK'
    BY <1>1 DEF TypeOK, ChildInOrder
  <1>3. PipeLeadsToChild'
    BY <1>1 DEF TypeOK, PipeLeadsToChild, ChildInOrder
  <1>4. ChildInOrder'
    BY DEF TypeOK, ChildInOrder, PipeLeadsToChild
  <1>5. ChildRecords'
    BY <1>1 DEF TypeOK, ChildRecords, PipeLeadsToChild
  <1>6. BossHasReason'
    BY DEF TypeOK, BossHasReason
  <1>7. FailureSealed' /\ LeaseHeld'
    BY DEF TypeOK, FailureSealed, LeaseHeld, BossHasReason
  <1>8. ReleasedIsTerminal' /\ FinalizedIsClean'
    BY DEF TypeOK, ReleasedIsTerminal, FinalizedIsClean, LeaseHeld, BossHasReason, UnknownReported
  <1> QED
    BY <1>1, <1>2, <1>3, <1>4, <1>5, <1>6, <1>7, <1>8

\* A close that has ended, one way or the other, is announced.
LEMMA FinishCloseInv ==
    ASSUME SupervisorInv, NEW ok \in BOOLEAN, FinishClose(ok)
    PROVE  SupervisorInv'
  <1> USE SupervisorAssumption DEF SupervisorInv, FinishClose, Gone, Over, Early, bossVars, childVars, capsule
  <1>0. [kind |-> "finished", client |-> client] \in Message
    BY DEF TypeOK, Message, ChildInOrder
  <1>1. pipe' \in Seq(Message) /\ PipeOrdered' /\ (OpenAfter(Len(pipe))' <=> FALSE)
    BY <1>0, SendKeepsOrder DEF TypeOK, PipeLeadsToChild, Reports, ChildInOrder, Failed
  <1>2. TypeOK'
    <2>1. client \in 1..Clients /\ client' \in 1..(Clients + 1)
      BY DEF TypeOK, ChildInOrder
    <2>2. closed' \subseteq 1..Clients /\ closeErrors' \subseteq 1..Clients
      BY <2>1 DEF TypeOK
    <2> QED
      BY <1>1, <2>1, <2>2 DEF TypeOK
  <1>3. PipeLeadsToChild'
    BY <1>1 DEF TypeOK, PipeLeadsToChild, ChildInOrder
  <1>4. ChildInOrder'
    <2>1. client \in 1..Clients /\ client' = client + 1
      BY DEF TypeOK, ChildInOrder
    <2>2. 1..client = 1..(client - 1) \cup {client} /\ client \notin 1..(client - 1)
      BY <2>1
    <2>3. closed' \subseteq 1..client
      BY <2>1, <2>2 DEF ChildInOrder
    <2>4. boss \in Early => closeErrors' = (1..client) \ closed'
      BY <2>1, <2>2 DEF ChildInOrder
    <2> QED
      BY <2>1, <2>3, <2>4 DEF ChildInOrder
  <1>5. ChildRecords'
    BY <1>1 DEF TypeOK, ChildRecords, PipeLeadsToChild
  <1>6. BossHasReason'
    BY DEF TypeOK, BossHasReason
  <1>7. FailureSealed' /\ LeaseHeld'
    BY DEF TypeOK, FailureSealed, LeaseHeld, BossHasReason
  <1>8. ReleasedIsTerminal' /\ FinalizedIsClean'
    BY DEF TypeOK, ReleasedIsTerminal, FinalizedIsClean, LeaseHeld, BossHasReason, UnknownReported
  <1> QED
    BY <1>1, <1>2, <1>3, <1>4, <1>5, <1>6, <1>7, <1>8

\* After the last client the child looks for its supervisor.
LEMMA ConcludeInv ==
    ASSUME SupervisorInv, Conclude
    PROVE  SupervisorInv'
  <1> USE SupervisorAssumption DEF SupervisorInv, Conclude, Gone, Over, Early, bossVars, childVars, capsule
  <1>1. PipeOrdered' /\ (OpenAfter(Len(pipe))' <=> OpenAfter(Len(pipe)))
    BY QuietKeepsOrder
  <1>2. TypeOK'
    BY DEF TypeOK
  <1>3. PipeLeadsToChild'
    BY <1>1 DEF TypeOK, PipeLeadsToChild, ChildInOrder
  <1>4. ChildInOrder'
    BY DEF TypeOK, ChildInOrder, PipeLeadsToChild
  <1>5. ChildRecords'
    BY <1>1 DEF TypeOK, ChildRecords, PipeLeadsToChild
  <1>6. BossHasReason'
    BY DEF TypeOK, BossHasReason
  <1>7. FailureSealed' /\ LeaseHeld'
    BY DEF TypeOK, FailureSealed, LeaseHeld, BossHasReason
  <1>8. ReleasedIsTerminal' /\ FinalizedIsClean'
    BY DEF TypeOK, ReleasedIsTerminal, FinalizedIsClean, LeaseHeld, BossHasReason, UnknownReported
  <1> QED
    BY <1>1, <1>2, <1>3, <1>4, <1>5, <1>6, <1>7, <1>8

\* Only a run that has closed every client is reported ready.
LEMMA ReportReadyInv ==
    ASSUME SupervisorInv, ReportReady
    PROVE  SupervisorInv'
  <1> USE SupervisorAssumption DEF SupervisorInv, ReportReady, Gone, Over, Early, bossVars, childVars, capsule, Failed
  <1>0. [kind |-> "ready", client |-> 0] \in Message
    BY DEF TypeOK, Message, ChildInOrder
  <1>1. pipe' \in Seq(Message) /\ PipeOrdered' /\ (OpenAfter(Len(pipe))' <=> FALSE)
    BY <1>0, SendKeepsOrder DEF TypeOK, PipeLeadsToChild, Reports, ChildInOrder, Failed
  <1>2. TypeOK'
    BY <1>1 DEF TypeOK, ChildInOrder
  <1>3. PipeLeadsToChild'
    BY <1>1 DEF TypeOK, PipeLeadsToChild, ChildInOrder
  <1>4. ChildInOrder'
    BY DEF TypeOK, ChildInOrder, PipeLeadsToChild
  <1>5. ChildRecords'
    BY <1>1 DEF TypeOK, ChildRecords, PipeLeadsToChild
  <1>6. BossHasReason'
    BY DEF TypeOK, BossHasReason
  <1>7. FailureSealed' /\ LeaseHeld'
    BY DEF TypeOK, FailureSealed, LeaseHeld, BossHasReason
  <1>8. ReleasedIsTerminal' /\ FinalizedIsClean'
    BY DEF TypeOK, ReleasedIsTerminal, FinalizedIsClean, LeaseHeld, BossHasReason, UnknownReported
  <1> QED
    BY <1>1, <1>2, <1>3, <1>4, <1>5, <1>6, <1>7, <1>8

\* A failure is recorded when no close is going on.
LEMMA RecordFailureInv ==
    ASSUME SupervisorInv, RecordFailure
    PROVE  SupervisorInv'
  <1> USE SupervisorAssumption DEF SupervisorInv, RecordFailure, Gone, Over, Early, bossVars, childVars, capsule
  <1>1. PipeOrdered' /\ (OpenAfter(Len(pipe))' <=> OpenAfter(Len(pipe)))
    BY QuietKeepsOrder
  <1>2. TypeOK'
    BY DEF TypeOK
  <1>3. PipeLeadsToChild'
    BY <1>1 DEF TypeOK, PipeLeadsToChild, ChildInOrder
  <1>4. ChildInOrder'
    BY DEF TypeOK, ChildInOrder, PipeLeadsToChild
  <1>5. ChildRecords'
    BY <1>1 DEF TypeOK, ChildRecords, PipeLeadsToChild
  <1>6. BossHasReason'
    BY DEF TypeOK, BossHasReason
  <1>7. FailureSealed' /\ LeaseHeld'
    BY DEF TypeOK, FailureSealed, LeaseHeld, BossHasReason
  <1>8. ReleasedIsTerminal' /\ FinalizedIsClean'
    BY DEF TypeOK, ReleasedIsTerminal, FinalizedIsClean, LeaseHeld, BossHasReason, UnknownReported
  <1> QED
    BY <1>1, <1>2, <1>3, <1>4, <1>5, <1>6, <1>7, <1>8

\* The manifest follows the record.
LEMMA SealFailureInv ==
    ASSUME SupervisorInv, SealFailure
    PROVE  SupervisorInv'
  <1> USE SupervisorAssumption DEF SupervisorInv, SealFailure, Gone, Over, Early, bossVars, childVars, capsule
  <1>1. PipeOrdered' /\ (OpenAfter(Len(pipe))' <=> OpenAfter(Len(pipe)))
    BY QuietKeepsOrder
  <1>2. TypeOK'
    BY DEF TypeOK
  <1>3. PipeLeadsToChild'
    BY <1>1 DEF TypeOK, PipeLeadsToChild, ChildInOrder
  <1>4. ChildInOrder'
    BY DEF TypeOK, ChildInOrder, PipeLeadsToChild
  <1>5. ChildRecords'
    BY <1>1 DEF TypeOK, ChildRecords, PipeLeadsToChild
  <1>6. BossHasReason'
    BY DEF TypeOK, BossHasReason
  <1>7. FailureSealed' /\ LeaseHeld'
    BY DEF TypeOK, FailureSealed, LeaseHeld, BossHasReason
  <1>8. ReleasedIsTerminal' /\ FinalizedIsClean'
    BY DEF TypeOK, ReleasedIsTerminal, FinalizedIsClean, LeaseHeld, BossHasReason, UnknownReported
  <1> QED
    BY <1>1, <1>2, <1>3, <1>4, <1>5, <1>6, <1>7, <1>8

\* The child reports its failure, and releases the lease only if it is alone.
LEMMA ReportFailureInv ==
    ASSUME SupervisorInv, ReportFailure
    PROVE  SupervisorInv'
  <1> USE SupervisorAssumption DEF SupervisorInv, ReportFailure, Gone, Over, Early, bossVars, childVars, capsule
  <1>0. [kind |-> "failed", client |-> 0] \in Message
    BY DEF TypeOK, Message, ChildInOrder
  <1>1. pipe' \in Seq(Message) /\ PipeOrdered' /\ (OpenAfter(Len(pipe))' <=> FALSE)
    BY <1>0, SendKeepsOrder DEF TypeOK, PipeLeadsToChild, Reports, ChildInOrder, Failed
  <1>2. TypeOK'
    BY <1>1 DEF TypeOK, ChildInOrder
  <1>3. PipeLeadsToChild'
    BY <1>1 DEF TypeOK, PipeLeadsToChild, ChildInOrder
  <1>4. ChildInOrder'
    BY DEF TypeOK, ChildInOrder, PipeLeadsToChild
  <1>5. ChildRecords'
    BY <1>1 DEF TypeOK, ChildRecords, PipeLeadsToChild
  <1>6. BossHasReason'
    BY DEF TypeOK, BossHasReason
  <1>7. FailureSealed' /\ LeaseHeld'
    BY DEF TypeOK, FailureSealed, LeaseHeld, BossHasReason
  <1>8. ReleasedIsTerminal' /\ FinalizedIsClean'
    BY DEF TypeOK, ReleasedIsTerminal, FinalizedIsClean, LeaseHeld, BossHasReason, UnknownReported, ChildRecords
  <1> QED
    BY <1>1, <1>2, <1>3, <1>4, <1>5, <1>6, <1>7, <1>8

\* The child has nothing left to do.
LEMMA ChildExitsInv ==
    ASSUME SupervisorInv, ChildExits
    PROVE  SupervisorInv'
  <1> USE SupervisorAssumption DEF SupervisorInv, ChildExits, Gone, Over, Early, bossVars, childVars, capsule
  <1>1. PipeOrdered' /\ (OpenAfter(Len(pipe))' <=> OpenAfter(Len(pipe)))
    BY QuietKeepsOrder
  <1>2. TypeOK'
    BY DEF TypeOK
  <1>3. PipeLeadsToChild'
    BY <1>1 DEF TypeOK, PipeLeadsToChild, ChildInOrder
  <1>4. ChildInOrder'
    BY DEF TypeOK, ChildInOrder, PipeLeadsToChild
  <1>5. ChildRecords'
    BY <1>1 DEF TypeOK, ChildRecords, PipeLeadsToChild
  <1>6. BossHasReason'
    BY DEF TypeOK, BossHasReason
  <1>7. FailureSealed' /\ LeaseHeld'
    BY DEF TypeOK, FailureSealed, LeaseHeld, BossHasReason
  <1>8. ReleasedIsTerminal' /\ FinalizedIsClean'
    BY DEF TypeOK, ReleasedIsTerminal, FinalizedIsClean, LeaseHeld, BossHasReason, UnknownReported
  <1> QED
    BY <1>1, <1>2, <1>3, <1>4, <1>5, <1>6, <1>7, <1>8

\* The child may die anywhere.
LEMMA ChildDiesInv ==
    ASSUME SupervisorInv, ChildDies
    PROVE  SupervisorInv'
  <1> USE SupervisorAssumption DEF SupervisorInv, ChildDies, Gone, Over, Early, bossVars, childVars, capsule, Killed
  <1>1. PipeOrdered' /\ (OpenAfter(Len(pipe))' <=> OpenAfter(Len(pipe)))
    BY QuietKeepsOrder
  <1>2. TypeOK'
    <2>1. torn' \in BOOLEAN /\ child' \in Gone
      BY DEF TypeOK
    <2> QED
      BY <2>1 DEF TypeOK
  <1>3. PipeLeadsToChild'
    BY <1>1 DEF TypeOK, PipeLeadsToChild, ChildInOrder
  <1>4. ChildInOrder'
    BY DEF TypeOK, ChildInOrder, PipeLeadsToChild
  <1>5. ChildRecords'
    BY <1>1 DEF TypeOK, ChildRecords, PipeLeadsToChild
  <1>6. BossHasReason'
    BY DEF TypeOK, BossHasReason
  <1>7. FailureSealed' /\ LeaseHeld'
    BY DEF TypeOK, FailureSealed, LeaseHeld, BossHasReason
  <1>8. ReleasedIsTerminal' /\ FinalizedIsClean'
    BY DEF TypeOK, ReleasedIsTerminal, FinalizedIsClean, LeaseHeld, BossHasReason, UnknownReported
  <1> QED
    BY <1>1, <1>2, <1>3, <1>4, <1>5, <1>6, <1>7, <1>8

\* The watch interrupts the execution, or makes the close that goes on fail.
LEMMA InterruptInv ==
    ASSUME SupervisorInv, Interrupt
    PROVE  SupervisorInv'
  <1>1. CASE child = "executing"
    <2> USE <1>1, SupervisorAssumption DEF SupervisorInv, Interrupt, Gone, Over, Early, bossVars, childVars
    <2>1. PipeOrdered' /\ (OpenAfter(Len(pipe))' <=> OpenAfter(Len(pipe)))
      BY QuietKeepsOrder
    <2>2. TypeOK'
      <3>1. /\ child' = "between" /\ error' = "interrupted" /\ armed' = TRUE
            /\ UNCHANGED <<client, closeErrors, pipe, closed, torn, bossVars, record, manifest, lease, ownerGone>>
        OBVIOUS
      <3> HIDE DEF Interrupt
      <3> QED
        BY <3>1 DEF TypeOK
    <2>3. PipeLeadsToChild' /\ ChildInOrder'
      BY <2>1 DEF TypeOK, PipeLeadsToChild, ChildInOrder
    <2>4. ChildRecords' /\ BossHasReason'
      BY <2>1 DEF TypeOK, ChildRecords, BossHasReason
    <2>5. FailureSealed' /\ LeaseHeld' /\ ReleasedIsTerminal' /\ FinalizedIsClean'
      BY DEF TypeOK, FailureSealed, LeaseHeld, ReleasedIsTerminal, FinalizedIsClean, BossHasReason,
             UnknownReported
    <2> QED
      BY <2>1, <2>2, <2>3, <2>4, <2>5
  <1>2. CASE child = "closing"
    <2> USE <1>2, SupervisorAssumption DEF SupervisorInv, Interrupt, Gone, Over, Early, bossVars, childVars
    <2>0. [kind |-> "finished", client |-> client] \in Message
      BY DEF TypeOK, Message, ChildInOrder
    <2>1. pipe' \in Seq(Message) /\ PipeOrdered' /\ ~OpenAfter(Len(pipe))'
      BY <2>0, SendKeepsOrder DEF TypeOK, PipeLeadsToChild, Reports, ChildInOrder
    <2>2. TypeOK'
      <3>1. client \in 1..Clients
        BY DEF TypeOK, ChildInOrder
      <3>2. client' \in 1..(Clients + 1)
        BY <3>1
      <3>3. closeErrors' \subseteq 1..Clients
        BY <3>1 DEF TypeOK
      <3> QED
        BY <2>1, <3>2, <3>3 DEF TypeOK
    <2>3. PipeLeadsToChild' /\ ChildInOrder'
      BY <2>1 DEF TypeOK, PipeLeadsToChild, ChildInOrder
    <2>4. ChildRecords' /\ BossHasReason'
      BY <2>1 DEF TypeOK, ChildRecords, BossHasReason
    <2>5. FailureSealed' /\ LeaseHeld' /\ ReleasedIsTerminal' /\ FinalizedIsClean'
      BY DEF TypeOK, FailureSealed, LeaseHeld, ReleasedIsTerminal, FinalizedIsClean, BossHasReason,
             UnknownReported
    <2> QED
      BY <2>1, <2>2, <2>3, <2>4, <2>5
  <1> QED
    BY <1>1, <1>2 DEF Interrupt

-----------------------------------------------------------------------------
\* A signal is counted.
LEMMA SignalInv ==
    ASSUME SupervisorInv, Signal
    PROVE  SupervisorInv'
  <1> USE SupervisorAssumption DEF SupervisorInv, Signal, Gone, Over, Early, bossVars, childVars, capsule
  <1>1. PipeOrdered' /\ (OpenAfter(Len(pipe))' <=> OpenAfter(Len(pipe)))
    BY QuietKeepsOrder
  <1>2. TypeOK'
    BY DEF TypeOK
  <1>3. PipeLeadsToChild'
    BY <1>1 DEF TypeOK, PipeLeadsToChild, ChildInOrder
  <1>4. ChildInOrder'
    BY DEF TypeOK, ChildInOrder, PipeLeadsToChild
  <1>5. ChildRecords'
    BY <1>1 DEF TypeOK, ChildRecords, PipeLeadsToChild
  <1>6. BossHasReason'
    BY DEF TypeOK, BossHasReason
  <1>7. FailureSealed' /\ LeaseHeld'
    BY DEF TypeOK, FailureSealed, LeaseHeld, BossHasReason
  <1>8. ReleasedIsTerminal' /\ FinalizedIsClean'
    BY DEF TypeOK, ReleasedIsTerminal, FinalizedIsClean, LeaseHeld, BossHasReason, UnknownReported
  <1> QED
    BY <1>1, <1>2, <1>3, <1>4, <1>5, <1>6, <1>7, <1>8

\* A second signal ends the listening.
LEMMA ForceStopInv ==
    ASSUME SupervisorInv, ForceStop
    PROVE  SupervisorInv'
  <1> USE SupervisorAssumption DEF SupervisorInv, ForceStop, Gone, Over, Early, bossVars, childVars, capsule
  <1>1. PipeOrdered' /\ (OpenAfter(Len(pipe))' <=> OpenAfter(Len(pipe)))
    BY QuietKeepsOrder
  <1>2. TypeOK'
    BY DEF TypeOK
  <1>3. PipeLeadsToChild'
    BY <1>1 DEF TypeOK, PipeLeadsToChild, ChildInOrder
  <1>4. ChildInOrder'
    BY DEF TypeOK, ChildInOrder, PipeLeadsToChild
  <1>5. ChildRecords'
    BY <1>1 DEF TypeOK, ChildRecords, PipeLeadsToChild
  <1>6. BossHasReason'
    BY DEF TypeOK, BossHasReason
  <1>7. FailureSealed' /\ LeaseHeld'
    BY DEF TypeOK, FailureSealed, LeaseHeld, BossHasReason
  <1>8. ReleasedIsTerminal' /\ FinalizedIsClean'
    BY DEF TypeOK, ReleasedIsTerminal, FinalizedIsClean, LeaseHeld, BossHasReason, UnknownReported
  <1> QED
    BY <1>1, <1>2, <1>3, <1>4, <1>5, <1>6, <1>7, <1>8

\* A message is believed, a report ends the listening.
LEMMA ReceiveInv ==
    ASSUME SupervisorInv, Receive
    PROVE  SupervisorInv'
  <1> USE SupervisorAssumption DEF SupervisorInv, Receive, Gone, Over, Early, bossVars, childVars, capsule
  <1>1. PipeOrdered' /\ (OpenAfter(Len(pipe))' <=> OpenAfter(Len(pipe)))
    BY ReceiveKeepsOrder
  <1>2. TypeOK'
    BY ReceiveKeepsOrder DEF TypeOK
  <1>3. PipeLeadsToChild'
    BY <1>1, ReceiveKeepsOrder DEF TypeOK, PipeLeadsToChild, ChildInOrder
  <1>4. ChildInOrder'
    BY DEF TypeOK, ChildInOrder, PipeLeadsToChild
  <1>5. ChildRecords'
    BY <1>1 DEF TypeOK, ChildRecords, PipeLeadsToChild
  <1>6. BossHasReason'
    BY ReceiveKeepsOrder DEF TypeOK, BossHasReason, Reports
  <1>7. FailureSealed' /\ LeaseHeld'
    BY DEF TypeOK, FailureSealed, LeaseHeld, BossHasReason
  <1>8. ReleasedIsTerminal' /\ FinalizedIsClean'
    BY DEF TypeOK, ReleasedIsTerminal, FinalizedIsClean, LeaseHeld, BossHasReason, UnknownReported
  <1> QED
    BY <1>1, <1>2, <1>3, <1>4, <1>5, <1>6, <1>7, <1>8

\* Only a close that was announced can be late.
LEMMA CloseDeadlineInv ==
    ASSUME SupervisorInv, CloseDeadline
    PROVE  SupervisorInv'
  <1> USE SupervisorAssumption DEF SupervisorInv, CloseDeadline, Gone, Over, Early, bossVars, childVars, capsule
  <1>1. PipeOrdered' /\ (OpenAfter(Len(pipe))' <=> OpenAfter(Len(pipe)))
    BY QuietKeepsOrder
  <1>2. TypeOK'
    BY DEF TypeOK
  <1>3. PipeLeadsToChild'
    BY <1>1 DEF TypeOK, PipeLeadsToChild, ChildInOrder
  <1>4. ChildInOrder'
    BY DEF TypeOK, ChildInOrder, PipeLeadsToChild
  <1>5. ChildRecords'
    BY <1>1 DEF TypeOK, ChildRecords, PipeLeadsToChild
  <1>6. BossHasReason'
    BY DEF TypeOK, BossHasReason
  <1>7. FailureSealed' /\ LeaseHeld'
    BY DEF TypeOK, FailureSealed, LeaseHeld, BossHasReason
  <1>8. ReleasedIsTerminal' /\ FinalizedIsClean'
    BY DEF TypeOK, ReleasedIsTerminal, FinalizedIsClean, LeaseHeld, BossHasReason, UnknownReported
  <1> QED
    BY <1>1, <1>2, <1>3, <1>4, <1>5, <1>6, <1>7, <1>8

\* A child that is gone sends nothing more.
LEMMA ChildLostInv ==
    ASSUME SupervisorInv, ChildLost
    PROVE  SupervisorInv'
  <1> USE SupervisorAssumption DEF SupervisorInv, ChildLost, Gone, Over, Early, bossVars, childVars, capsule
  <1>1. PipeOrdered' /\ (OpenAfter(Len(pipe))' <=> OpenAfter(Len(pipe)))
    BY QuietKeepsOrder
  <1>2. TypeOK'
    BY DEF TypeOK
  <1>3. PipeLeadsToChild'
    BY <1>1 DEF TypeOK, PipeLeadsToChild, ChildInOrder
  <1>4. ChildInOrder'
    BY DEF TypeOK, ChildInOrder, PipeLeadsToChild
  <1>5. ChildRecords'
    BY <1>1 DEF TypeOK, ChildRecords, PipeLeadsToChild
  <1>6. BossHasReason'
    BY DEF TypeOK, BossHasReason
  <1>7. FailureSealed' /\ LeaseHeld'
    BY DEF TypeOK, FailureSealed, LeaseHeld, BossHasReason
  <1>8. ReleasedIsTerminal' /\ FinalizedIsClean'
    BY DEF TypeOK, ReleasedIsTerminal, FinalizedIsClean, LeaseHeld, BossHasReason, UnknownReported
  <1> QED
    BY <1>1, <1>2, <1>3, <1>4, <1>5, <1>6, <1>7, <1>8

\* The child is killed before anything is sealed.
LEMMA RetireInv ==
    ASSUME SupervisorInv, Retire
    PROVE  SupervisorInv'
  <1> USE SupervisorAssumption DEF SupervisorInv, Retire, Gone, Over, Early, bossVars, childVars, capsule, Killed
  <1>1. PipeOrdered' /\ (OpenAfter(Len(pipe))' <=> OpenAfter(Len(pipe)))
    BY QuietKeepsOrder
  <1>2. TypeOK'
    <2>1. torn' \in BOOLEAN /\ child' \in Gone
      BY DEF TypeOK
    <2> QED
      BY <2>1 DEF TypeOK
  <1>3. PipeLeadsToChild'
    BY <1>1 DEF TypeOK, PipeLeadsToChild, ChildInOrder
  <1>4. ChildInOrder'
    BY DEF TypeOK, ChildInOrder, PipeLeadsToChild
  <1>5. ChildRecords'
    BY <1>1 DEF TypeOK, ChildRecords, PipeLeadsToChild
  <1>6. BossHasReason'
    BY DEF TypeOK, BossHasReason
  <1>7. FailureSealed' /\ LeaseHeld'
    BY DEF TypeOK, FailureSealed, LeaseHeld, BossHasReason
  <1>8. ReleasedIsTerminal' /\ FinalizedIsClean'
    BY DEF TypeOK, ReleasedIsTerminal, FinalizedIsClean, LeaseHeld, BossHasReason, UnknownReported
  <1> QED
    BY <1>1, <1>2, <1>3, <1>4, <1>5, <1>6, <1>7, <1>8

\* Only an exit after the report counts as one.
LEMMA JoinInv ==
    ASSUME SupervisorInv, Join
    PROVE  SupervisorInv'
  <1> USE SupervisorAssumption DEF SupervisorInv, Join, Gone, Over, Early, bossVars, childVars, capsule, Killed
  <1>1. PipeOrdered' /\ (OpenAfter(Len(pipe))' <=> OpenAfter(Len(pipe)))
    BY QuietKeepsOrder
  <1>2. TypeOK'
    <2>1. torn' \in BOOLEAN /\ child' \in Gone
      BY DEF TypeOK
    <2>2. boss' \in {"sealing", "releasing"} /\ how' \in {how, "lost"}
      OBVIOUS
    <2> QED
      BY <2>1, <2>2 DEF TypeOK
  <1>3. PipeLeadsToChild'
    BY <1>1 DEF TypeOK, PipeLeadsToChild, ChildInOrder
  <1>4. ChildInOrder'
    BY DEF TypeOK, ChildInOrder, PipeLeadsToChild
  <1>5. ChildRecords'
    BY <1>1 DEF TypeOK, ChildRecords, PipeLeadsToChild
  <1>6. BossHasReason'
    BY DEF TypeOK, BossHasReason
  <1>7. FailureSealed' /\ LeaseHeld'
    BY DEF TypeOK, FailureSealed, LeaseHeld, BossHasReason
  <1>8. ReleasedIsTerminal' /\ FinalizedIsClean'
    BY DEF TypeOK, ReleasedIsTerminal, FinalizedIsClean, LeaseHeld, BossHasReason, UnknownReported
  <1> QED
    BY <1>1, <1>2, <1>3, <1>4, <1>5, <1>6, <1>7, <1>8

\* The clients up to the active one are accounted by the child, the others here.
LEMMA SealRecordInv ==
    ASSUME SupervisorInv, SealRecord
    PROVE  SupervisorInv'
  <1> USE SupervisorAssumption DEF SupervisorInv, SealRecord, Gone, Over, Early, bossVars, childVars, capsule
  <1>1. PipeOrdered' /\ (OpenAfter(Len(pipe))' <=> OpenAfter(Len(pipe)))
    BY QuietKeepsOrder
  <1>2. TypeOK'
    BY DEF TypeOK
  <1>3. PipeLeadsToChild'
    BY <1>1 DEF TypeOK, PipeLeadsToChild, ChildInOrder
  <1>4. ChildInOrder'
    BY DEF TypeOK, ChildInOrder, PipeLeadsToChild
  <1>5. ChildRecords'
    BY <1>1 DEF TypeOK, ChildRecords, PipeLeadsToChild
  <1>6. BossHasReason'
    BY DEF TypeOK, BossHasReason
  <1>7. FailureSealed' /\ LeaseHeld'
    <2>1. how = "deadline" => closed \cup closeErrors' = 1..Clients
      <3> SUFFICES ASSUME how = "deadline" PROVE closed \cup closeErrors' = 1..Clients
        OBVIOUS
      <3>1. active \in 1..Clients /\ active <= client /\ client \in 1..(Clients + 1)
        BY DEF TypeOK, BossHasReason, PipeLeadsToChild
      <3>2. 1..(client - 1) \cup active..Clients = 1..Clients
        BY <3>1
      <3>3. closed \cup closeErrors = 1..(client - 1)
        BY DEF ChildInOrder
      <3>4. closeErrors' = closeErrors \cup active..Clients
        BY <3>1
      <3> QED
        BY <3>2, <3>3, <3>4
    <2>2. how = "lost" => record' = "aborted" /\ (record # "none" => ~(active # 0))
      BY EmptySeq DEF BossHasReason, ChildRecords, OpenAfter
    <2> QED
      BY <2>1, <2>2 DEF TypeOK, FailureSealed, LeaseHeld, BossHasReason
  <1>8. ReleasedIsTerminal'
    BY DEF TypeOK, ReleasedIsTerminal, LeaseHeld, BossHasReason, UnknownReported
  <1>9. FinalizedIsClean'
    BY DEF TypeOK, FinalizedIsClean, BossHasReason, ChildRecords, ChildInOrder
  <1> QED
    BY <1>1, <1>2, <1>3, <1>4, <1>5, <1>6, <1>7, <1>8, <1>9

\* The manifest of a run without torn records.
LEMMA FinalizeInv ==
    ASSUME SupervisorInv, Finalize
    PROVE  SupervisorInv'
  <1> USE SupervisorAssumption DEF SupervisorInv, Finalize, Gone, Over, Early, bossVars, childVars, capsule
  <1>1. PipeOrdered' /\ (OpenAfter(Len(pipe))' <=> OpenAfter(Len(pipe)))
    BY QuietKeepsOrder
  <1>2. TypeOK'
    BY DEF TypeOK
  <1>3. PipeLeadsToChild'
    BY <1>1 DEF TypeOK, PipeLeadsToChild, ChildInOrder
  <1>4. ChildInOrder'
    BY DEF TypeOK, ChildInOrder, PipeLeadsToChild
  <1>5. ChildRecords'
    BY <1>1 DEF TypeOK, ChildRecords, BossHasReason
  <1>6. BossHasReason'
    BY DEF TypeOK, BossHasReason
  <1>7. FailureSealed' /\ LeaseHeld'
    BY DEF TypeOK, FailureSealed, LeaseHeld, BossHasReason
  <1>8. ReleasedIsTerminal' /\ FinalizedIsClean'
    BY DEF TypeOK, ReleasedIsTerminal, FinalizedIsClean, LeaseHeld, BossHasReason, UnknownReported
  <1> QED
    BY <1>1, <1>2, <1>3, <1>4, <1>5, <1>6, <1>7, <1>8

\* The lease goes with a verified capsule.
LEMMA ReleaseInv ==
    ASSUME SupervisorInv, Release
    PROVE  SupervisorInv'
  <1> USE SupervisorAssumption DEF SupervisorInv, Release, Gone, Over, Early, bossVars, childVars, capsule, Verified
  <1>1. PipeOrdered' /\ (OpenAfter(Len(pipe))' <=> OpenAfter(Len(pipe)))
    BY QuietKeepsOrder
  <1>2. TypeOK'
    BY DEF TypeOK
  <1>3. PipeLeadsToChild'
    BY <1>1 DEF TypeOK, PipeLeadsToChild, ChildInOrder
  <1>4. ChildInOrder'
    BY DEF TypeOK, ChildInOrder, PipeLeadsToChild
  <1>5. ChildRecords'
    BY <1>1 DEF TypeOK, ChildRecords, PipeLeadsToChild
  <1>6. BossHasReason'
    BY DEF TypeOK, BossHasReason
  <1>7. FailureSealed' /\ LeaseHeld'
    BY DEF TypeOK, FailureSealed, LeaseHeld, BossHasReason
  <1>8. ReleasedIsTerminal' /\ FinalizedIsClean'
    BY DEF TypeOK, ReleasedIsTerminal, FinalizedIsClean, LeaseHeld, BossHasReason, UnknownReported
  <1> QED
    BY <1>1, <1>2, <1>3, <1>4, <1>5, <1>6, <1>7, <1>8

\* The supervisor may die anywhere.
LEMMA SupervisorDiesInv ==
    ASSUME SupervisorInv, SupervisorDies
    PROVE  SupervisorInv'
  <1> USE SupervisorAssumption DEF SupervisorInv, SupervisorDies, Gone, Over, Early, bossVars, childVars, capsule
  <1>1. PipeOrdered' /\ (OpenAfter(Len(pipe))' <=> OpenAfter(Len(pipe)))
    BY QuietKeepsOrder
  <1>2. TypeOK'
    BY DEF TypeOK
  <1>3. PipeLeadsToChild'
    BY <1>1 DEF TypeOK, PipeLeadsToChild, ChildInOrder
  <1>4. ChildInOrder'
    BY DEF TypeOK, ChildInOrder, PipeLeadsToChild
  <1>5. ChildRecords'
    BY <1>1 DEF TypeOK, ChildRecords, PipeLeadsToChild
  <1>6. BossHasReason'
    BY DEF TypeOK, BossHasReason
  <1>7. FailureSealed' /\ LeaseHeld'
    BY DEF TypeOK, FailureSealed, LeaseHeld, BossHasReason
  <1>8. ReleasedIsTerminal' /\ FinalizedIsClean'
    BY DEF TypeOK, ReleasedIsTerminal, FinalizedIsClean, LeaseHeld, BossHasReason, UnknownReported
  <1> QED
    BY <1>1, <1>2, <1>3, <1>4, <1>5, <1>6, <1>7, <1>8

\* The loss of another owner changes nothing by itself.
LEMMA OwnerExitsInv ==
    ASSUME SupervisorInv, OwnerExits
    PROVE  SupervisorInv'
  <1> USE SupervisorAssumption DEF SupervisorInv, OwnerExits, Gone, Over, Early, bossVars, childVars, capsule
  <1>1. PipeOrdered' /\ (OpenAfter(Len(pipe))' <=> OpenAfter(Len(pipe)))
    BY QuietKeepsOrder
  <1>2. TypeOK'
    BY DEF TypeOK
  <1>3. PipeLeadsToChild'
    BY <1>1 DEF TypeOK, PipeLeadsToChild, ChildInOrder
  <1>4. ChildInOrder'
    BY DEF TypeOK, ChildInOrder, PipeLeadsToChild
  <1>5. ChildRecords'
    BY <1>1 DEF TypeOK, ChildRecords, PipeLeadsToChild
  <1>6. BossHasReason'
    BY DEF TypeOK, BossHasReason
  <1>7. FailureSealed' /\ LeaseHeld'
    BY DEF TypeOK, FailureSealed, LeaseHeld, BossHasReason
  <1>8. ReleasedIsTerminal' /\ FinalizedIsClean'
    BY DEF TypeOK, ReleasedIsTerminal, FinalizedIsClean, LeaseHeld, BossHasReason, UnknownReported
  <1> QED
    BY <1>1, <1>2, <1>3, <1>4, <1>5, <1>6, <1>7, <1>8

-----------------------------------------------------------------------------
\* Every step of the two processes keeps the invariant.
LEMMA SupervisorNextInv == SupervisorInv /\ [Next]_vars => SupervisorInv'
  <1> SUFFICES ASSUME SupervisorInv, [Next]_vars PROVE SupervisorInv'
    OBVIOUS
  <1>1. CASE ChildWork
    BY <1>1, ExecuteInv, SetupFailsInv, StartCloseInv, ConcludeInv, ReportReadyInv, RecordFailureInv,
       SealFailureInv, ReportFailureInv, ChildExitsInv DEF ChildWork
  <1>2. CASE BossWork
    BY <1>2, ForceStopInv, ReceiveInv, CloseDeadlineInv, ChildLostInv, RetireInv, JoinInv,
       SealRecordInv, FinalizeInv, ReleaseInv DEF BossWork
  <1>3. CASE Interrupt \/ (\E ok \in BOOLEAN : FinishClose(ok)) \/ ChildDies
    BY <1>3, InterruptInv, FinishCloseInv, ChildDiesInv
  <1>4. CASE Signal \/ OwnerExits \/ SupervisorDies
    BY <1>4, SignalInv, OwnerExitsInv, SupervisorDiesInv
  <1>5. CASE UNCHANGED vars
    BY <1>5 DEF vars, childVars, bossVars, capsule, SupervisorInv, TypeOK, PipeOrdered, OpenAfter,
       PipeLeadsToChild, ChildInOrder, ChildRecords, BossHasReason, FailureSealed, LeaseHeld,
       ReleasedIsTerminal, FinalizedIsClean, UnknownReported
  <1> QED
    BY <1>1, <1>2, <1>3, <1>4, <1>5 DEF Next

\* The invariant holds of every run and its supervisor.
THEOREM SupervisorInvariant == Spec => []SupervisorInv
  BY SupervisorInitInv, SupervisorNextInv, PTL DEF Spec

\* For any number of clients and however messages, signals, deadlines, kills and
\* the death of either process fall: a run is finalized only if it executed,
\* closed every client and exited, and the lease goes only with a sealed
\* terminal record and with nothing left that calls a provider
\* (run_native_vertical_slice).
THEOREM TerminalStatesAreTruthful == Spec => []TerminalIsTruthful
  <1>1. SupervisorInv => TerminalIsTruthful
    BY DEF SupervisorInv, TerminalIsTruthful
  <1> QED
    BY <1>1, SupervisorInvariant, PTL

\* A supervisor that gave up on a close leaves every client closed or with its
\* error, and one that lost its child leaves an aborted capsule with a manifest
\* (_seal_supervised_close_abort,
\* _seal_supervised_process_abort).
THEOREM FailuresAreAccounted == Spec => []FailureAccounted
  <1>1. SupervisorInv => FailureAccounted
    BY DEF SupervisorInv, FailureSealed, FailureAccounted, ClosesAccounted, LossLeavesRoot
  <1> QED
    BY <1>1, SupervisorInvariant, PTL
=============================================================================
