-------------------------- MODULE NativeSupervisor --------------------------
(***************************************************************************)
(* A run and its supervisor (runtime/native_run.py).  The supervisor forks *)
(* the run as a child and learns of it through a pipe.  The child executes *)
(* the benchmark and closes its provider clients one after the other,      *)
(* announcing the start and the end of each close; it seals the run record *)
(* of a failure, the supervisor that of a success or of a child that is    *)
(* lost.  The supervisor ends a close that takes too long and, on a second *)
(* signal, the whole run.  Either process may be killed at any moment.     *)
(* The child ignores the signal terminate() sends, so it works on until it *)
(* is killed or has ended.                                                 *)
(***************************************************************************)
EXTENDS Naturals, Sequences

CONSTANTS
    Clients,         \* how many provider clients there are to close
    MaxSignals       \* bound on the stop signals that arrive

ASSUME SupervisorAssumption == Clients \in Nat \ {0} /\ MaxSignals \in Nat

VARIABLES
    child,           \* where the run is
    error,           \* how its execution failed, or "none"
    client,          \* the client it is closing, or will close next
    closed,          \* clients closed without error
    closeErrors,     \* clients with a close-error record
    armed,           \* the child's own shutdown deadline runs
    torn,            \* part of a record, its writer killed, lies under source/
    pipe,            \* messages on their way to the supervisor
    boss,            \* where the supervisor is
    active,          \* the close it believes to be going on, 0 for none
    signals,         \* stop signals it has received
    how,             \* why it stopped listening
    record,          \* the run record in the capsule
    manifest,        \* the capsule manifest is sealed
    lease,           \* "held" or "released"
    ownerGone        \* one of shutdown_owner_process_ids has exited

childVars == <<child, error, client, closed, armed, torn>>
bossVars == <<boss, active, signals, how>>
capsule == <<record, manifest, closeErrors>>
vars == <<childVars, bossVars, capsule, pipe, lease, ownerGone>>

Gone == {"exited", "killed"}

Message == [kind : {"started", "finished"}, client : 1..Clients]
           \cup [kind : {"ready", "failed"}, client : {0}]

TypeOK ==
    /\ child \in {"executing", "between", "closing", "ending", "recorded", "sealed", "leaving"} \cup Gone
    /\ error \in {"none", "failed", "unknown", "interrupted"}
    /\ client \in 1..(Clients + 1)
    /\ closed \subseteq 1..Clients
    /\ closeErrors \subseteq 1..Clients
    /\ armed \in BOOLEAN /\ torn \in BOOLEAN
    /\ pipe \in Seq(Message)
    /\ boss \in {"listening", "retiring", "joining", "sealing", "finalizing", "releasing", "done", "dead"}
    /\ active \in 0..Clients
    /\ signals \in 0..MaxSignals
    /\ how \in {"none", "success", "failed", "lost", "deadline", "forced"}
    /\ record \in {"none", "finalized", "aborted"}
    /\ manifest \in BOOLEAN
    /\ lease \in {"held", "released"}
    /\ ownerGone \in BOOLEAN

\* The lease is acquired and the child is started.
Init ==
    /\ child = "executing" /\ error = "none" /\ client = 1
    /\ closed = {} /\ closeErrors = {} /\ armed = FALSE /\ torn = FALSE
    /\ pipe = << >>
    /\ boss = "listening" /\ active = 0 /\ signals = 0 /\ how = "none"
    /\ record = "none" /\ manifest = FALSE
    /\ lease = "held" /\ ownerGone = FALSE

-----------------------------------------------------------------------------
(* The run.                                                                *)

Send(kind, k) == pipe' = Append(pipe, [kind |-> kind, client |-> k])

\* What the envelope that crosses the pipe keeps of an error, as far as the lease
\* is concerned: whether it contains a call of unknown outcome.
ExecutionEnds == {"none", "failed", "unknown"}

\* _run_native_vertical_slice up to the closes, all clients having been created.
Execute(e) ==
    /\ child = "executing" /\ e \in ExecutionEnds
    /\ child' = "between" /\ error' = e
    /\ UNCHANGED <<client, closed, armed, torn, bossVars, capsule, pipe, lease, ownerGone>>

\* An error before the clients are created is reported, and nothing else: there
\* is no run record.
SetupFails ==
    /\ child = "executing"
    /\ Send("failed", 0)
    /\ child' = "leaving" /\ error' = "failed"
    /\ UNCHANGED <<client, closed, armed, torn, bossVars, capsule, lease, ownerGone>>

\* As a bug would have it: the child does not notice the loss of its supervisor.
SignalledOnly == signals > 0 \/ ownerGone

\* _native_shutdown_reason: a signal, or the loss of the supervisor or of
\* another owner, such as the shell that started it.
ShutdownReason == signals > 0 \/ boss = "dead" \/ ownerGone

\* The watch cancels the run's task, once, and arms the deadline.  The task is
\* executing, and is interrupted, or closing a client, and that close fails.
Interrupt ==
    /\ ShutdownReason /\ ~armed
    /\ armed' = TRUE
    /\ \/ /\ child = "executing"
          /\ child' = "between" /\ error' = "interrupted"
          /\ UNCHANGED <<client, closeErrors, pipe>>
       \/ /\ child = "closing"
          /\ child' = "between" /\ client' = client + 1
          /\ closeErrors' = closeErrors \cup {client}
          /\ Send("finished", client)
          /\ UNCHANGED error
    /\ UNCHANGED <<closed, torn, bossVars, record, manifest, lease, ownerGone>>

\* _close_ports.  A close may also hang.
StartClose ==
    /\ child = "between" /\ client <= Clients
    /\ Send("started", client)
    /\ child' = "closing"
    /\ UNCHANGED <<error, client, closed, armed, torn, bossVars, capsule, lease, ownerGone>>

FinishClose(ok) ==
    /\ child = "closing"
    /\ IF ok THEN closed' = closed \cup {client} /\ UNCHANGED closeErrors
             ELSE closeErrors' = closeErrors \cup {client} /\ UNCHANGED closed
    /\ Send("finished", client)
    /\ child' = "between" /\ client' = client + 1
    /\ UNCHANGED <<error, armed, torn, bossVars, record, manifest, lease, ownerGone>>

\* After the closes the child looks once more whether it has a supervisor.
Conclude ==
    /\ child = "between" /\ client > Clients
    /\ error' = IF error = "none" /\ boss = "dead" THEN "interrupted" ELSE error
    /\ child' = "ending"
    /\ UNCHANGED <<client, closed, armed, torn, bossVars, capsule, pipe, lease, ownerGone>>

Failed == error # "none" \/ closed # 1..Clients

ReportReady ==
    /\ child = "ending" /\ ~Failed
    /\ Send("ready", 0)
    /\ child' = "leaving"
    /\ UNCHANGED <<error, client, closed, armed, torn, bossVars, capsule, lease, ownerGone>>

RecordFailure ==
    /\ child = "ending" /\ Failed
    /\ record' = "aborted"
    /\ child' = "recorded"
    /\ UNCHANGED <<error, client, closed, armed, torn, bossVars, manifest, closeErrors, pipe, lease, ownerGone>>

SealFailure ==
    /\ child = "recorded"
    /\ manifest' = TRUE
    /\ child' = "sealed"
    /\ UNCHANGED <<error, client, closed, armed, torn, bossVars, record, closeErrors, pipe, lease, ownerGone>>

\* Without a supervisor the child releases the lease of the aborted run itself.
ReportFailure ==
    /\ child = "sealed"
    /\ lease' = IF boss = "dead" THEN "released" ELSE lease
    /\ Send("failed", 0)
    /\ child' = "leaving"
    /\ UNCHANGED <<error, client, closed, armed, torn, bossVars, capsule, ownerGone>>

ChildExits ==
    /\ child = "leaving"
    /\ child' = "exited"
    /\ UNCHANGED <<error, client, closed, armed, torn, bossVars, capsule, pipe, lease, ownerGone>>

\* Where the child writes records.
Writing == child \in {"executing", "closing"} \/ (child = "ending" /\ Failed)

\* atomic_write_bytes writes to a temporary file beside its target, which a kill
\* may leave incomplete.
Killed == child' = "killed" /\ torn' \in (IF Writing THEN BOOLEAN ELSE {FALSE})

\* A crash, or os._exit by the child's own deadline.
ChildDies ==
    /\ child \notin Gone
    /\ Killed
    /\ UNCHANGED <<error, client, closed, armed, bossVars, capsule, pipe, lease, ownerGone>>

-----------------------------------------------------------------------------
(* The supervisor.                                                         *)

Signal ==
    /\ boss \notin {"releasing", "done", "dead"} /\ signals < MaxSignals
    /\ signals' = signals + 1
    /\ UNCHANGED <<childVars, boss, active, how, capsule, pipe, lease, ownerGone>>

\* A second signal is looked for before the pipe is read.
ForceStop ==
    /\ boss = "listening" /\ signals > 1
    /\ boss' = "retiring" /\ how' = "forced"
    /\ UNCHANGED <<childVars, active, signals, capsule, pipe, lease, ownerGone>>

Receive ==
    /\ boss = "listening" /\ signals <= 1 /\ pipe # << >>
    /\ pipe' = Tail(pipe)
    /\ LET m == Head(pipe) IN
          \/ m.kind = "started" /\ active' = m.client /\ UNCHANGED <<boss, how>>
          \/ m.kind = "finished" /\ active' = 0 /\ UNCHANGED <<boss, how>>
          \/ /\ m.kind \in {"ready", "failed"}
             /\ boss' = "joining" /\ how' = IF m.kind = "ready" THEN "success" ELSE "failed"
             /\ UNCHANGED active
    /\ UNCHANGED <<childVars, signals, capsule, lease, ownerGone>>

\* The active close has not ended in time and there is nothing to read.
CloseDeadline ==
    /\ boss = "listening" /\ signals <= 1 /\ pipe = << >> /\ active # 0
    /\ boss' = "retiring" /\ how' = "deadline"
    /\ UNCHANGED <<childVars, active, signals, capsule, pipe, lease, ownerGone>>

\* The end of the pipe, or a child that is gone with nothing left to read.
ChildLost ==
    /\ boss = "listening" /\ signals <= 1 /\ pipe = << >> /\ child \in Gone
    /\ boss' = "sealing" /\ how' = "lost"
    /\ UNCHANGED <<childVars, active, signals, capsule, pipe, lease, ownerGone>>

\* _retire_native_process: kill, unless the child has ended by then.
Retire ==
    /\ boss = "retiring"
    /\ IF child \in Gone THEN UNCHANGED <<child, torn>> ELSE Killed
    /\ boss' = "sealing"
    /\ UNCHANGED <<error, client, closed, armed, active, signals, how, capsule, pipe, lease, ownerGone>>

\* As a bug would have it: the exit status of the child is not looked at.
JoinTrusting ==
    /\ boss = "joining"
    /\ IF child \in Gone THEN UNCHANGED <<child, torn>> ELSE Killed
    /\ boss' = IF how = "success" THEN "sealing" ELSE "releasing"
    /\ UNCHANGED <<error, client, closed, armed, active, signals, how, capsule, pipe, lease, ownerGone>>

\* _join_completed_native_process: a child that does not exit is killed, and
\* one that did not exit cleanly is lost, whatever it had reported.
Join ==
    /\ boss = "joining"
    /\ IF child \in Gone THEN UNCHANGED <<child, torn>> ELSE Killed
    /\ \/ /\ child = "exited"
          /\ boss' = IF how = "success" THEN "sealing" ELSE "releasing"
          /\ UNCHANGED how
       \/ child # "exited" /\ boss' = "sealing" /\ how' = "lost"
    /\ UNCHANGED <<error, client, closed, armed, active, signals, capsule, pipe, lease, ownerGone>>

\* As a bug would have it: the clients after the one that hangs are forgotten.
SealActiveOnly ==
    /\ boss = "sealing"
    /\ closeErrors' = IF how # "success" /\ active # 0 THEN closeErrors \cup {active} ELSE closeErrors
    /\ record' = IF record # "none" THEN record
                 ELSE IF how = "success" THEN "finalized" ELSE "aborted"
    /\ boss' = IF record # "none" /\ active # 0 THEN "releasing" ELSE "finalizing"
    /\ UNCHANGED <<childVars, active, signals, how, manifest, pipe, lease, ownerGone>>

\* The run record.  With a close believed to be going on its error is sealed,
\* with one for each client after it, and the record must be new; otherwise a
\* record that is there is taken.
SealRecord ==
    /\ boss = "sealing"
    /\ closeErrors' = IF how # "success" /\ active # 0
                      THEN closeErrors \cup active..Clients ELSE closeErrors
    /\ record' = IF record # "none" THEN record
                 ELSE IF how = "success" THEN "finalized" ELSE "aborted"
    /\ boss' = IF record # "none" /\ active # 0 THEN "releasing" ELSE "finalizing"
    /\ UNCHANGED <<childVars, active, signals, how, manifest, pipe, lease, ownerGone>>

\* finalize_capsule reads every file under source/, a torn one included, and
\* raises if one is not a record.
Finalize ==
    /\ boss = "finalizing"
    /\ manifest' = ~torn
    /\ boss' = "releasing"
    /\ UNCHANGED <<childVars, active, signals, how, record, closeErrors, pipe, lease, ownerGone>>

\* The child has reported a call of unknown outcome.
UnknownReported == how = "failed" /\ error = "unknown"

\* The manifest binds a terminal run record.
Verified == manifest /\ record # "none"

\* release_run, or release_supervised_aborted_run when a pointer is left.
Release ==
    /\ boss = "releasing"
    /\ lease' = IF Verified /\ ~UnknownReported THEN "released" ELSE lease
    /\ boss' = "done"
    /\ UNCHANGED <<childVars, active, signals, how, capsule, pipe, ownerGone>>

SupervisorDies ==
    /\ boss \notin {"done", "dead"}
    /\ boss' = "dead"
    /\ UNCHANGED <<childVars, active, signals, how, capsule, pipe, lease, ownerGone>>

OwnerExits ==
    /\ ~ownerGone /\ child \notin Gone
    /\ ownerGone' = TRUE
    /\ UNCHANGED <<childVars, bossVars, capsule, pipe, lease>>

-----------------------------------------------------------------------------
ChildWork ==
    \/ (\E e \in ExecutionEnds : Execute(e))
    \/ SetupFails \/ StartClose \/ Conclude \/ ReportReady \/ RecordFailure \/ SealFailure
    \/ ReportFailure \/ ChildExits

BossWork ==
    ForceStop \/ Receive \/ CloseDeadline \/ ChildLost \/ Retire \/ Join \/ SealRecord \/ Finalize \/ Release

Next ==
    \/ ChildWork \/ Interrupt \/ (\E ok \in BOOLEAN : FinishClose(ok)) \/ ChildDies
    \/ Signal \/ OwnerExits \/ BossWork \/ SupervisorDies

Spec == Init /\ [][Next]_vars

\* The child's loop and its watch go on, a close may hang; the deadline that
\* Interrupt arms ends the child; the supervisor's loop goes on.
FairSpec ==
    /\ Spec
    /\ WF_vars(ChildWork) /\ WF_vars(Interrupt)
    /\ WF_vars(armed /\ ChildDies)
    /\ WF_vars(BossWork)

-----------------------------------------------------------------------------
\* The lease goes only when nothing of the run can call a provider any more,
\* with a terminal record that the manifest binds; and the supervisor keeps it
\* after an unknown outcome the child has reported.
ReleasedIsTerminal ==
    lease = "released" =>
        /\ manifest /\ record # "none"
        /\ child \in {"leaving"} \cup Gone
        /\ boss = "done" => ~UnknownReported

\* A run is finalized only if it executed, closed every client without an
\* error, reported it and exited cleanly, however the messages, the signals
\* and the deadlines fell.
FinalizedIsClean ==
    record = "finalized" => /\ error = "none" /\ closed = 1..Clients /\ closeErrors = {}
                            /\ child = "exited"

\* What the run says of itself at its end is so: the lease is gone and the record
\* final only when nothing is left to happen that would contradict them.
TerminalIsTruthful == TypeOK /\ ReleasedIsTerminal /\ FinalizedIsClean

\* A close the supervisor gave up on leaves an account of every client: closed,
\* or with the error or the skip recorded.
ClosesAccounted ==
    boss = "done" /\ how = "deadline" => closed \cup closeErrors = 1..Clients

\* A child that is lost between two writes leaves an aborted capsule with its
\* manifest: also one lost between its own record and its own manifest.
LossLeavesRoot == boss = "done" /\ how = "lost" /\ ~torn => manifest /\ record = "aborted"

\* A run that fails leaves an account: of every client when a close was given
\* up, of the run when its child was lost.
FailureAccounted == ClosesAccounted /\ LossLeavesRoot

\* The supervisor comes to an end whatever the child does, a hanging close
\* included, and takes the child with it.
SupervisorEnds == <>(boss = "dead" \/ (boss = "done" /\ child \in Gone))

\* A child that has lost its supervisor ends.
OrphanEnds == boss = "dead" ~> child \in Gone

\* Neither process outlives the run: not the supervisor with a child that hangs,
\* not the child of a supervisor that was killed.
ProcessesEnd == SupervisorEnds /\ OrphanEnds
=============================================================================
