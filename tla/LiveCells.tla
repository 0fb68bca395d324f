----------------------------- MODULE LiveCells -----------------------------
(***************************************************************************)
(* The coordinator of one dataset (execute_live_cells, oamb/live.py): one  *)
(* worker process for each provider cell, up to a limit at a time, with    *)
(* one stop event shared by all.  A worker sends one message and exits; it *)
(* may also die at any moment, before or after the message.  The           *)
(* coordinator waits for messages, settles every worker that was ready,    *)
(* and only then admits the next cells.  What a worker executes is in      *)
(* NativeSupervisor.  A single cell runs in the coordinator itself and is  *)
(* not modelled.                                                           *)
(***************************************************************************)
EXTENDS Naturals, FiniteSets

CONSTANTS
    Count,           \* how many cells there are, in their order
    ProviderLimit    \* max_parallel_providers_per_dataset

ASSUME CellsAssumption == Count \in Nat \ {0} /\ ProviderLimit \in Nat \ {0}

Cells == 1..Count

VARIABLES
    phase,           \* "admitting", "starting", "waiting", "settling", "returned" or "raised"
    next,            \* how many cells were taken for admission
    workers,         \* the cells in the coordinator's list
    seen,            \* the cells the last wait found ready
    errors,          \* an error was collected
    stop,            \* shared_stop_event
    outcome,         \* what is reported of each cell
    worker,          \* where each worker process is
    said,            \* its message
    clean            \* workers that exited with status 0

vars == <<phase, next, workers, seen, errors, stop, outcome, worker, said, clean>>

TypeOK ==
    /\ phase \in {"admitting", "starting", "waiting", "settling", "returned", "raised"}
    /\ next \in 0..Count
    /\ workers \subseteq 1..next
    /\ seen \subseteq 1..next
    /\ errors \in BOOLEAN /\ stop \in BOOLEAN
    /\ outcome \in [Cells -> {"not_started", "completed", "failed"}]
    /\ worker \in [Cells -> {"none", "running", "failing", "ending", "gone"}]
    /\ said \in [Cells -> {"nothing", "completed", "failed"}]
    /\ clean \subseteq Cells

Init ==
    /\ phase = "admitting" /\ next = 0
    /\ workers = {} /\ seen = {}
    /\ errors = FALSE /\ stop = FALSE
    /\ outcome = [c \in Cells |-> "not_started"]
    /\ worker = [c \in Cells |-> "none"]
    /\ said = [c \in Cells |-> "nothing"]
    /\ clean = {}

-----------------------------------------------------------------------------
(* A worker.                                                               *)

Becomes(c, w) == worker' = [worker EXCEPT ![c] = w]

Completes(c) ==
    /\ worker[c] = "running"
    /\ Becomes(c, "ending") /\ said' = [said EXCEPT ![c] = "completed"]
    /\ UNCHANGED <<phase, next, workers, seen, errors, stop, outcome, clean>>

\* The event is set before the failure is sent.
Fails(c) ==
    /\ worker[c] = "running"
    /\ Becomes(c, "failing") /\ stop' = TRUE
    /\ UNCHANGED <<phase, next, workers, seen, errors, outcome, said, clean>>

SendsFailure(c) ==
    /\ worker[c] = "failing"
    /\ Becomes(c, "ending") /\ said' = [said EXCEPT ![c] = "failed"]
    /\ UNCHANGED <<phase, next, workers, seen, errors, stop, outcome, clean>>

Exits(c) ==
    /\ worker[c] = "ending"
    /\ Becomes(c, "gone") /\ clean' = clean \cup {c}
    /\ UNCHANGED <<phase, next, workers, seen, errors, stop, outcome, said>>

Dies(c) ==
    /\ worker[c] \in {"running", "failing", "ending"}
    /\ Becomes(c, "gone")
    /\ UNCHANGED <<phase, next, workers, seen, errors, stop, outcome, said, clean>>

-----------------------------------------------------------------------------
(* The coordinator.                                                        *)

\* The condition of the loop in admit_cells.
Admissible == next < Count /\ Cardinality(workers) < ProviderLimit /\ ~errors /\ ~stop

TakeNext ==
    /\ phase = "admitting" /\ Admissible
    /\ next' = next + 1
    /\ phase' = "starting"
    /\ UNCHANGED <<workers, seen, errors, stop, outcome, worker, said, clean>>

\* The event may have been set since the loop's condition looked at it.
Start ==
    /\ phase = "starting"
    /\ workers' = workers \cup {next}
    /\ Becomes(next, "running")
    /\ phase' = "admitting"
    /\ UNCHANGED <<next, seen, errors, stop, outcome, said, clean>>

\* The pipe or the process cannot be had, or starting it is interrupted after
\* the worker was there (started).
StartFails(started) ==
    /\ phase = "starting"
    /\ errors' = TRUE /\ stop' = TRUE
    /\ outcome' = [outcome EXCEPT ![next] = "failed"]
    /\ workers' = IF started THEN workers \cup {next} ELSE workers
    /\ IF started THEN Becomes(next, "running") ELSE UNCHANGED worker
    /\ phase' = "waiting"
    /\ UNCHANGED <<next, seen, said, clean>>

AdmitNoMore ==
    /\ phase = "admitting" /\ ~Admissible
    /\ phase' = "waiting"
    /\ UNCHANGED <<next, workers, seen, errors, stop, outcome, worker, said, clean>>

\* As a bug would have it: the end of a pipe without a message is not noticed.
ReadySpeaking == {c \in workers : said[c] # "nothing"}

\* A message or the end of its pipe.
Ready == {c \in workers : said[c] # "nothing" \/ worker[c] = "gone"}

Wait ==
    /\ phase = "waiting" /\ Ready # {}
    /\ seen' = Ready
    /\ phase' = "settling"
    /\ UNCHANGED <<next, workers, errors, stop, outcome, worker, said, clean>>

\* The wait raises: every worker is settled, however long it takes.
WaitFails ==
    /\ phase = "waiting" /\ workers # {}
    /\ errors' = TRUE /\ stop' = TRUE
    /\ seen' = workers
    /\ phase' = "settling"
    /\ UNCHANGED <<next, workers, outcome, worker, said, clean>>

\* As a bug would have it: a message is taken at its word.
VerdictOfMessage(c, garbled) == IF said[c] = "completed" /\ ~garbled THEN "completed" ELSE "failed"

\* What is made of the message and the exit status.
Verdict(c, garbled) ==
    IF said[c] = "completed" /\ c \in clean /\ ~garbled THEN "completed" ELSE "failed"

\* As a bug would have it: the cells are admitted after each settled worker.
SettleOne(c, garbled, hitch) ==
    /\ phase = "settling" /\ c \in seen \cap workers
    /\ \A d \in seen \cap workers : c <= d
    /\ worker[c] = "gone"
    /\ workers' = workers \ {c}
    /\ outcome' = [outcome EXCEPT ![c] = Verdict(c, garbled)]
    /\ errors' = (errors \/ hitch \/ outcome'[c] = "failed")
    /\ stop' = (stop \/ hitch \/ outcome'[c] = "failed")
    /\ phase' = "admitting"
    /\ UNCHANGED <<next, seen, worker, said, clean>>

\* The next ready worker is received from and joined.  The message may be
\* garbled, and the join or the close may be interrupted (hitch), which is an
\* error but not the cell's.
Settle(c, garbled, hitch) ==
    /\ phase = "settling" /\ c \in seen \cap workers
    /\ \A d \in seen \cap workers : c <= d
    /\ worker[c] = "gone"
    /\ workers' = workers \ {c}
    /\ outcome' = [outcome EXCEPT ![c] = Verdict(c, garbled)]
    /\ errors' = (errors \/ hitch \/ outcome'[c] = "failed")
    /\ stop' = (stop \/ hitch \/ outcome'[c] = "failed")
    /\ phase' = IF seen \cap workers' = {} THEN "admitting" ELSE "settling"
    /\ UNCHANGED <<next, seen, worker, said, clean>>

\* The list is empty: an error, or a cell that was not admitted, is raised.
Conclude ==
    /\ phase = "waiting" /\ workers = {}
    /\ phase' = IF errors \/ next < Count THEN "raised" ELSE "returned"
    /\ UNCHANGED <<next, workers, seen, errors, stop, outcome, worker, said, clean>>

\* SIGINT or SIGTERM reaches the coordinator.
Signal ==
    /\ phase \notin {"returned", "raised"} /\ ~stop
    /\ stop' = TRUE
    /\ UNCHANGED <<phase, next, workers, seen, errors, outcome, worker, said, clean>>

WorkerStep(c) == Completes(c) \/ Fails(c) \/ SendsFailure(c) \/ Exits(c)

CoordinatorStep ==
    \/ TakeNext \/ Start \/ AdmitNoMore \/ Wait \/ Conclude
    \/ \E c \in Cells, garbled, hitch \in BOOLEAN : Settle(c, garbled, hitch)

\* What comes from outside: none of it need ever happen.
Fault ==
    \/ Signal \/ WaitFails
    \/ \E started \in BOOLEAN : StartFails(started)
    \/ \E c \in Cells : Dies(c)

Next == CoordinatorStep \/ Fault \/ \E c \in Cells : WorkerStep(c)

Spec == Init /\ [][Next]_vars

\* A supervised run ends (NativeSupervisor, SupervisorEnds), and so does the
\* worker that executes it; the coordinator's loop goes on.
FairSpec == Spec /\ WF_vars(CoordinatorStep) /\ \A c \in Cells : WF_vars(WorkerStep(c))

-----------------------------------------------------------------------------
\* However messages, exits and crashes fall, no more worker processes exist at
\* a time than the plan allows providers to run in parallel.
LimitHeld == Cardinality({c \in Cells : worker[c] \notin {"none", "gone"}}) <= ProviderLimit

\* No cell is admitted past a failure the coordinator has woken up to: "a ready
\* peer failure must stop admission even when another peer succeeded", also one
\* that never set the event, such as a worker that was killed.
NoAdmissionPastFailure == [][next' # next => \A c \in seen : outcome[c] = "completed"]_vars

\* When the coordinator ends, no worker is left, every cell is reported as what
\* became of it, and it returns only if every cell completed.
OutcomesTruthful ==
    phase \in {"returned", "raised"} =>
        /\ \A c \in Cells : worker[c] \in {"none", "gone"}
        /\ \A c \in Cells : outcome[c] = "not_started" <=> c > next
        /\ \A c \in Cells : outcome[c] = "completed" => said[c] = "completed" /\ c \in clean
        /\ phase = "returned" => \A c \in Cells : outcome[c] = "completed"

\* At every moment and at the end: the workers are as many as the plan allows
\* and what is reported of them is so.
CellsSafe == TypeOK /\ LimitHeld /\ OutcomesTruthful

\* The coordinator ends, also if a worker is killed without a word.
CellsEnd == <>(phase \in {"returned", "raised"})
=============================================================================
