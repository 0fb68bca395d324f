--------------------------- MODULE LiveCellsProofs ---------------------------
(***************************************************************************)
(* The coordinator of the provider cells, for any number of cells and any  *)
(* limit.  What it reports at the end follows from three facts it keeps    *)
(* all the time: a worker process that is there is in its list, so the     *)
(* list's length bounds them; a cell that was admitted and is no longer in *)
(* the list has its outcome; and an outcome that is not a completion has   *)
(* been collected as an error.                                             *)
(***************************************************************************)
EXTENDS LiveCells, FiniteSetTheorems, TLAPS

\* Every process is watched, and the list is within the limit with room for a
\* cell that is being started.
Watched ==
    /\ \A c \in Cells : worker[c] \notin {"none", "gone"} => c \in workers
    /\ Cardinality(workers) <= ProviderLimit
    /\ phase = "starting" => Cardinality(workers) < ProviderLimit

\* The cell that is being started was not seen, listed or reported before.
StartsFresh ==
    phase = "starting" => /\ next \in Cells /\ next \notin workers /\ next \notin seen
                          /\ worker[next] = "none" /\ outcome[next] = "not_started"

\* Nothing has happened to a cell that was not taken for admission.
Untouched == \A c \in Cells : c > next => worker[c] = "none" /\ outcome[c] = "not_started"

\* A cell that was admitted has its outcome once it has left the list.
Reported ==
    \A c \in 1..next : c \in workers \/ outcome[c] # "not_started" \/ (phase = "starting" /\ c = next)

\* A completion has its message and its exit status, and a cell that did not
\* complete has been collected as an error.
Believed ==
    \A c \in Cells : /\ outcome[c] = "completed" =>
                            said[c] = "completed" /\ c \in clean /\ worker[c] = "gone"
                     /\ outcome[c] = "failed" => errors

\* Who was seen at the last wait is settled before a cell is admitted.
SettledFirst == phase \in {"admitting", "starting"} => seen \cap workers = {}

\* The end: the list is empty, and a return needs every cell.
EndsEmpty ==
    /\ phase \in {"returned", "raised"} => workers = {}
    /\ phase = "returned" => ~errors /\ next = Count

CellsInv ==
    /\ TypeOK /\ Watched /\ StartsFresh /\ Untouched /\ Reported /\ Believed
    /\ SettledFirst /\ EndsEmpty

-----------------------------------------------------------------------------
\* The list of workers is a finite set, whose size the limit is compared with.
LEMMA WorkersFinite ==
    ASSUME TypeOK
    PROVE  IsFiniteSet(workers) /\ Cardinality(workers) \in Nat
  <1>1. next \in Nat /\ workers \subseteq 1..next
    BY CellsAssumption DEF TypeOK
  <1>2. IsFiniteSet(1..next)
    BY <1>1, FS_Interval
  <1> QED
    BY <1>1, <1>2, FS_Subset, FS_CardinalityType

\* Nothing is admitted yet.
LEMMA CellsInitInv == Init => CellsInv
  <1> SUFFICES ASSUME Init PROVE CellsInv
    OBVIOUS
  <1> USE CellsAssumption DEF Init, Cells
  <1>1. TypeOK
    <2>1. next \in 0..Count /\ workers \subseteq 1..next /\ seen \subseteq 1..next /\ clean \subseteq Cells
      OBVIOUS
    <2>2. /\ outcome \in [Cells -> {"not_started", "completed", "failed"}]
          /\ worker \in [Cells -> {"none", "running", "failing", "ending", "gone"}]
          /\ said \in [Cells -> {"nothing", "completed", "failed"}]
      OBVIOUS
    <2> QED
      BY <2>1, <2>2 DEF TypeOK
  <1>2. Watched
    BY FS_EmptySet DEF Watched
  <1>3. StartsFresh /\ Untouched /\ Reported /\ Believed /\ SettledFirst /\ EndsEmpty
    BY DEF StartsFresh, Untouched, Reported, Believed, SettledFirst, EndsEmpty
  <1> QED
    BY <1>1, <1>2, <1>3 DEF CellsInv

-----------------------------------------------------------------------------
\* A worker that has its result is watched, and has not been believed yet.
LEMMA CompletesInv ==
    ASSUME CellsInv, NEW c \in Cells, Completes(c)
    PROVE  CellsInv'
  <1> USE CellsAssumption DEF CellsInv, TypeOK, Cells, Completes, Becomes
  <1>1. TypeOK'
    OBVIOUS
  <1>2. Watched'
    BY DEF Watched
  <1>3. StartsFresh'
    BY DEF StartsFresh
  <1>4. Untouched'
    BY DEF Untouched, StartsFresh
  <1>5. Reported'
    BY DEF Reported
  <1>6. Believed'
    BY DEF Believed
  <1>7. SettledFirst'
    BY DEF SettledFirst
  <1>8. EndsEmpty'
    BY DEF EndsEmpty
  <1> QED
    BY <1>1, <1>2, <1>3, <1>4, <1>5, <1>6, <1>7, <1>8

\* A failure sets the event before it is sent.
LEMMA FailsInv ==
    ASSUME CellsInv, NEW c \in Cells, Fails(c)
    PROVE  CellsInv'
  <1> USE CellsAssumption DEF CellsInv, TypeOK, Cells, Fails, Becomes
  <1>1. TypeOK'
    OBVIOUS
  <1>2. Watched'
    BY DEF Watched
  <1>3. StartsFresh'
    BY DEF StartsFresh
  <1>4. Untouched'
    BY DEF Untouched
  <1>5. Reported'
    BY DEF Reported
  <1>6. Believed'
    BY DEF Believed
  <1>7. SettledFirst'
    BY DEF SettledFirst
  <1>8. EndsEmpty'
    BY DEF EndsEmpty
  <1> QED
    BY <1>1, <1>2, <1>3, <1>4, <1>5, <1>6, <1>7, <1>8

\* The failure is sent.
LEMMA SendsFailureInv ==
    ASSUME CellsInv, NEW c \in Cells, SendsFailure(c)
    PROVE  CellsInv'
  <1> USE CellsAssumption DEF CellsInv, TypeOK, Cells, SendsFailure, Becomes
  <1>1. TypeOK'
    OBVIOUS
  <1>2. Watched'
    BY DEF Watched
  <1>3. StartsFresh'
    BY DEF StartsFresh
  <1>4. Untouched'
    BY DEF Untouched
  <1>5. Reported'
    BY DEF Reported
  <1>6. Believed'
    BY DEF Believed
  <1>7. SettledFirst'
    BY DEF SettledFirst
  <1>8. EndsEmpty'
    BY DEF EndsEmpty
  <1> QED
    BY <1>1, <1>2, <1>3, <1>4, <1>5, <1>6, <1>7, <1>8

\* A worker that exits stays in the list.
LEMMA ExitsInv ==
    ASSUME CellsInv, NEW c \in Cells, Exits(c)
    PROVE  CellsInv'
  <1> USE CellsAssumption DEF CellsInv, TypeOK, Cells, Exits, Becomes
  <1>1. TypeOK'
    OBVIOUS
  <1>2. Watched'
    BY DEF Watched
  <1>3. StartsFresh'
    BY DEF StartsFresh
  <1>4. Untouched'
    BY DEF Untouched
  <1>5. Reported'
    BY DEF Reported
  <1>6. Believed'
    BY DEF Believed
  <1>7. SettledFirst'
    BY DEF SettledFirst
  <1>8. EndsEmpty'
    BY DEF EndsEmpty
  <1> QED
    BY <1>1, <1>2, <1>3, <1>4, <1>5, <1>6, <1>7, <1>8

\* So does one that is killed.
LEMMA DiesInv ==
    ASSUME CellsInv, NEW c \in Cells, Dies(c)
    PROVE  CellsInv'
  <1> USE CellsAssumption DEF CellsInv, TypeOK, Cells, Dies, Becomes
  <1>1. TypeOK'
    OBVIOUS
  <1>2. Watched'
    BY DEF Watched
  <1>3. StartsFresh'
    BY DEF StartsFresh
  <1>4. Untouched'
    BY DEF Untouched
  <1>5. Reported'
    BY DEF Reported
  <1>6. Believed'
    BY DEF Believed
  <1>7. SettledFirst'
    BY DEF SettledFirst
  <1>8. EndsEmpty'
    BY DEF EndsEmpty
  <1> QED
    BY <1>1, <1>2, <1>3, <1>4, <1>5, <1>6, <1>7, <1>8

-----------------------------------------------------------------------------
\* The next cell is taken while the list has room.
LEMMA TakeNextInv ==
    ASSUME CellsInv, TakeNext
    PROVE  CellsInv'
  <1> USE CellsAssumption DEF CellsInv, TypeOK, Cells, TakeNext, Admissible
  <1>1. TypeOK'
    OBVIOUS
  <1>2. Watched'
    BY WorkersFinite DEF Watched
  <1>3. StartsFresh'
    BY DEF StartsFresh, Untouched
  <1>4. Untouched'
    BY DEF Untouched
  <1>5. Reported'
    BY DEF Reported
  <1>6. Believed'
    BY DEF Believed
  <1>7. SettledFirst'
    BY DEF SettledFirst
  <1>8. EndsEmpty'
    BY DEF EndsEmpty
  <1> QED
    BY <1>1, <1>2, <1>3, <1>4, <1>5, <1>6, <1>7, <1>8

\* It goes into the list together with its process.
LEMMA StartInv ==
    ASSUME CellsInv, Start
    PROVE  CellsInv'
  <1> USE CellsAssumption DEF CellsInv, TypeOK, Cells, Start, Becomes
  <1>0. next \in Cells /\ next \in 1..next /\ next \notin workers
    BY DEF StartsFresh
  <1>1. TypeOK'
    BY <1>0
  <1>2. Watched'
    <2>1. Cardinality(workers \cup {next}) = Cardinality(workers) + 1
      BY <1>0, WorkersFinite, FS_AddElement
    <2>2. Cardinality(workers \cup {next}) <= ProviderLimit
      BY <2>1, WorkersFinite DEF Watched
    <2> QED
      BY <1>0, <2>2 DEF Watched
  <1>3. StartsFresh'
    BY DEF StartsFresh
  <1>4. Untouched'
    BY DEF Untouched, StartsFresh
  <1>5. Reported'
    BY DEF Reported, StartsFresh
  <1>6. Believed'
    BY DEF Believed, StartsFresh
  <1>7. SettledFirst'
    BY DEF SettledFirst, StartsFresh
  <1>8. EndsEmpty'
    BY DEF EndsEmpty
  <1> QED
    BY <1>1, <1>2, <1>3, <1>4, <1>5, <1>6, <1>7, <1>8

\* A cell that cannot be started has failed, whether or not it has a process.
LEMMA StartFailsInv ==
    ASSUME CellsInv, NEW started \in BOOLEAN, StartFails(started)
    PROVE  CellsInv'
  <1> USE CellsAssumption DEF CellsInv, TypeOK, Cells, StartFails, Becomes
  <1>0. next \in Cells /\ next \in 1..next /\ next \notin workers
    BY DEF StartsFresh
  <1>1. TypeOK'
    BY <1>0
  <1>2. Watched'
    <2>1. Cardinality(workers \cup {next}) = Cardinality(workers) + 1
      BY <1>0, WorkersFinite, FS_AddElement
    <2>2. Cardinality(workers \cup {next}) <= ProviderLimit
      BY <2>1, WorkersFinite DEF Watched
    <2> QED
      BY <1>0, <2>2 DEF Watched
  <1>3. StartsFresh'
    BY DEF StartsFresh
  <1>4. Untouched'
    BY DEF Untouched, StartsFresh
  <1>5. Reported'
    BY DEF Reported, StartsFresh
  <1>6. Believed'
    BY DEF Believed, StartsFresh
  <1>7. SettledFirst'
    BY DEF SettledFirst, StartsFresh
  <1>8. EndsEmpty'
    BY DEF EndsEmpty
  <1> QED
    BY <1>1, <1>2, <1>3, <1>4, <1>5, <1>6, <1>7, <1>8

\* The loop of admission ends.
LEMMA AdmitNoMoreInv ==
    ASSUME CellsInv, AdmitNoMore
    PROVE  CellsInv'
  <1> USE CellsAssumption DEF CellsInv, TypeOK, Cells, AdmitNoMore
  <1>1. TypeOK'
    OBVIOUS
  <1>2. Watched'
    BY DEF Watched
  <1>3. StartsFresh'
    BY DEF StartsFresh
  <1>4. Untouched'
    BY DEF Untouched
  <1>5. Reported'
    BY DEF Reported
  <1>6. Believed'
    BY DEF Believed
  <1>7. SettledFirst'
    BY DEF SettledFirst
  <1>8. EndsEmpty'
    BY DEF EndsEmpty
  <1> QED
    BY <1>1, <1>2, <1>3, <1>4, <1>5, <1>6, <1>7, <1>8

\* The workers that are ready are in the list.
LEMMA WaitInv ==
    ASSUME CellsInv, Wait
    PROVE  CellsInv'
  <1> USE CellsAssumption DEF CellsInv, TypeOK, Cells, Wait, Ready
  <1>1. TypeOK'
    OBVIOUS
  <1>2. Watched'
    BY DEF Watched
  <1>3. StartsFresh'
    BY DEF StartsFresh
  <1>4. Untouched'
    BY DEF Untouched
  <1>5. Reported'
    BY DEF Reported
  <1>6. Believed'
    BY DEF Believed
  <1>7. SettledFirst'
    BY DEF SettledFirst
  <1>8. EndsEmpty'
    BY DEF EndsEmpty
  <1> QED
    BY <1>1, <1>2, <1>3, <1>4, <1>5, <1>6, <1>7, <1>8

\* When the wait raises, every worker counts as ready.
LEMMA WaitFailsInv ==
    ASSUME CellsInv, WaitFails
    PROVE  CellsInv'
  <1> USE CellsAssumption DEF CellsInv, TypeOK, Cells, WaitFails
  <1>1. TypeOK'
    OBVIOUS
  <1>2. Watched'
    BY DEF Watched
  <1>3. StartsFresh'
    BY DEF StartsFresh
  <1>4. Untouched'
    BY DEF Untouched
  <1>5. Reported'
    BY DEF Reported
  <1>6. Believed'
    BY DEF Believed
  <1>7. SettledFirst'
    BY DEF SettledFirst
  <1>8. EndsEmpty'
    BY DEF EndsEmpty
  <1> QED
    BY <1>1, <1>2, <1>3, <1>4, <1>5, <1>6, <1>7, <1>8

\* A settled cell leaves the list with its outcome.
LEMMA SettleInv ==
    ASSUME CellsInv, NEW c \in Cells, NEW garbled \in BOOLEAN, NEW hitch \in BOOLEAN, Settle(c, garbled, hitch)
    PROVE  CellsInv'
  <1> USE CellsAssumption DEF CellsInv, TypeOK, Cells, Settle, Verdict
  <1>1. TypeOK'
    OBVIOUS
  <1>2. Watched'
    <2>1. Cardinality(workers \ {c}) = Cardinality(workers) - 1
      BY WorkersFinite, FS_RemoveElement
    <2>2. Cardinality(workers \ {c}) <= ProviderLimit
      BY <2>1, WorkersFinite DEF Watched
    <2> QED
      BY <2>2 DEF Watched
  <1>3. StartsFresh'
    BY DEF StartsFresh
  <1>4. Untouched'
    BY DEF Untouched
  <1>5. Reported'
    BY DEF Reported
  <1>6. Believed'
    BY DEF Believed
  <1>7. SettledFirst'
    BY DEF SettledFirst
  <1>8. EndsEmpty'
    BY DEF EndsEmpty
  <1> QED
    BY <1>1, <1>2, <1>3, <1>4, <1>5, <1>6, <1>7, <1>8

\* The end, with an empty list.
LEMMA ConcludeInv ==
    ASSUME CellsInv, Conclude
    PROVE  CellsInv'
  <1> USE CellsAssumption DEF CellsInv, TypeOK, Cells, Conclude
  <1>1. TypeOK'
    OBVIOUS
  <1>2. Watched'
    BY DEF Watched
  <1>3. StartsFresh'
    BY DEF StartsFresh
  <1>4. Untouched'
    BY DEF Untouched
  <1>5. Reported'
    BY DEF Reported
  <1>6. Believed'
    BY DEF Believed
  <1>7. SettledFirst'
    BY DEF SettledFirst
  <1>8. EndsEmpty'
    BY DEF EndsEmpty
  <1> QED
    BY <1>1, <1>2, <1>3, <1>4, <1>5, <1>6, <1>7, <1>8

\* A signal sets the event and nothing else.
LEMMA SignalInv ==
    ASSUME CellsInv, Signal
    PROVE  CellsInv'
  <1> USE CellsAssumption DEF CellsInv, TypeOK, Cells, Signal
  <1>1. TypeOK'
    OBVIOUS
  <1>2. Watched'
    BY DEF Watched
  <1>3. StartsFresh'
    BY DEF StartsFresh
  <1>4. Untouched'
    BY DEF Untouched
  <1>5. Reported'
    BY DEF Reported
  <1>6. Believed'
    BY DEF Believed
  <1>7. SettledFirst'
    BY DEF SettledFirst
  <1>8. EndsEmpty'
    BY DEF EndsEmpty
  <1> QED
    BY <1>1, <1>2, <1>3, <1>4, <1>5, <1>6, <1>7, <1>8

\* Every step of the system keeps the invariant.
LEMMA CellsNextInv == CellsInv /\ [Next]_vars => CellsInv'
  <1> SUFFICES ASSUME CellsInv, [Next]_vars PROVE CellsInv'
    OBVIOUS
  <1>1. CASE CoordinatorStep
    BY <1>1, TakeNextInv, StartInv, AdmitNoMoreInv, WaitInv, ConcludeInv, SettleInv DEF CoordinatorStep
  <1>2. CASE Fault
    BY <1>2, SignalInv, WaitFailsInv, StartFailsInv, DiesInv DEF Fault
  <1>3. CASE \E c \in Cells : WorkerStep(c)
    BY <1>3, CompletesInv, FailsInv, SendsFailureInv, ExitsInv DEF WorkerStep
  <1>4. CASE UNCHANGED vars
    BY <1>4 DEF vars, CellsInv, TypeOK, Watched, StartsFresh, Untouched, Reported, Believed,
                SettledFirst, EndsEmpty
  <1> QED
    BY <1>1, <1>2, <1>3, <1>4 DEF Next

\* The invariant holds of every behaviour of the coordinator and its workers.
THEOREM CellsInvariant == Spec => []CellsInv
  BY CellsInitInv, CellsNextInv, PTL DEF Spec

-----------------------------------------------------------------------------
\* The processes that exist are among the workers in the list.
LEMMA InvLimitHeld == CellsInv => LimitHeld
  <1> SUFFICES ASSUME CellsInv PROVE LimitHeld
    OBVIOUS
  <1> DEFINE there == {c \in Cells : worker[c] \notin {"none", "gone"}}
  <1>1. IsFiniteSet(workers) /\ Cardinality(workers) \in Nat
    BY WorkersFinite DEF CellsInv
  <1>2. there \subseteq workers
    BY DEF CellsInv, Watched
  <1>3. IsFiniteSet(there) /\ Cardinality(there) <= Cardinality(workers)
    BY <1>1, <1>2, FS_Subset
  <1>4. Cardinality(there) \in Nat
    BY <1>3, FS_CardinalityType
  <1> QED
    BY <1>1, <1>3, <1>4, CellsAssumption DEF CellsInv, Watched, LimitHeld

\* At the end the list is empty, so that every cell has been reported.
LEMMA InvOutcomesTruthful == CellsInv => OutcomesTruthful
  <1> SUFFICES ASSUME CellsInv, phase \in {"returned", "raised"}
               PROVE  /\ \A c \in Cells : worker[c] \in {"none", "gone"}
                      /\ \A c \in Cells : outcome[c] = "not_started" <=> c > next
                      /\ \A c \in Cells : outcome[c] = "completed" => said[c] = "completed" /\ c \in clean
                      /\ phase = "returned" => \A c \in Cells : outcome[c] = "completed"
    BY DEF OutcomesTruthful
  <1> USE CellsAssumption DEF CellsInv, TypeOK, Cells
  <1>1. workers = {}
    BY DEF EndsEmpty
  <1>2. \A c \in Cells : outcome[c] = "not_started" <=> c > next
    BY <1>1 DEF Reported, Untouched
  <1>3. ASSUME phase = "returned", NEW c \in Cells
        PROVE  outcome[c] = "completed"
    BY <1>2, <1>3 DEF EndsEmpty, Believed
  <1> QED
    BY <1>1, <1>2, <1>3 DEF Watched, Believed

\* For any number of cells and any limit: at no moment are more workers at work
\* than the plan allows, and what is reported at the end is what became of each
\* cell (_execute_parallel_live_cells).
THEOREM CellsAreSafe == Spec => []CellsSafe
  <1>1. CellsInv => CellsSafe
    BY InvLimitHeld, InvOutcomesTruthful DEF CellsSafe, CellsInv
  <1> QED
    BY <1>1, CellsInvariant, PTL

\* A cell is taken only when everyone the last wait found ready has left the list
\* with a completion: admission never outruns a failure that was woken up to.
THEOREM AdmissionStopsAtFailure == Spec => NoAdmissionPastFailure
  <1>1. CellsInv /\ [Next]_vars => [next' # next => \A c \in seen : outcome[c] = "completed"]_vars
    <2> SUFFICES ASSUME CellsInv, Next, next' # next, NEW c \in seen
                 PROVE  outcome[c] = "completed"
      OBVIOUS
    <2>1. TakeNext
      BY DEF Next, CoordinatorStep, Fault, WorkerStep, Start, AdmitNoMore, Wait, Conclude, Settle,
             Signal, WaitFails, StartFails, Dies, Completes, Fails, SendsFailure, Exits
    <2> USE CellsAssumption DEF CellsInv, TypeOK, Cells
    <2>2. phase = "admitting" /\ ~errors
      BY <2>1 DEF TakeNext, Admissible
    <2>3. c \in 1..next /\ c \in Cells /\ c \notin workers
      BY <2>2 DEF SettledFirst
    <2> QED
      BY <2>2, <2>3 DEF Reported, Believed
  <1> QED
    BY <1>1, CellsInvariant, PTL DEF Spec, NoAdmissionPastFailure
=============================================================================
