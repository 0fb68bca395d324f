----------------------- MODULE ProviderLifecycleProofs -----------------------
(***************************************************************************)
(* Mutual exclusion between runs and operators' commands, for any number   *)
(* of domains, runs, attempts and commands, when stop is issued only after *)
(* the run processes are gone and prepare-new-run not while one of them is *)
(* in the middle of acquiring.  The argument is the one of two flags: a    *)
(* run raises its lock and then looks at the gate, a command raises the    *)
(* gate and then looks at the locks, so one of them sees the other.  What  *)
(* a command has already checked therefore stays true while it holds the   *)
(* gate; CheckedLocks, CheckedOperations and CheckedPointers state exactly *)
(* that, check by check.  The argument needs a run's lock to stay until    *)
(* the run removes it.  Both commands that clear markers remove locks too: *)
(* the first assumption is there for stop, and for prepare-new-run         *)
(* PrepareAlone shows what the second one is needed for, and that none is  *)
(* needed about the runs that are past acquiring.                          *)
(***************************************************************************)
EXTENDS ProviderLifecycle, TLAPS

\* A command at work owns the gate.
GateHeld == \A c \in Commands : cmd[c] \in AtWork => gate = c

\* A run between mkdir and rmdir owns its domain's lock.
LockHeld == \A r \in Runs : at[r] \in {"regate", "in", "leaving"} => lock[DomainOf[r]] = r

\* stop was issued with no run alive, prepare-new-run with none acquiring; while
\* the gate is closed no run begins a call.
Quiet ==
    \A c \in Commands : cmd[c] \in AtWork =>
        /\ KindOf[c] = "stop" => \A r \in Runs : Idle(r)
        /\ KindOf[c] = "prepare" => \A r \in Runs :
              at[r] \in {"out", "dead"} \/ call[r].op # "acquire"

\* A command that looks before it acts, from the moment it holds the gate.
Working(c) == cmd[c] \in AtWork /\ KindOf[c] # "stop"

\* What a check found absent is still absent, while the command is at work.
CheckedInOrder ==
    \A c \in Commands, d \in Domains : Working(c) =>
        /\ <<d, 2>> \notin left[c] => <<d, 1>> \notin left[c]
        /\ <<d, 3>> \notin left[c] => <<d, 2>> \notin left[c]
CheckedLocks ==
    \A c \in Commands, r \in Runs :
        Working(c) /\ <<DomainOf[r], 1>> \notin left[c] =>
            /\ at[r] # "in"
            /\ at[r] = "leaving" => (r \in authority <=> call[r].op # "acquire")
CheckedOperations ==
    \A c \in Commands, d \in Domains : Working(c) /\ <<d, 2>> \notin left[c] => operation[d] = None
CheckedPointers ==
    \A c \in Commands, p \in pointers : Working(c) => <<DomainOf[p[1]], 3>> \in left[c]

Scanned == \A c \in Commands : cmd[c] \in AtWork \ {"scanning"} => left[c] = {}

\* Only a live owner has calls in flight, and it does not clear one of them.
CallsOwned ==
    /\ \A p \in inflight : p[1] \in authority
    /\ \A r \in authority : at[r] # "dead"
    /\ \A r \in Runs : at[r] \in {"locking", "regate", "in"} =>
          /\ call[r] \in Calls
          /\ r \in authority <=> call[r].op # "acquire"
          /\ call[r].op = "clear" => <<r, call[r].attempt>> \notin inflight

LifecycleInv ==
    /\ TypeOK /\ GateHeld /\ LockHeld /\ Quiet
    /\ CheckedInOrder /\ CheckedLocks /\ CheckedOperations /\ CheckedPointers /\ Scanned
    /\ CallsOwned /\ OneOwner /\ CallsAreMarked

-----------------------------------------------------------------------------
\* Nothing is held and nothing is written when the processes start.
LEMMA LifecycleInitInv == Init => LifecycleInv
  BY LifecycleAssumption
     DEF Init, LifecycleInv, AtWork, TypeOK, GateHeld, LockHeld, Quiet, CheckedInOrder, CheckedLocks,
         CheckedOperations, CheckedPointers, Working, Scanned, CallsOwned,
         OneOwner, CallsAreMarked, NoCall, Calls, Checks, Idle

\* A run enters a call only while the gate is open.
LEMMA BeginInv ==
    ASSUME LifecycleInv, NEW r \in Runs, NEW k \in Calls, Begin(r, k)
    PROVE  LifecycleInv'
  <1> USE LifecycleAssumption DEF LifecycleInv, runVars, cmdVars, Begin, Callable
  <1>1. TypeOK'
    BY DEF AtWork, TypeOK, Calls, NoCall, Checks
  <1>2. GateHeld'
    BY DEF AtWork, TypeOK, GateHeld
  <1>3. LockHeld'
    BY DEF AtWork, TypeOK, LockHeld
  <1>4. Quiet'
    BY DEF AtWork, TypeOK, Quiet, Idle, GateHeld
  <1>5. CheckedInOrder'
    BY DEF AtWork, TypeOK, CheckedInOrder, Working
  <1>6. CheckedLocks'
    BY DEF AtWork, TypeOK, CheckedLocks, Working
  <1>7. CheckedOperations'
    BY DEF AtWork, TypeOK, CheckedOperations, Working
  <1>8. CheckedPointers'
    BY DEF AtWork, TypeOK, CheckedPointers, Working
  <1>9. Scanned'
    BY DEF AtWork, TypeOK, Scanned
  <1>10. CallsOwned'
    BY DEF AtWork, TypeOK, CallsOwned, CallsAreMarked
  <1>11. OneOwner'
    BY DEF AtWork, TypeOK, OneOwner
  <1>12. CallsAreMarked'
    BY DEF AtWork, TypeOK, CallsAreMarked
  <1> QED
    BY <1>1, <1>2, <1>3, <1>4, <1>5, <1>6, <1>7, <1>8, <1>9, <1>10, <1>11, <1>12

\* mkdir gives the lock to one run.
LEMMA TakeLockInv ==
    ASSUME LifecycleInv, NEW r \in Runs, TakeLock(r)
    PROVE  LifecycleInv'
  <1> USE LifecycleAssumption DEF LifecycleInv, runVars, cmdVars, TakeLock
  <1>1. TypeOK'
    BY DEF AtWork, TypeOK, Calls, NoCall, Checks
  <1>2. GateHeld'
    BY DEF AtWork, TypeOK, GateHeld
  <1>3. LockHeld'
    BY DEF AtWork, TypeOK, LockHeld
  <1>4. Quiet'
    BY DEF AtWork, TypeOK, Quiet, Idle
  <1>5. CheckedInOrder'
    BY DEF AtWork, TypeOK, CheckedInOrder, Working
  <1>6. CheckedLocks'
    BY DEF AtWork, TypeOK, CheckedLocks, Working
  <1>7. CheckedOperations'
    BY DEF AtWork, TypeOK, CheckedOperations, Working
  <1>8. CheckedPointers'
    BY DEF AtWork, TypeOK, CheckedPointers, Working
  <1>9. Scanned'
    BY DEF AtWork, TypeOK, Scanned
  <1>10. CallsOwned'
    BY DEF AtWork, TypeOK, CallsOwned
  <1>11. OneOwner'
    BY DEF AtWork, TypeOK, OneOwner
  <1>12. CallsAreMarked'
    BY DEF AtWork, TypeOK, CallsAreMarked
  <1> QED
    BY <1>1, <1>2, <1>3, <1>4, <1>5, <1>6, <1>7, <1>8, <1>9, <1>10, <1>11, <1>12

\* The second look at the gate keeps a run out of a domain that was checked.
LEMMA CheckGateInv ==
    ASSUME LifecycleInv, NEW r \in Runs, CheckGateAgain(r)
    PROVE  LifecycleInv'
  <1> USE LifecycleAssumption DEF LifecycleInv, runVars, cmdVars, CheckGateAgain
  <1>1. TypeOK'
    BY DEF AtWork, TypeOK, Calls, NoCall, Checks
  <1>2. GateHeld'
    BY DEF AtWork, TypeOK, GateHeld
  <1>3. LockHeld'
    BY DEF AtWork, TypeOK, LockHeld
  <1>4. Quiet'
    BY DEF AtWork, TypeOK, Quiet, Idle
  <1>5. CheckedInOrder'
    BY DEF AtWork, TypeOK, CheckedInOrder, Working
  <1>6. CheckedLocks'
    <2>1. \A c \in Commands : Working(c) => gate = c /\ c # None
      BY DEF Working, GateHeld
    <2>2. r \in authority <=> call[r].op # "acquire"
      BY DEF CallsOwned
    <2>3. \A q \in Runs \ {r} : at'[q] = at[q]
      BY DEF TypeOK
    <2>4. at'[r] = IF gate = None THEN "in" ELSE "leaving"
      BY DEF TypeOK
    <2> QED
      BY <2>1, <2>2, <2>3, <2>4 DEF CheckedLocks, Working
  <1>7. CheckedOperations'
    BY DEF AtWork, TypeOK, CheckedOperations, Working
  <1>8. CheckedPointers'
    BY DEF AtWork, TypeOK, CheckedPointers, Working
  <1>9. Scanned'
    BY DEF AtWork, TypeOK, Scanned
  <1>10. CallsOwned'
    BY DEF AtWork, TypeOK, CallsOwned
  <1>11. OneOwner'
    BY DEF AtWork, TypeOK, OneOwner
  <1>12. CallsAreMarked'
    BY DEF AtWork, TypeOK, CallsAreMarked
  <1> QED
    BY <1>1, <1>2, <1>3, <1>4, <1>5, <1>6, <1>7, <1>8, <1>9, <1>10, <1>11, <1>12

\* The body of a lifecycle call: only a run that is inside changes its domain.
LEMMA InsideInv ==
    ASSUME LifecycleInv, NEW r \in Runs, Inside(r)
    PROVE  LifecycleInv'
  <1> USE LifecycleAssumption DEF LifecycleInv, runVars, cmdVars, Inside, Effect, Acquire, MarkDispatched, ClearAfterReceipt, ReleaseRun, ReleaseAborted
  <1>1. TypeOK'
    BY DEF AtWork, TypeOK, Calls, NoCall, Checks, CallsOwned
  <1>2. GateHeld'
    BY DEF AtWork, TypeOK, GateHeld
  <1>3. LockHeld'
    BY DEF AtWork, TypeOK, LockHeld
  <1>4. Quiet'
    BY DEF AtWork, TypeOK, Quiet, Idle
  <1>5. CheckedInOrder'
    BY DEF AtWork, TypeOK, CheckedInOrder, Working
  <1>6. CheckedLocks'
    BY DEF AtWork, TypeOK, CheckedLocks, Working
  <1>7. CheckedOperations'
    <2>1. \A d \in Domains : d # DomainOf[r] => operation'[d] = operation[d]
      BY DEF TypeOK
    <2>2. \A c \in Commands : Working(c) => <<DomainOf[r], 2>> \in left[c]
      BY DEF CheckedLocks, CheckedInOrder
    <2> QED
      BY <2>1, <2>2 DEF CheckedOperations, Working
  <1>8. CheckedPointers'
    <2>1. \A p \in pointers' \ pointers : p[1] = r
      BY DEF AtWork, TypeOK, CallsOwned, Calls
    <2>2. \A c \in Commands : Working(c) => <<DomainOf[r], 3>> \in left[c]
      BY DEF AtWork, TypeOK, CheckedLocks, CheckedInOrder
    <2> QED
      BY <2>1, <2>2 DEF AtWork, TypeOK, CheckedPointers, Working
  <1>9. Scanned'
    BY DEF AtWork, TypeOK, Scanned
  <1>10. CallsOwned'
    <2>1. \A p \in inflight' : p[1] \in authority'
      <3>1. ASSUME NEW p \in inflight', p \notin inflight
            PROVE  p[1] = r /\ r \in authority'
        BY <3>1 DEF AtWork, TypeOK, CallsOwned, Calls
      <3>2. ASSUME NEW p \in inflight, ReleaseRun(r) \/ ReleaseAborted(r)
            PROVE  p[1] # r
        BY <3>2 DEF AtWork, TypeOK, CallsAreMarked, PointersIn
      <3>3. ASSUME NEW p \in inflight PROVE p[1] \in authority'
        BY <3>2, <3>3 DEF AtWork, TypeOK, CallsOwned
      <3> QED
        BY <3>1, <3>3
    <2>2. \A q \in authority' : at'[q] # "dead"
      BY DEF AtWork, TypeOK, CallsOwned
    <2>3. ASSUME NEW q \in Runs, at'[q] \in {"locking", "regate", "in"}
          PROVE  /\ q # r /\ at[q] \in {"locking", "regate", "in"} /\ call'[q] = call[q]
                 /\ q \in authority' <=> q \in authority
      BY <2>3 DEF TypeOK
    <2>4. \A p \in inflight' \ inflight : p[1] = r
      BY DEF AtWork, TypeOK, CallsOwned, Calls
    <2> QED
      BY <2>1, <2>2, <2>3, <2>4 DEF CallsOwned
  <1>11. OneOwner'
    <2> SUFFICES ASSUME NEW q \in authority' PROVE operation'[DomainOf[q]] = q
      BY DEF OneOwner
    <2>1. CASE q = r
      <3>1. CASE r \in authority
        <4>1. operation[DomainOf[r]] = r /\ DomainOf[r] \in Domains /\ r # None
          BY <3>1 DEF OneOwner
        <4> QED
          BY <2>1, <4>1 DEF TypeOK
      <3>2. CASE r \notin authority
        BY <2>1, <3>2 DEF TypeOK
      <3> QED
        BY <3>1, <3>2
    <2>2. CASE q # r
      <3>1. q \in authority /\ operation[DomainOf[q]] = q /\ q # None
        BY <2>2 DEF AtWork, TypeOK, OneOwner
      <3> QED
        BY <2>2, <3>1 DEF TypeOK
    <2> QED
      BY <2>1, <2>2
  <1>12. CallsAreMarked'
    BY DEF AtWork, TypeOK, CallsAreMarked, CallsOwned, PointersIn
  <1> QED
    BY <1>1, <1>2, <1>3, <1>4, <1>5, <1>6, <1>7, <1>8, <1>9, <1>10, <1>11, <1>12

\* rmdir removes the run's own lock.
LEMMA LeaveInv ==
    ASSUME LifecycleInv, NEW r \in Runs, Leave(r)
    PROVE  LifecycleInv'
  <1> USE LifecycleAssumption DEF LifecycleInv, runVars, cmdVars, Leave
  <1>1. TypeOK'
    BY DEF AtWork, TypeOK, Calls, NoCall, Checks
  <1>2. GateHeld'
    BY DEF AtWork, TypeOK, GateHeld
  <1>3. LockHeld'
    BY DEF AtWork, TypeOK, LockHeld
  <1>4. Quiet'
    BY DEF AtWork, TypeOK, Quiet, Idle
  <1>5. CheckedInOrder'
    BY DEF AtWork, TypeOK, CheckedInOrder, Working
  <1>6. CheckedLocks'
    BY DEF AtWork, TypeOK, CheckedLocks, Working
  <1>7. CheckedOperations'
    BY DEF AtWork, TypeOK, CheckedOperations, Working
  <1>8. CheckedPointers'
    BY DEF AtWork, TypeOK, CheckedPointers, Working
  <1>9. Scanned'
    BY DEF AtWork, TypeOK, Scanned
  <1>10. CallsOwned'
    BY DEF AtWork, TypeOK, CallsOwned
  <1>11. OneOwner'
    BY DEF AtWork, TypeOK, OneOwner
  <1>12. CallsAreMarked'
    BY DEF AtWork, TypeOK, CallsAreMarked
  <1> QED
    BY <1>1, <1>2, <1>3, <1>4, <1>5, <1>6, <1>7, <1>8, <1>9, <1>10, <1>11, <1>12

\* An answer ends a call in flight; its pointer stays.
LEMMA SettleInv ==
    ASSUME LifecycleInv, NEW r \in Runs, NEW a \in Attempts, Settle(r, a)
    PROVE  LifecycleInv'
  <1> USE LifecycleAssumption DEF LifecycleInv, runVars, cmdVars, Settle
  <1>1. TypeOK'
    BY DEF AtWork, TypeOK, Calls, NoCall, Checks
  <1>2. GateHeld'
    BY DEF AtWork, TypeOK, GateHeld
  <1>3. LockHeld'
    BY DEF AtWork, TypeOK, LockHeld
  <1>4. Quiet'
    BY DEF AtWork, TypeOK, Quiet, Idle
  <1>5. CheckedInOrder'
    BY DEF AtWork, TypeOK, CheckedInOrder, Working
  <1>6. CheckedLocks'
    BY DEF AtWork, TypeOK, CheckedLocks, Working
  <1>7. CheckedOperations'
    BY DEF AtWork, TypeOK, CheckedOperations, Working
  <1>8. CheckedPointers'
    BY DEF AtWork, TypeOK, CheckedPointers, Working
  <1>9. Scanned'
    BY DEF AtWork, TypeOK, Scanned
  <1>10. CallsOwned'
    BY DEF AtWork, TypeOK, CallsOwned
  <1>11. OneOwner'
    BY DEF AtWork, TypeOK, OneOwner
  <1>12. CallsAreMarked'
    BY DEF AtWork, TypeOK, CallsAreMarked
  <1> QED
    BY <1>1, <1>2, <1>3, <1>4, <1>5, <1>6, <1>7, <1>8, <1>9, <1>10, <1>11, <1>12

\* A killed run loses its lease and its calls, never its files.
LEMMA CrashInv ==
    ASSUME LifecycleInv, NEW r \in Runs, Crash(r)
    PROVE  LifecycleInv'
  <1> USE LifecycleAssumption DEF LifecycleInv, runVars, cmdVars, Crash
  <1>1. TypeOK'
    BY DEF AtWork, TypeOK, Calls, NoCall, Checks
  <1>2. GateHeld'
    BY DEF AtWork, TypeOK, GateHeld
  <1>3. LockHeld'
    BY DEF AtWork, TypeOK, LockHeld
  <1>4. Quiet'
    BY DEF AtWork, TypeOK, Quiet, Idle
  <1>5. CheckedInOrder'
    BY DEF AtWork, TypeOK, CheckedInOrder, Working
  <1>6. CheckedLocks'
    BY DEF AtWork, TypeOK, CheckedLocks, Working
  <1>7. CheckedOperations'
    BY DEF AtWork, TypeOK, CheckedOperations, Working
  <1>8. CheckedPointers'
    BY DEF AtWork, TypeOK, CheckedPointers, Working
  <1>9. Scanned'
    BY DEF AtWork, TypeOK, Scanned
  <1>10. CallsOwned'
    BY DEF AtWork, TypeOK, CallsOwned, CallsAreMarked
  <1>11. OneOwner'
    BY DEF AtWork, TypeOK, OneOwner
  <1>12. CallsAreMarked'
    BY DEF AtWork, TypeOK, CallsAreMarked
  <1> QED
    BY <1>1, <1>2, <1>3, <1>4, <1>5, <1>6, <1>7, <1>8, <1>9, <1>10, <1>11, <1>12

\* A command starts with nothing checked, and one that removes markers with no
\* run in its way.
LEMMA TakeGateInv ==
    ASSUME LifecycleInv, ~StopWhileAlive, ~PrepareWhileStarting, NEW c \in Commands, TakeGate(c)
    PROVE  LifecycleInv'
  <1> USE LifecycleAssumption DEF LifecycleInv, runVars, cmdVars, TakeGate, Issued
  <1>1. TypeOK'
    BY DEF AtWork, TypeOK, Calls, NoCall, Checks
  <1>2. GateHeld'
    BY DEF AtWork, TypeOK, GateHeld
  <1>3. LockHeld'
    BY DEF AtWork, TypeOK, LockHeld
  <1>4. Quiet'
    BY DEF AtWork, TypeOK, Quiet, Idle, GateHeld
  <1>5. CheckedInOrder'
    BY DEF AtWork, TypeOK, CheckedInOrder, Working, Checks
  <1>6. CheckedLocks'
    BY DEF AtWork, TypeOK, CheckedLocks, Working, GateHeld, Checks
  <1>7. CheckedOperations'
    BY DEF AtWork, TypeOK, CheckedOperations, Working, GateHeld, Checks
  <1>8. CheckedPointers'
    BY DEF AtWork, TypeOK, CheckedPointers, Working, GateHeld, Checks
  <1>9. Scanned'
    BY DEF AtWork, TypeOK, Scanned
  <1>10. CallsOwned'
    BY DEF AtWork, TypeOK, CallsOwned
  <1>11. OneOwner'
    BY DEF AtWork, TypeOK, OneOwner
  <1>12. CallsAreMarked'
    BY DEF AtWork, TypeOK, CallsAreMarked
  <1> QED
    BY <1>1, <1>2, <1>3, <1>4, <1>5, <1>6, <1>7, <1>8, <1>9, <1>10, <1>11, <1>12

\* A check that finds nothing finds that nothing can appear any more.
LEMMA ScanInv ==
    ASSUME LifecycleInv, NEW c \in Commands, NEW d \in Domains, NEW i \in Checks, Scan(c, d, i)
    PROVE  LifecycleInv'
  <1> USE LifecycleAssumption DEF LifecycleInv, runVars, cmdVars, Scan, Found
  <1>1. TypeOK'
    BY DEF AtWork, TypeOK, Calls, NoCall, Checks
  <1>2. GateHeld'
    BY DEF AtWork, TypeOK, GateHeld, Checks
  <1>3. LockHeld'
    BY DEF AtWork, TypeOK, LockHeld
  <1>4. Quiet'
    BY DEF AtWork, TypeOK, Quiet, Idle
  <1>5. CheckedInOrder'
    <2>1. ASSUME NEW b \in Commands, Working(b)'
          PROVE  Working(b) /\ left'[b] = IF b = c THEN left[b] \ {<<d, i>>} ELSE left[b]
      <3>1. CASE b = c
        <4>1. ~Found(d, i) /\ Working(c)
          BY <2>1, <3>1 DEF AtWork, TypeOK, Working
        <4> QED
          BY <3>1, <4>1 DEF TypeOK
      <3>2. CASE b # c
        BY <2>1, <3>2 DEF AtWork, TypeOK, Working
      <3> QED
        BY <3>1, <3>2
    <2>2. i \in {1, 2, 3} /\ (i = 2 => <<d, 1>> \notin left[c])
          /\ (i = 3 => <<d, 1>> \notin left[c] /\ <<d, 2>> \notin left[c])
      BY DEF Checks
    <2> QED
      BY <2>1, <2>2 DEF CheckedInOrder
  <1>6. CheckedLocks'
    BY DEF AtWork, TypeOK, CheckedLocks, Working, LockHeld, Checks
  <1>7. CheckedOperations'
    BY DEF AtWork, TypeOK, CheckedOperations, Working, Checks
  <1>8. CheckedPointers'
    BY DEF AtWork, TypeOK, CheckedPointers, Working, Checks, PointersIn
  <1>9. Scanned'
    BY DEF AtWork, TypeOK, Scanned, GateHeld
  <1>10. CallsOwned'
    BY DEF AtWork, TypeOK, CallsOwned
  <1>11. OneOwner'
    BY DEF AtWork, TypeOK, OneOwner
  <1>12. CallsAreMarked'
    BY DEF AtWork, TypeOK, CallsAreMarked
  <1> QED
    BY <1>1, <1>2, <1>3, <1>4, <1>5, <1>6, <1>7, <1>8, <1>9, <1>10, <1>11, <1>12

\* Once prepare-new-run has looked everywhere, no run is inside a call: a run past
\* acquiring has its operation file, which was not there.
LEMMA PrepareAlone ==
    ASSUME LifecycleInv, NEW c \in Commands, KindOf[c] = "prepare", cmd[c] \in AtWork \ {"scanning"}
    PROVE  \A r \in Runs : at[r] \in {"out", "dead"}
  <1> USE LifecycleAssumption DEF LifecycleInv
  <1> SUFFICES ASSUME NEW r \in Runs, at[r] \notin {"out", "dead"} PROVE FALSE
    OBVIOUS
  <1>1. Working(c) /\ left[c] = {} /\ DomainOf[r] \in Domains
    BY DEF Working, Scanned, AtWork
  <1>2. r \notin authority
    BY <1>1 DEF CheckedOperations, OneOwner
  <1>3. call[r].op # "acquire"
    BY DEF Quiet, AtWork
  <1>4. CASE at[r] \in {"locking", "regate", "in"}
    BY <1>2, <1>3, <1>4 DEF CallsOwned
  <1>5. CASE at[r] = "leaving"
    BY <1>1, <1>2, <1>3, <1>5 DEF CheckedLocks
  <1> QED
    BY <1>4, <1>5 DEF TypeOK

\* The markers go when no owner and no call is left.
LEMMA ClearStoppedInv ==
    ASSUME LifecycleInv, NEW c \in Commands, ClearStopped(c)
    PROVE  LifecycleInv'
  <1> USE LifecycleAssumption DEF LifecycleInv, runVars, cmdVars, ClearStopped
  <1>1. TypeOK'
    BY DEF AtWork, TypeOK, Calls, NoCall, Checks
  <1>2. GateHeld'
    BY DEF AtWork, TypeOK, GateHeld
  <1>3. LockHeld'
    BY PrepareAlone DEF AtWork, TypeOK, LockHeld, Quiet, Idle
  <1>4. Quiet'
    BY DEF AtWork, TypeOK, Quiet, Idle
  <1>5. CheckedInOrder'
    BY DEF AtWork, TypeOK, CheckedInOrder, Working
  <1>6. CheckedLocks'
    BY DEF AtWork, TypeOK, CheckedLocks, Working
  <1>7. CheckedOperations'
    BY DEF AtWork, TypeOK, CheckedOperations, Working
  <1>8. CheckedPointers'
    BY DEF AtWork, TypeOK, CheckedPointers, Working
  <1>9. Scanned'
    BY DEF AtWork, TypeOK, Scanned
  <1>10. CallsOwned'
    BY DEF AtWork, TypeOK, CallsOwned
  <1>11. OneOwner'
    BY DEF AtWork, TypeOK, OneOwner, Quiet, Idle, Scanned, CheckedOperations, Working, CallsOwned
  <1>12. CallsAreMarked'
    <2>1. CASE KindOf[c] = "stop"
      BY <2>1 DEF AtWork, TypeOK, CallsAreMarked, Quiet, Idle, CallsOwned
    <2>2. CASE KindOf[c] = "prepare"
      BY <2>2 DEF AtWork, TypeOK, CallsAreMarked, Scanned, CheckedPointers, Working
    <2> QED
      BY <2>1, <2>2
  <1> QED
    BY <1>1, <1>2, <1>3, <1>4, <1>5, <1>6, <1>7, <1>8, <1>9, <1>10, <1>11, <1>12

\* The runtime directory goes when no owner and no call is left.
LEMMA ArchiveInv ==
    ASSUME LifecycleInv, NEW c \in Commands, Archive(c)
    PROVE  LifecycleInv'
  <1> USE LifecycleAssumption DEF LifecycleInv, runVars, cmdVars, Archive
  <1>1. TypeOK'
    BY DEF AtWork, TypeOK, Calls, NoCall, Checks
  <1>2. GateHeld'
    BY DEF AtWork, TypeOK, GateHeld
  <1>3. LockHeld'
    BY PrepareAlone DEF AtWork, TypeOK, LockHeld, Quiet, Idle
  <1>4. Quiet'
    BY DEF AtWork, TypeOK, Quiet, Idle
  <1>5. CheckedInOrder'
    BY DEF AtWork, TypeOK, CheckedInOrder, Working
  <1>6. CheckedLocks'
    BY DEF AtWork, TypeOK, CheckedLocks, Working
  <1>7. CheckedOperations'
    BY DEF AtWork, TypeOK, CheckedOperations, Working
  <1>8. CheckedPointers'
    BY DEF AtWork, TypeOK, CheckedPointers, Working
  <1>9. Scanned'
    BY DEF AtWork, TypeOK, Scanned
  <1>10. CallsOwned'
    BY DEF AtWork, TypeOK, CallsOwned
  <1>11. OneOwner'
    BY DEF AtWork, TypeOK, OneOwner, Quiet, Idle, Scanned, CheckedOperations, Working, CallsOwned
  <1>12. CallsAreMarked'
    <2>1. CASE KindOf[c] = "stop"
      BY <2>1 DEF AtWork, TypeOK, CallsAreMarked, Quiet, Idle, CallsOwned
    <2>2. CASE KindOf[c] = "prepare"
      BY <2>2 DEF AtWork, TypeOK, CallsAreMarked, Scanned, CheckedPointers, Working
    <2> QED
      BY <2>1, <2>2
  <1> QED
    BY <1>1, <1>2, <1>3, <1>4, <1>5, <1>6, <1>7, <1>8, <1>9, <1>10, <1>11, <1>12

\* The gate is given back by the command that took it.
LEMMA EndCommandInv ==
    ASSUME LifecycleInv, NEW c \in Commands, EndCommand(c)
    PROVE  LifecycleInv'
  <1> USE LifecycleAssumption DEF LifecycleInv, runVars, cmdVars, EndCommand
  <1>1. TypeOK'
    BY DEF AtWork, TypeOK, Calls, NoCall, Checks
  <1>2. GateHeld'
    BY DEF AtWork, TypeOK, GateHeld, Scanned
  <1>3. LockHeld'
    BY DEF AtWork, TypeOK, LockHeld
  <1>4. Quiet'
    BY DEF AtWork, TypeOK, Quiet, Idle
  <1>5. CheckedInOrder'
    BY DEF AtWork, TypeOK, CheckedInOrder, Working
  <1>6. CheckedLocks'
    BY DEF AtWork, TypeOK, CheckedLocks, Working
  <1>7. CheckedOperations'
    BY DEF AtWork, TypeOK, CheckedOperations, Working
  <1>8. CheckedPointers'
    BY DEF AtWork, TypeOK, CheckedPointers, Working
  <1>9. Scanned'
    BY DEF AtWork, TypeOK, Scanned
  <1>10. CallsOwned'
    BY DEF AtWork, TypeOK, CallsOwned
  <1>11. OneOwner'
    BY DEF AtWork, TypeOK, OneOwner
  <1>12. CallsAreMarked'
    BY DEF AtWork, TypeOK, CallsAreMarked
  <1> QED
    BY <1>1, <1>2, <1>3, <1>4, <1>5, <1>6, <1>7, <1>8, <1>9, <1>10, <1>11, <1>12

\* A killed command leaves the gate closed.
LEMMA KillCommandInv ==
    ASSUME LifecycleInv, NEW c \in Commands, KillCommand(c)
    PROVE  LifecycleInv'
  <1> USE LifecycleAssumption DEF LifecycleInv, runVars, cmdVars, KillCommand
  <1>1. TypeOK'
    BY DEF AtWork, TypeOK, Calls, NoCall, Checks
  <1>2. GateHeld'
    BY DEF AtWork, TypeOK, GateHeld
  <1>3. LockHeld'
    BY DEF AtWork, TypeOK, LockHeld
  <1>4. Quiet'
    BY DEF AtWork, TypeOK, Quiet, Idle
  <1>5. CheckedInOrder'
    BY DEF AtWork, TypeOK, CheckedInOrder, Working
  <1>6. CheckedLocks'
    BY DEF AtWork, TypeOK, CheckedLocks, Working
  <1>7. CheckedOperations'
    BY DEF AtWork, TypeOK, CheckedOperations, Working
  <1>8. CheckedPointers'
    BY DEF AtWork, TypeOK, CheckedPointers, Working
  <1>9. Scanned'
    BY DEF AtWork, TypeOK, Scanned
  <1>10. CallsOwned'
    BY DEF AtWork, TypeOK, CallsOwned
  <1>11. OneOwner'
    BY DEF AtWork, TypeOK, OneOwner
  <1>12. CallsAreMarked'
    BY DEF AtWork, TypeOK, CallsAreMarked
  <1> QED
    BY <1>1, <1>2, <1>3, <1>4, <1>5, <1>6, <1>7, <1>8, <1>9, <1>10, <1>11, <1>12

-----------------------------------------------------------------------------
\* Every step of a run or of a command preserves the invariant.
LEMMA LifecycleNextInv ==
    ASSUME StopWhileAlive = FALSE, PrepareWhileStarting = FALSE, LifecycleInv, [Next]_vars
    PROVE  LifecycleInv'
  <1>1. CASE UNCHANGED vars
    BY <1>1 DEF LifecycleInv, vars, runVars, cmdVars, TypeOK, GateHeld, LockHeld, Quiet,
         CheckedInOrder, CheckedLocks, CheckedOperations, CheckedPointers, Working, Scanned,
         CallsOwned, OneOwner, CallsAreMarked, Idle
  <1>2. CASE \E r \in Runs : RunStep(r) \/ (\E k \in Calls : Begin(r, k))
                                \/ (\E a \in Attempts : Settle(r, a)) \/ Crash(r)
    BY <1>2, BeginInv, TakeLockInv, CheckGateInv, InsideInv, LeaveInv, SettleInv, CrashInv DEF RunStep
  <1>3. CASE \E c \in Commands : TakeGate(c) \/ ClearStopped(c) \/ Archive(c) \/ EndCommand(c) \/ KillCommand(c)
                                \/ (\E d \in Domains, i \in Checks : Scan(c, d, i))
    BY <1>3, TakeGateInv, ScanInv, ClearStoppedInv, ArchiveInv, EndCommandInv, KillCommandInv
  <1> QED
    BY <1>1, <1>2, <1>3 DEF Next

\* The strengthened invariant holds throughout, provided stop is issued only
\* once the run processes are gone, as run.sh issues it, and prepare-new-run not
\* while a run acquires, which nothing in the code sees to.
THEOREM LifecycleInvariant ==
    ASSUME StopWhileAlive = FALSE, PrepareWhileStarting = FALSE
    PROVE  Spec => []LifecycleInv
  BY LifecycleInitInv, LifecycleNextInv, PTL DEF Spec

\* The files, the runs and the commands are always of their types.
THEOREM LifecycleTypeCorrect ==
    ASSUME StopWhileAlive = FALSE, PrepareWhileStarting = FALSE
    PROVE  Spec => []TypeOK
  <1>1. LifecycleInv => TypeOK
    BY DEF LifecycleInv
  <1> QED
    BY <1>1, LifecycleInvariant, PTL

\* No command changes the provider services under a run: the two-flag handshake
\* of the gate and the domain locks is sound for any number of processes as long
\* as nobody removes the lock of a run that is alive, which is what the two
\* assumptions say; without the second one it is not.
THEOREM LifecycleExclusion ==
    ASSUME StopWhileAlive = FALSE, PrepareWhileStarting = FALSE
    PROVE  Spec => []MutationExcludesRun
  <1>1. LifecycleInv => MutationExcludesRun
    <2> SUFFICES ASSUME LifecycleInv, NEW c \in Mutating
                 PROVE  /\ \A d \in Domains : operation[d] = None
                        /\ pointers = {} /\ inflight = {}
                        /\ \A r \in Runs : at[r] # "in"
      BY DEF MutationExcludesRun
    <2>1. c \in Commands /\ Working(c) /\ left[c] = {}
      BY DEF LifecycleInv, Mutating, AtWork, Working, Scanned
    <2>2. pointers = {} /\ inflight = {}
      BY <2>1 DEF LifecycleInv, CheckedPointers, CallsAreMarked
    <2>3. \A r \in Runs : at[r] # "in"
      BY <2>1 DEF LifecycleInv, CheckedLocks
    <2> QED
      BY <2>1, <2>2, <2>3 DEF LifecycleInv, CheckedOperations
  <1> QED
    BY <1>1, LifecycleInvariant, PTL

\* A live run that believes it owns a domain is the one the file names, if the two
\* commands that remove markers are issued as assumed.
THEOREM LifecycleOneOwner ==
    ASSUME StopWhileAlive = FALSE, PrepareWhileStarting = FALSE
    PROVE  Spec => []OneOwner
  <1>1. LifecycleInv => OneOwner
    BY DEF LifecycleInv
  <1> QED
    BY <1>1, LifecycleInvariant, PTL

\* A live run's calls in flight are all visible to other processes, under the
\* same assumptions.
THEOREM LifecycleCallsMarked ==
    ASSUME StopWhileAlive = FALSE, PrepareWhileStarting = FALSE
    PROVE  Spec => []CallsAreMarked
  <1>1. LifecycleInv => CallsAreMarked
    BY DEF LifecycleInv
  <1> QED
    BY <1>1, LifecycleInvariant, PTL

\* A live run that goes on owns its domain and has its calls marked, if stop and
\* prepare-new-run are issued as assumed.
THEOREM LifecycleOwnersMarked ==
    ASSUME StopWhileAlive = FALSE, PrepareWhileStarting = FALSE
    PROVE  Spec => []OwnersMarked
  BY LifecycleOneOwner, LifecycleCallsMarked, PTL DEF OwnersMarked

\* Every way out of a lifecycle call gives the domain lock back and every way out
\* of a command the gate, whenever stop and prepare-new-run are issued.
THEOREM LifecycleLockGivenBack == Spec => []LockGivenBack
  <1> DEFINE LockInv == /\ lock \in [Domains -> Runs \cup {None}]
                        /\ at \in [Runs -> {"out", "locking", "regate", "in", "leaving", "dead"}]
                        /\ cmd \in [Commands -> {"idle", "dead"} \cup AtWork]
                        /\ LockGivenBack
  <1> USE LifecycleAssumption DEF AtWork, cmdVars
  <1>1. Init => LockInv
    BY DEF Init, LockGivenBack
  <1>2. LockInv /\ [Next]_vars => LockInv'
    <2> SUFFICES ASSUME LockInv, [Next]_vars PROVE LockInv'
      OBVIOUS
    <2>1. ASSUME NEW r \in Runs, TakeLock(r) PROVE LockInv'
      BY <2>1 DEF TakeLock, LockGivenBack
    <2>2. ASSUME NEW r \in Runs, CheckGateAgain(r) PROVE LockInv'
      BY <2>2 DEF CheckGateAgain, LockGivenBack
    <2>3. ASSUME NEW r \in Runs, Inside(r) PROVE LockInv'
      BY <2>3 DEF Inside, LockGivenBack
    <2>4. ASSUME NEW r \in Runs, Leave(r) PROVE LockInv'
      BY <2>4 DEF Leave, LockGivenBack
    <2>5. ASSUME NEW r \in Runs, (\E k \in Calls : Begin(r, k)) \/ (\E a \in Attempts : Settle(r, a)) \/ Crash(r)
          PROVE  LockInv'
      BY <2>5 DEF Begin, Settle, Crash, LockGivenBack
    <2>6. ASSUME NEW c \in Commands, TakeGate(c) \/ ClearStopped(c) \/ Archive(c) \/ EndCommand(c) \/ KillCommand(c)
          PROVE  LockInv'
      BY <2>6 DEF TakeGate, ClearStopped, Archive, EndCommand, KillCommand, runVars, LockGivenBack
    <2>7. ASSUME NEW c \in Commands, NEW d \in Domains, NEW k \in Checks, Scan(c, d, k) PROVE LockInv'
      BY <2>7 DEF Scan, runVars, LockGivenBack
    <2>8. CASE UNCHANGED vars
      BY <2>8 DEF vars, runVars, LockGivenBack
    <2> QED
      BY <2>1, <2>2, <2>3, <2>4, <2>5, <2>6, <2>7, <2>8 DEF Next, RunStep
  <1> QED
    BY <1>1, <1>2, PTL DEF Spec
=============================================================================
