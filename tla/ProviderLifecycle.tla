-------------------------- MODULE ProviderLifecycle --------------------------
(***************************************************************************)
(* The lifecycle protocol that benchmark runs (runtime/provider_lifecycle  *)
(* .py) and the operator's commands (provider-services/lib/lifecycle.sh)   *)
(* share through the file system.  Every lock is a directory made with     *)
(* mkdir, nobody waits for one, and a process that is killed leaves what   *)
(* it made behind.                                                         *)
(*                                                                         *)
(*   - a run takes the lock of its provider's domain, and looks for the    *)
(*     operators' gate before AND after taking it;                         *)
(*   - a guarded command (up, verify) takes the gate and then looks, in    *)
(*     each domain, for a lock, an active operation and active attempts;   *)
(*   - prepare-new-run does the same, and stop does not look at all; both  *)
(*     remove every marker and every domain lock they find, and the first  *)
(*     moves what is left of the runtime directory away.                   *)
(*                                                                         *)
(* The code leaves it to whoever issues the two commands that remove       *)
(* markers to see that no run is in the way; two constants say whether he  *)
(* does.                                                                   *)
(***************************************************************************)
EXTENDS Naturals, FiniteSets

CONSTANTS
    Domains,         \* provider domains, each with a lock of its own
    Runs,            \* benchmark run processes
    DomainOf,        \* the domain of each run
    Attempts,        \* provider attempts of a run
    Commands,        \* operator commands
    KindOf,          \* "guarded", "prepare" or "stop", for each command
    StopWhileAlive,  \* may stop be issued while a run process is alive?
    PrepareWhileStarting,
                     \* may prepare-new-run be issued while a run acquires?
    None             \* no holder

ASSUME LifecycleAssumption ==
    /\ DomainOf \in [Runs -> Domains]
    /\ KindOf \in [Commands -> {"guarded", "prepare", "stop"}]
    /\ StopWhileAlive \in BOOLEAN
    /\ PrepareWhileStarting \in BOOLEAN
    /\ None \notin Runs \cup Commands

VARIABLES
    gate,        \* the coordination lock: None or the command that made it
    lock,        \* each domain's lock: None or the run that made it
    operation,   \* each domain's active-operation file: None or its run
    pointers,    \* the active-provider-attempts files: pairs <<run, attempt>>
    at,          \* where each run is in a lifecycle call
    call,        \* the lifecycle call it is making
    authority,   \* the runs that hold a lease in memory
    inflight,    \* attempts sent to a provider and not answered
    cmd,         \* where each command is
    left         \* the checks a command has still to make

runVars == <<at, call, authority, inflight>>
cmdVars == <<cmd, left>>
vars == <<gate, lock, operation, pointers, runVars, cmdVars>>

NoCall == [op |-> "none", attempt |-> None]

Calls == [op : {"acquire", "release", "releaseAborted"}, attempt : {None}]
         \cup [op : {"mark", "clear"}, attempt : Attempts]

\* Where a command is that holds the gate and is alive.
AtWork == {"scanning", "mutating", "cleared", "archived"}

\* The three checks reject_active_provider_domains makes in a domain, in order.
Checks == 1..3

TypeOK ==
    /\ gate \in Commands \cup {None}
    /\ lock \in [Domains -> Runs \cup {None}]
    /\ operation \in [Domains -> Runs \cup {None}]
    /\ pointers \subseteq Runs \X Attempts
    /\ at \in [Runs -> {"out", "locking", "regate", "in", "leaving", "dead"}]
    /\ call \in [Runs -> Calls \cup {NoCall}]
    /\ authority \subseteq Runs
    /\ inflight \subseteq Runs \X Attempts
    /\ cmd \in [Commands -> {"idle", "dead"} \cup AtWork]
    /\ left \in [Commands -> SUBSET (Domains \X Checks)]

Init ==
    /\ gate = None
    /\ lock = [d \in Domains |-> None]
    /\ operation = [d \in Domains |-> None]
    /\ pointers = {}
    /\ at = [r \in Runs |-> "out"]
    /\ call = [r \in Runs |-> NoCall]
    /\ authority = {}
    /\ inflight = {}
    /\ cmd = [c \in Commands |-> "idle"]
    /\ left = [c \in Commands |-> {}]

-----------------------------------------------------------------------------
(* A run.                                                                  *)

PointersIn(d) == {p \in pointers : DomainOf[p[1]] = d}

\* The calls the run loop makes: it dispatches while it holds the lease, and
\* clears a pointer once the attempt's receipt is sealed.
Callable(r, k) ==
    /\ r \in authority <=> k.op # "acquire"
    /\ k.op = "mark" => <<r, k.attempt>> \notin pointers \cup inflight
    /\ k.op = "clear" => <<r, k.attempt>> \in pointers \ inflight

\* _require_coordination_gate_available, the first time.  A closed gate raises.
Begin(r, k) ==
    /\ at[r] = "out" /\ Callable(r, k)
    /\ gate = None
    /\ at' = [at EXCEPT ![r] = "locking"]
    /\ call' = [call EXCEPT ![r] = k]
    /\ UNCHANGED <<gate, lock, operation, pointers, authority, inflight, cmdVars>>

\* _directory_lifecycle_lock: mkdir succeeds, or raises at once, because the
\* lock is there or because the directory was moved away under it.
TakeLock(r) ==
    /\ at[r] = "locking"
    /\ \/ /\ lock[DomainOf[r]] = None
          /\ lock' = [lock EXCEPT ![DomainOf[r]] = r]
          /\ at' = [at EXCEPT ![r] = "regate"]
       \/ /\ at' = [at EXCEPT ![r] = "out"]
          /\ UNCHANGED lock
    /\ UNCHANGED <<gate, operation, pointers, call, authority, inflight, cmdVars>>

\* As a bug would have it: the gate is looked at only before taking the lock.
CheckGateOnce(r) ==
    /\ at[r] = "regate"
    /\ at' = [at EXCEPT ![r] = "in"]
    /\ UNCHANGED <<gate, lock, operation, pointers, call, authority, inflight, cmdVars>>

\* As a bug would have it: a refusal by the gate leaves the domain lock behind.
CheckGateKeepingLock(r) ==
    /\ at[r] = "regate"
    /\ at' = [at EXCEPT ![r] = IF gate = None THEN "in" ELSE "out"]
    /\ UNCHANGED <<gate, lock, operation, pointers, call, authority, inflight, cmdVars>>

CheckGateAgain(r) ==
    /\ at[r] = "regate"
    /\ at' = [at EXCEPT ![r] = IF gate = None THEN "in" ELSE "leaving"]
    /\ UNCHANGED <<gate, lock, operation, pointers, call, authority, inflight, cmdVars>>

\* acquire_run, inside the lock.
Acquire(r) ==
    /\ operation[DomainOf[r]] = None
    /\ PointersIn(DomainOf[r]) = {}
    /\ operation' = [operation EXCEPT ![DomainOf[r]] = r]
    /\ authority' = authority \cup {r}
    /\ UNCHANGED <<pointers, inflight>>

\* As a bug would have it: the attempt is dispatched without its pointer.
MarkNothing(r, a) ==
    /\ operation[DomainOf[r]] = r
    /\ inflight' = inflight \cup {<<r, a>>}
    /\ UNCHANGED <<operation, authority, pointers>>

\* mark_attempt_dispatched; the provider call follows as soon as it returns.
MarkDispatched(r, a) ==
    /\ operation[DomainOf[r]] = r
    /\ pointers' = pointers \cup {<<r, a>>}
    /\ inflight' = inflight \cup {<<r, a>>}
    /\ UNCHANGED <<operation, authority>>

\* clear_attempt_after_receipt.
ClearAfterReceipt(r, a) ==
    /\ operation[DomainOf[r]] = r
    /\ <<r, a>> \in pointers
    /\ pointers' = pointers \ {<<r, a>>}
    /\ UNCHANGED <<operation, authority, inflight>>

ReleaseRun(r) ==
    /\ PointersIn(DomainOf[r]) = {}
    /\ operation[DomainOf[r]] = r
    /\ operation' = [operation EXCEPT ![DomainOf[r]] = None]
    /\ authority' = authority \ {r}
    /\ UNCHANGED <<pointers, inflight>>

\* release_supervised_aborted_run: its caller has ended the run, so that no
\* call of it is in flight; every pointer must be the run's own.
ReleaseAborted(r) ==
    /\ operation[DomainOf[r]] = r
    /\ \A p \in PointersIn(DomainOf[r]) : p[1] = r
    /\ \A p \in inflight : p[1] # r
    /\ pointers' = pointers \ PointersIn(DomainOf[r])
    /\ operation' = [operation EXCEPT ![DomainOf[r]] = None]
    /\ authority' = authority \ {r}
    /\ UNCHANGED inflight

Effect(r) ==
    \/ call[r].op = "acquire" /\ Acquire(r)
    \/ call[r].op = "mark" /\ MarkDispatched(r, call[r].attempt)
    \/ call[r].op = "clear" /\ ClearAfterReceipt(r, call[r].attempt)
    \/ call[r].op = "release" /\ ReleaseRun(r)
    \/ call[r].op = "releaseAborted" /\ ReleaseAborted(r)

\* The body of the call takes effect, or raises without one; either way the
\* lock is given back next.
Inside(r) ==
    /\ at[r] = "in"
    /\ Effect(r) \/ UNCHANGED <<operation, pointers, authority, inflight>>
    /\ at' = [at EXCEPT ![r] = "leaving"]
    /\ UNCHANGED <<gate, lock, call, cmdVars>>

\* rmdir removes whatever lock is there, and raises when there is none.
Leave(r) ==
    /\ at[r] = "leaving"
    /\ lock' = [lock EXCEPT ![DomainOf[r]] = None]
    /\ at' = [at EXCEPT ![r] = "out"]
    /\ call' = [call EXCEPT ![r] = NoCall]
    /\ UNCHANGED <<gate, operation, pointers, authority, inflight, cmdVars>>

\* The provider answers, or the call is given up as failed or unknown.
Settle(r, a) ==
    /\ at[r] = "out" /\ <<r, a>> \in inflight
    /\ inflight' = inflight \ {<<r, a>>}
    /\ UNCHANGED <<gate, lock, operation, pointers, at, call, authority, cmdVars>>

\* The process is killed.  Its calls end with it; its files stay.
Crash(r) ==
    /\ at[r] # "dead"
    /\ at' = [at EXCEPT ![r] = "dead"]
    /\ authority' = authority \ {r}
    /\ inflight' = {p \in inflight : p[1] # r}
    /\ UNCHANGED <<gate, lock, operation, pointers, call, cmdVars>>

-----------------------------------------------------------------------------
(* An operator's command.                                                  *)

Idle(r) == at[r] = "dead" \/ (at[r] = "out" /\ r \notin authority)

\* When the two commands that remove markers are issued, as far as the code
\* does not see to it.  run.sh kills the runs' whole process group before it
\* issues stop, an operator need not.  prepare-new-run looks for a live run's
\* marker itself, but a run that is only just acquiring has none.
Issued(c) ==
    /\ KindOf[c] = "stop" => StopWhileAlive \/ \A r \in Runs : Idle(r)
    /\ KindOf[c] = "prepare" =>
          PrepareWhileStarting \/ \A r \in Runs :
              at[r] \in {"out", "dead"} \/ call[r].op # "acquire"

\* acquire_lifecycle_lock or, for stop, acquire_lifecycle_stop_lock.
TakeGate(c) ==
    /\ cmd[c] = "idle" /\ gate = None
    /\ Issued(c)
    /\ gate' = c
    /\ cmd' = [cmd EXCEPT ![c] = IF KindOf[c] = "stop" THEN "mutating" ELSE "scanning"]
    /\ left' = [left EXCEPT ![c] = IF KindOf[c] = "stop" THEN {} ELSE Domains \X Checks]
    /\ UNCHANGED <<lock, operation, pointers, runVars>>

Found(d, k) ==
    \/ k = 1 /\ lock[d] # None
    \/ k = 2 /\ operation[d] # None
    \/ k = 3 /\ PointersIn(d) # {}

\* One check of reject_active_provider_domains; what it finds ends the command,
\* whose exit trap removes the gate.
Scan(c, d, k) ==
    /\ cmd[c] = "scanning" /\ <<d, k>> \in left[c]
    /\ \A j \in 1..(k - 1) : <<d, j>> \notin left[c]
    /\ IF Found(d, k)
       THEN /\ gate' = None
            /\ cmd' = [cmd EXCEPT ![c] = "idle"]
            /\ left' = [left EXCEPT ![c] = {}]
       ELSE /\ left' = [left EXCEPT ![c] = @ \ {<<d, k>>}]
            /\ cmd' = [cmd EXCEPT ![c] = IF left'[c] = {} THEN "mutating" ELSE "scanning"]
            /\ UNCHANGED gate
    /\ UNCHANGED <<lock, operation, pointers, runVars>>

\* clear_stopped_provider_lifecycle, after the containers were stopped.
ClearStopped(c) ==
    /\ cmd[c] = "mutating" /\ KindOf[c] # "guarded"
    /\ operation' = [d \in Domains |-> None]
    /\ pointers' = {}
    /\ lock' = [d \in Domains |-> None]
    /\ cmd' = [cmd EXCEPT ![c] = "cleared"]
    /\ UNCHANGED <<gate, left, runVars>>

\* prepare_new_run: every entry of the runtime directory is moved away, but the
\* gate.
Archive(c) ==
    /\ cmd[c] = "cleared" /\ KindOf[c] = "prepare"
    /\ operation' = [d \in Domains |-> None]
    /\ pointers' = {}
    /\ lock' = [d \in Domains |-> None]
    /\ cmd' = [cmd EXCEPT ![c] = "archived"]
    /\ UNCHANGED <<gate, left, runVars>>

\* release_lifecycle_lock: at the end, at an error and at a signal that is
\* trapped, wherever the command is.
EndCommand(c) ==
    /\ cmd[c] \in AtWork
    /\ gate' = None
    /\ cmd' = [cmd EXCEPT ![c] = "idle"]
    /\ left' = [left EXCEPT ![c] = {}]
    /\ UNCHANGED <<lock, operation, pointers, runVars>>

\* The command is killed where no trap runs: its gate stays.
KillCommand(c) ==
    /\ cmd[c] \in AtWork
    /\ cmd' = [cmd EXCEPT ![c] = "dead"]
    /\ left' = [left EXCEPT ![c] = {}]
    /\ UNCHANGED <<gate, lock, operation, pointers, runVars>>

-----------------------------------------------------------------------------
RunStep(r) ==
    \/ TakeLock(r) \/ CheckGateAgain(r) \/ Inside(r) \/ Leave(r)

Next ==
    \/ \E r \in Runs :
          \/ RunStep(r)
          \/ \E k \in Calls : Begin(r, k)
          \/ \E a \in Attempts : Settle(r, a)
          \/ Crash(r)
    \/ \E c \in Commands :
          \/ TakeGate(c) \/ ClearStopped(c) \/ Archive(c) \/ EndCommand(c) \/ KillCommand(c)
          \/ \E d \in Domains, k \in Checks : Scan(c, d, k)

Spec == Init /\ [][Next]_vars

-----------------------------------------------------------------------------
Mutating == {c \in Commands : cmd[c] \in AtWork \ {"scanning"} /\ KindOf[c] # "stop"}

\* While up, verify or prepare-new-run changes the provider services, no domain
\* has an active operation or attempt, no call to a provider is in flight, and
\* no run is past its second look at the gate and about to write its marker.
MutationExcludesRun ==
    Mutating # {} =>
        /\ \A d \in Domains : operation[d] = None
        /\ pointers = {} /\ inflight = {}
        /\ \A r \in Runs : at[r] # "in"

\* At most one live run believes it owns a domain, and it is the one the
\* active-operation file names.
OneOwner ==
    \A r \in authority : operation[DomainOf[r]] = r

\* As long as a live run waits for a provider, the file that tells other
\* processes so is there.
CallsAreMarked == inflight \subseteq pointers

\* A run that goes on has its domain for itself, and whoever looks at the files
\* sees the calls it waits for.
OwnersMarked == OneOwner /\ CallsAreMarked

\* A lock is given back unless its holder is killed: every way out of a
\* lifecycle call, the refusals included, removes the domain lock, and every way
\* out of a command, its errors and the signals it traps included, the gate.  So
\* no run and no command is kept out by a lock that a live process forgot.
LockGivenBack ==
    /\ \A r \in Runs : lock[DomainOf[r]] = r => at[r] \in {"regate", "in", "leaving", "dead"}
    /\ \A c \in Commands : gate = c => cmd[c] # "idle"
=============================================================================
