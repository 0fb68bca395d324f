---------------------------- MODULE NativeAttempt ----------------------------
(***************************************************************************)
(* How a live run makes one paid provider call (runtime/native_run.py):    *)
(* reserve budget, seal the claim, the reservation and the intent, publish *)
(* the active-attempt pointer, call; then seal the receipt and the attempt *)
(* record, account, settle the budget and clear the pointer.               *)
(*                                                                         *)
(* Attempts are coroutines of one event loop: between two awaits an        *)
(* attempt runs alone, and the call is the only await.  But the process    *)
(* may be killed between any two steps, which loses the ledger and keeps   *)
(* the files; a step may raise, which leaves the attempt where it is.      *)
(***************************************************************************)
EXTENDS BudgetLedger

CONSTANTS
    RequestOf,       \* what each attempt reserves: its route's allocations
    MemoryCalls,     \* the attempts of memory-system stages; the others are
                     \* answer and judge calls
    Ingests          \* the memory calls that ingest a batch

ASSUME AttemptAssumption ==
    /\ RequestOf \in [Ids -> Requests]
    /\ \A i \in Ids : RequestOf[i].multiOwner
    /\ MemoryCalls \subseteq Ids
    /\ Ingests \subseteq MemoryCalls

\* An attempt is charged its whole reservation.
ASSUME ChargesAssumption ==
    \A i \in Ids : /\ RequestOf[i].maximum \in Observations
                   /\ RequestOf[i].alloc \in [DOMAIN RequestOf[i].alloc -> Observations]

VARIABLES
    step,            \* the last step each attempt has made
    outcome,         \* how its call ended
    sealed,          \* the records of each attempt in the capsule
    pointers,        \* active-provider-attempts
    sent,            \* the attempts whose request may have reached a provider
    process,         \* "running", "stopping" (admits no new attempt), "dead"
    broken           \* attempts in which a step raised

attemptVars == <<step, outcome, sealed, pointers, sent, process, broken>>
vars == <<ledgerVars, attemptVars>>

Steps == {"new", "reserved", "claimed", "held", "intended", "calling", "answered",
          "received", "recorded", "accounted", "settled", "cleared", "done"}

Kinds == {"claim", "reservation", "intent", "receipt", "attempt", "accounts"}

\* succeeded, failed: a receipt; unknown: a typed unknown outcome; cancelled: a
\* bare asyncio.CancelledError; unsent: cancelled before dispatch.
Outcomes == {"succeeded", "failed", "unknown", "cancelled", "unsent"}

AttemptTypeOK ==
    /\ LedgerTypeOK
    /\ step \in [Ids -> Steps]
    /\ outcome \in [Ids -> Outcomes \cup {"none"}]
    /\ sealed \in [Ids -> SUBSET Kinds]
    /\ pointers \subseteq Ids
    /\ sent \subseteq Ids
    /\ process \in {"running", "stopping", "dead"}
    /\ broken \subseteq Ids

Init ==
    /\ LedgerInit
    /\ step = [i \in Ids |-> "new"]
    /\ outcome = [i \in Ids |-> "none"]
    /\ sealed = [i \in Ids |-> {}]
    /\ pointers = {}
    /\ sent = {}
    /\ process = "running"
    /\ broken = {}

-----------------------------------------------------------------------------
\* The attempts between two awaits: at most one, the one the loop is running.
OnTheLoop == {i \in Ids \ broken : step[i] \notin {"new", "calling", "done"}}

Turn(i) == process # "dead" /\ i \notin broken /\ OnTheLoop \subseteq {i}

Advance(i, from, to) == step[i] = from /\ step' = [step EXCEPT ![i] = to]

Seal(i, kind) == sealed' = [sealed EXCEPT ![i] = @ \cup {kind}]

\* ledger.reserve.  An ingest and a model call look for a stop first; the
\* projections and the retrieval of a question that was admitted do not.
Admit(i) ==
    /\ Turn(i)
    /\ process = "running" \/ i \in MemoryCalls \ Ingests
    /\ Advance(i, "new", "reserved")
    /\ Reserve(i, RequestOf[i])
    /\ UNCHANGED <<outcome, sealed, pointers, sent, process, broken>>

\* The create-only seals, in the order the code makes them.
SealClaim(i) == Advance(i, "reserved", "claimed") /\ Seal(i, "claim")

SealReservation(i) == Advance(i, "claimed", "held") /\ Seal(i, "reservation")

SealIntent(i) == Advance(i, "held", "intended") /\ Seal(i, "intent")

SealReceipt(i) == Advance(i, "answered", "received") /\ Seal(i, "receipt")

\* As a bug would have it: the budget is settled before the record is sealed.
SealAttemptLater(i) == Advance(i, "received", "recorded") /\ UNCHANGED sealed

SealAttempt(i) == Advance(i, "received", "recorded") /\ Seal(i, "attempt")
SealAccounts(i) ==
    /\ outcome[i] \in {"succeeded", "failed"}
    /\ Advance(i, "recorded", "accounted") /\ Seal(i, "accounts")

SealStep(i) ==
    /\ Turn(i)
    /\ \/ SealClaim(i) \/ SealReservation(i) \/ SealIntent(i)
       \/ SealReceipt(i) \/ SealAttempt(i) \/ SealAccounts(i)
    /\ UNCHANGED <<ledgerVars, outcome, pointers, sent, process, broken>>

\* mark_attempt_dispatched returns and the call is awaited.
Mark(i) ==
    /\ Turn(i)
    /\ Advance(i, "intended", "calling")
    /\ pointers' = pointers \cup {i}
    /\ sent' = sent \cup {i}
    /\ UNCHANGED <<ledgerVars, outcome, sealed, process, broken>>

\* The call returns or raises.  Only a memory-system adapter reports that its
\* request was never sent.  Nothing was, when it is cancelled in the wait for a
\* lock; a client that is closed refuses a later request of the same call in the
\* same way, but a run closes its clients when all its calls are over.
Answer(i, o) ==
    /\ Turn(i)
    /\ Advance(i, "calling", "answered")
    /\ o = "unsent" => i \in MemoryCalls
    /\ outcome' = [outcome EXCEPT ![i] = o]
    /\ sent' = IF o = "unsent" THEN sent \ {i} ELSE sent
    /\ UNCHANGED <<ledgerVars, sealed, pointers, process, broken>>

\* The budget is charged the maximum, kept on hold, or given back.
SettleBudget(i) ==
    \/ /\ Advance(i, "accounted", "settled")
       /\ CommitOwners(i, RequestOf[i].maximum, RequestOf[i].alloc)
    \/ /\ outcome[i] \in {"unknown", "cancelled"}
       /\ Advance(i, "recorded", "settled")
       /\ MarkUnknown(i)
    \/ /\ outcome[i] = "unsent"
       /\ Advance(i, "recorded", "settled")
       /\ CancelBeforeDispatch(i)

Settle(i) ==
    /\ Turn(i)
    /\ SettleBudget(i)
    /\ UNCHANGED <<outcome, sealed, pointers, sent, process, broken>>

\* As a bug would have it: every settled attempt gives up its pointer.
ClearsAlways(i) == TRUE

\* Whether the pointer goes: a memory call of unknown outcome keeps it, and so
\* does any call that was cancelled.
Clears(i) ==
    \/ outcome[i] \in {"succeeded", "failed", "unsent"}
    \/ outcome[i] = "unknown" /\ i \notin MemoryCalls

\* An ingest that has a raw error and no accounts is accounted after it was
\* settled, and the cancelled one is such.
Recounts(i) == i \in Ingests /\ outcome[i] = "unsent"

Finish(i) ==
    /\ Turn(i)
    /\ Advance(i, "settled", IF Recounts(i) THEN "cleared" ELSE "done")
    /\ pointers' = IF Clears(i) THEN pointers \ {i} ELSE pointers
    /\ UNCHANGED <<ledgerVars, outcome, sealed, sent, process, broken>>

\* The accounts are sealed, and the commit raises: the reservation is closed.
AccountAgain(i) ==
    /\ Turn(i)
    /\ step[i] = "cleared"
    /\ Seal(i, "accounts")
    /\ broken' = broken \cup {i}
    /\ process' = "stopping"
    /\ UNCHANGED <<ledgerVars, step, outcome, pointers, sent>>

\* A step raises: a seal finds no space or a record already there, or the
\* lifecycle lock is busy.  The error ends the run's admission.
Raise(i) ==
    /\ Turn(i) /\ i \in OnTheLoop
    /\ broken' = broken \cup {i}
    /\ process' = "stopping"
    /\ UNCHANGED <<ledgerVars, step, outcome, sealed, pointers, sent>>

\* A signal, or the failure of another operation, stops admission.
StopAdmission ==
    /\ process = "running"
    /\ process' = "stopping"
    /\ UNCHANGED <<ledgerVars, step, outcome, sealed, pointers, sent, broken>>

Kill ==
    /\ process # "dead"
    /\ process' = "dead"
    /\ UNCHANGED <<ledgerVars, step, outcome, sealed, pointers, sent, broken>>

AttemptStep(i) ==
    Admit(i) \/ SealStep(i) \/ Mark(i) \/ (\E o \in Outcomes : Answer(i, o)) \/ Settle(i) \/ Finish(i)
        \/ AccountAgain(i)

Next ==
    \/ \E i \in Ids : AttemptStep(i) \/ Raise(i)
    \/ StopAdmission \/ Kill

Spec == Init /\ [][Next]_vars

-----------------------------------------------------------------------------
\* Write-ahead: whenever a request may have reached a provider or has a pointer,
\* also after the process was killed, its claim, reservation and intent are in
\* the capsule.  Without the intent behind each pointer, the release of the lease
\* of an aborted run could not be verified.
SentIsRecorded == \A i \in sent \cup pointers : {"claim", "reservation", "intent"} \subseteq sealed[i]

\* Whatever is killed when: a request that may have reached a provider has its
\* attempt record, or still has the pointer that makes others ask about it; and
\* a memory system that may or may not have applied one keeps the pointer.
SentIsVisible ==
    \A i \in sent \ pointers :
        /\ "attempt" \in sealed[i]
        /\ i \in MemoryCalls => outcome[i] \in {"succeeded", "failed"}

\* Spending is never understated: a request that may have reached a provider
\* is charged or on hold, so that the ceilings bound the calls really made.
SentIsBudgeted == \A i \in sent : state[i] \in {"reserved", "committed", "unknown"}

\* A request that may have reached a provider can be asked about and paid for,
\* wherever the process is killed: its records were there first, its attempt
\* record or its pointer shows it, and the ledger holds or charges it.
SentIsAccountable == SentIsRecorded /\ SentIsVisible /\ SentIsBudgeted

\* The ledger and the capsule tell the same story of every settled attempt, but
\* for the accounts of one that raised; and the ledger never settles an attempt
\* that has no attempt record yet.
LedgerMatchesRecords ==
    \A i \in Ids : state[i] \notin {"none", "reserved"} =>
        /\ {"receipt", "attempt"} \subseteq sealed[i]
        /\ state[i] = "committed" => "accounts" \in sealed[i]
        /\ state[i] = "unknown" => "accounts" \notin sealed[i]
        /\ "accounts" \in sealed[i] => state[i] = "committed" \/ i \in broken
        /\ state[i] = "cancelled" => i \notin sent

\* When nothing is in progress, no reservation is open except those of
\* attempts in which a step raised: no path through an attempt forgets one.
NothingLeftReserved ==
    \A i \in Ids : step[i] \in {"new", "done"} => state[i] # "reserved"
=============================================================================
