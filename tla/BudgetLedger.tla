---------------------------- MODULE BudgetLedger ----------------------------
(***************************************************************************)
(* The run's budget ledger (oamb/runtime/budget.py).  One lock makes every *)
(* operation indivisible, so each operation is one action.  An amount is a *)
(* vector over budget dimensions (attempts, tokens, wall seconds, cost,    *)
(* resources, provider units); a request either has one owner, charged     *)
(* what the parent is charged, or several with an allocation each.         *)
(***************************************************************************)
EXTENDS Integers, FiniteSets, FiniteSetsExt

CONSTANTS
    Ids,             \* reservation identities
    Owners,          \* budget owners that some request may name
    Dims,            \* budget dimensions
    ParentCeiling,   \* the ceiling of the whole run
    OwnerCeiling,    \* a function from the owners that have a ceiling
    Requests,        \* what callers may ask to reserve
    Observations     \* the amounts a receipt may report as spent

Amount == [Dims -> Nat]

Zero == [d \in Dims |-> 0]

\* ReservationRequest.__post_init__ and .allocations: a request with a single
\* discriminated owner allocates its whole maximum to that owner.
WellFormed(q) ==
    /\ q = [maximum |-> q.maximum, multiOwner |-> q.multiOwner, alloc |-> q.alloc]
    /\ q.maximum \in Amount
    /\ q.multiOwner \in BOOLEAN
    /\ DOMAIN q.alloc # {} /\ DOMAIN q.alloc \subseteq Owners
    /\ q.alloc \in [DOMAIN q.alloc -> Amount]
    /\ ~q.multiOwner => /\ \E o \in Owners : DOMAIN q.alloc = {o}
                        /\ \A o \in DOMAIN q.alloc : q.alloc[o] = q.maximum

ASSUME CeilingAssumption ==
    /\ ParentCeiling \in Amount
    /\ DOMAIN OwnerCeiling \subseteq Owners
    /\ OwnerCeiling \in [DOMAIN OwnerCeiling -> Amount]

ASSUME RequestsAssumption == \A q \in Requests : WellFormed(q)

ASSUME ObservationsAssumption == Observations \subseteq Amount

VARIABLES
    reserved,        \* what open reservations hold of the parent ceiling
    committed,       \* what settled reservations were charged
    ownerReserved,
    ownerCommitted,
    request,         \* the request of each reservation ever made
    state            \* and where it stands

ledgerVars == <<reserved, committed, ownerReserved, ownerCommitted, request, state>>

States == {"none", "reserved", "committed", "cancelled", "unknown"}

NoRequest == [maximum |-> Zero, multiOwner |-> TRUE, alloc |-> [o \in {} |-> Zero]]

Charged == DOMAIN OwnerCeiling

LedgerTypeOK ==
    /\ reserved \in [Dims -> Int]
    /\ committed \in Amount
    /\ ownerReserved \in [Charged -> [Dims -> Int]]
    /\ ownerCommitted \in [Charged -> Amount]
    /\ request \in [Ids -> Requests \cup {NoRequest}]
    /\ state \in [Ids -> States]

-----------------------------------------------------------------------------
Plus(a, b) == [d \in Dims |-> a[d] + b[d]]

Minus(a, b) == [d \in Dims |-> a[d] - b[d]]

Fits(a, limit) == \A d \in Dims : a[d] <= limit[d]

LedgerInit ==
    /\ reserved = Zero
    /\ committed = Zero
    /\ ownerReserved = [o \in Charged |-> Zero]
    /\ ownerCommitted = [o \in Charged |-> Zero]
    /\ request = [i \in Ids |-> NoRequest]
    /\ state = [i \in Ids |-> "none"]

\* As a bug would have it: the owners' ceilings are looked up, not compared.
ReservableByParentOnly(i, q) ==
    /\ state[i] = "none"
    /\ Fits(Plus(Plus(committed, reserved), q.maximum), ParentCeiling)
    /\ DOMAIN q.alloc \subseteq Charged

\* Every test of reserve() passes: an unused identity, headroom under the
\* parent ceiling, and a ceiling with headroom for each owner.
Reservable(i, q) ==
    /\ state[i] = "none"
    /\ Fits(Plus(Plus(committed, reserved), q.maximum), ParentCeiling)
    /\ \A o \in DOMAIN q.alloc :
          /\ o \in Charged
          /\ Fits(Plus(Plus(ownerCommitted[o], ownerReserved[o]), q.alloc[o]), OwnerCeiling[o])

Reserve(i, q) ==
    /\ Reservable(i, q)
    /\ reserved' = Plus(reserved, q.maximum)
    /\ ownerReserved' = [o \in Charged |->
          IF o \in DOMAIN q.alloc THEN Plus(ownerReserved[o], q.alloc[o]) ELSE ownerReserved[o]]
    /\ request' = [request EXCEPT ![i] = q]
    /\ state' = [state EXCEPT ![i] = "reserved"]
    /\ UNCHANGED <<committed, ownerCommitted>>

\* The part commit() and cancel_before_dispatch() share: the reservation must
\* be active, and its hold on the parent and on every owner is given back.
Release(i) ==
    /\ state[i] = "reserved"
    /\ reserved' = Minus(reserved, request[i].maximum)
    /\ ownerReserved' = [o \in Charged |->
          IF o \in DOMAIN request[i].alloc
          THEN Minus(ownerReserved[o], request[i].alloc[o]) ELSE ownerReserved[o]]
    /\ UNCHANGED request

\* What each owner is charged.  Without owner observations a multi-owner
\* reservation charges its whole allocations; a single owner is charged what
\* was observed.
Commit(i, observed) ==
    /\ Release(i)
    /\ Fits(observed, request[i].maximum)
    /\ committed' = Plus(committed, observed)
    /\ ownerCommitted' = [o \in Charged |->
          IF o \notin DOMAIN request[i].alloc THEN ownerCommitted[o]
          ELSE Plus(ownerCommitted[o],
                    IF request[i].multiOwner THEN request[i].alloc[o] ELSE observed)]
    /\ state' = [state EXCEPT ![i] = "committed"]

\* commit() with owner_observed: only for a multi-owner reservation, with
\* exactly its owners, each within its allocation.
CommitOwners(i, observed, byOwner) ==
    /\ Release(i)
    /\ Fits(observed, request[i].maximum)
    /\ request[i].multiOwner
    /\ DOMAIN byOwner = DOMAIN request[i].alloc
    /\ \A o \in DOMAIN byOwner : Fits(byOwner[o], request[i].alloc[o])
    /\ committed' = Plus(committed, observed)
    /\ ownerCommitted' = [o \in Charged |->
          IF o \in DOMAIN byOwner THEN Plus(ownerCommitted[o], byOwner[o]) ELSE ownerCommitted[o]]
    /\ state' = [state EXCEPT ![i] = "committed"]

CancelBeforeDispatch(i) ==
    /\ Release(i)
    /\ state' = [state EXCEPT ![i] = "cancelled"]
    /\ UNCHANGED <<committed, ownerCommitted>>

\* As a bug would have it: an unknown outcome frees what the parent held for it.
MarkUnknownFreeing(i) ==
    /\ state[i] = "reserved"
    /\ state' = [state EXCEPT ![i] = "unknown"]
    /\ reserved' = Minus(reserved, request[i].maximum)
    /\ UNCHANGED <<committed, ownerReserved, ownerCommitted, request>>

\* An unknown outcome keeps its hold: nothing gives it back.
MarkUnknown(i) ==
    /\ state[i] = "reserved"
    /\ state' = [state EXCEPT ![i] = "unknown"]
    /\ UNCHANGED <<reserved, committed, ownerReserved, ownerCommitted, request>>

LedgerNext ==
    \E i \in Ids :
        \/ \E q \in Requests : Reserve(i, q)
        \/ \E a \in Observations : Commit(i, a)
        \/ \E a \in Observations, byOwner \in [DOMAIN request[i].alloc -> Observations] :
              CommitOwners(i, a, byOwner)
        \/ CancelBeforeDispatch(i)
        \/ MarkUnknown(i)

LedgerSpec == LedgerInit /\ [][LedgerNext]_ledgerVars

-----------------------------------------------------------------------------
Open == {i \in Ids : state[i] \in {"reserved", "unknown"}}

\* No sequence of reservations, settlements, cancellations and unknown
\* outcomes takes the run, or any owner, past its ceiling in any dimension:
\* reserve() tests the parent and then each owner before it changes either.
CeilingsHold ==
    /\ Fits(Plus(committed, reserved), ParentCeiling)
    /\ \A o \in Charged : Fits(Plus(ownerCommitted[o], ownerReserved[o]), OwnerCeiling[o])

\* The running totals are exactly what the open reservations hold, unknown
\* ones included, for the parent and for every owner.  So the subtraction in
\* commit() and cancel_before_dispatch() never goes below zero, where
\* BudgetAmount would raise with the parent updated and the owners not.
HoldsAddUp ==
    \A d \in Dims :
        /\ reserved[d] = MapThenSumSet(LAMBDA i : request[i].maximum[d], Open)
        /\ \A o \in Charged : ownerReserved[o][d] =
              MapThenSumSet(LAMBDA i : request[i].alloc[o][d],
                            {i \in Open : o \in DOMAIN request[i].alloc})

\* A reservation is settled at most once: commit, cancel and unknown are final
\* and a late second settlement of any kind is refused, and what was charged
\* to the run or to an owner is never taken back.
SettledOnce ==
    [][/\ \A i \in Ids : state[i] \notin {"none", "reserved"} =>
              state'[i] = state[i] /\ request'[i] = request[i]
       /\ Fits(committed, committed')
       /\ \A o \in Charged : Fits(ownerCommitted[o], ownerCommitted'[o])]_ledgerVars
=============================================================================
