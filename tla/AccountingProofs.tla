-------------------------- MODULE AccountingProofs --------------------------
(***************************************************************************)
(* Proofs about what the runtime counts: what the open reservations of the *)
(* budget ledger hold, for every set of identities, owners, dimensions,    *)
(* ceilings and well-formed requests; how many outer attempts the sealed   *)
(* calls of a completion stand for, for every pair of retry limits; and    *)
(* what the capsule, the pointers and the ledger say of a paid attempt, for*)
(* any number of attempts and wherever the process is killed or a step     *)
(* raises.  The first two are sums over finite sets, whose lemmas come     *)
(* first.                                                                  *)
(***************************************************************************)
EXTENDS NativeAttempt, ModelCompletion, FiniteSetTheorems, TLAPS

(* Sums over finite sets.  MapThenSumSet takes its set apart by a recursive  *)
(* function on the subsets; that this function exists, and that the order in *)
(* which it takes the elements does not matter, is shown on a least subset   *)
(* for which it would not be so.                                             *)

Pick(s) == CHOOSE x \in s : TRUE

SumOf(g, S) == MapThenSumSet(LAMBDA i : g[i], S)

\* The recursive function behind a sum.
Partial(g, S) ==
    CHOOSE h : h = [s \in SUBSET S |-> IF s = {} THEN 0 ELSE g[Pick(s)] + h[s \ {Pick(s)}]]

\* A sum is the value of that function on the whole set.
LEMMA SumIsPartial ==
    ASSUME NEW g, NEW S
    PROVE  SumOf(g, S) = Partial(g, S)[S]
  BY DEF SumOf, MapThenSumSet, MapThenFoldSet, Partial, Pick

\* A set that is not empty has an element to pick.
LEMMA Picked ==
    ASSUME NEW s, s # {}
    PROVE  Pick(s) \in s
  BY DEF Pick

\* Among the subsets of a finite set that are in B there is a least one.
LEMMA LeastSubset ==
    ASSUME NEW S, IsFiniteSet(S), NEW B \in SUBSET (SUBSET S), B # {}
    PROVE  \E t \in B : \A u \in SUBSET t : u \in B => u = t
  <1>1. IsWellFoundedOn(StrictSubsetOrdering(S), SUBSET S)
    BY FS_StrictSubsetOrderingWellFounded, FS_FiniteSubsetsOfFinite
  <1>2. PICK t \in B : \A u \in B : <<u, t>> \notin StrictSubsetOrdering(S)
    BY <1>1, WFMin
  <1>3. \A u \in SUBSET t : u \in B => u = t
    BY <1>2 DEF StrictSubsetOrdering
  <1> QED
    BY <1>3

\* The sum of a set is that of its picked element and of the others.
LEMMA SumPicks ==
    ASSUME NEW g, NEW S, IsFiniteSet(S)
    PROVE  SumOf(g, S) = IF S = {} THEN 0 ELSE g[Pick(S)] + SumOf(g, S \ {Pick(S)})
  <1> DEFINE Taken(s) == IF s = {} THEN 0 ELSE g[Pick(s)] + SumOf(g, s \ {Pick(s)})
             B == {s \in SUBSET S : SumOf(g, s) # Taken(s)}
  <1> SUFFICES ASSUME B # {} PROVE FALSE
    OBVIOUS
  <1>0. B \in SUBSET (SUBSET S) /\ B # {}
    OBVIOUS
  <1>1. PICK t \in B : \A u \in SUBSET t : u \in B => u = t
    <2> HIDE DEF B
    <2> QED
      BY <1>0, LeastSubset
  <1>2. IsFiniteSet(t) /\ \A s \in SUBSET t : s # t => SumOf(g, s) = Taken(s)
    BY <1>1, FS_Subset
  <1> DEFINE h == [s \in SUBSET t |-> Taken(s)]
             r == Partial(g, t)
  <1>3. \A s \in SUBSET t : s # {} => s \ {Pick(s)} \in SUBSET t /\ s \ {Pick(s)} # t
    BY Picked
  <1>4. h = [s \in SUBSET t |-> IF s = {} THEN 0 ELSE g[Pick(s)] + h[s \ {Pick(s)}]]
    <2>1. \A s \in SUBSET t : Taken(s) = IF s = {} THEN 0 ELSE g[Pick(s)] + h[s \ {Pick(s)}]
      BY <1>2, <1>3
    <2> QED
      BY <2>1
  <1>5. r = [s \in SUBSET t |-> IF s = {} THEN 0 ELSE g[Pick(s)] + r[s \ {Pick(s)}]]
    <2> HIDE DEF h
    <2> QED
      BY <1>4 DEF Partial
  <1> HIDE DEF r, h
  <1>6. \A s \in SUBSET t : r[s] = IF s = {} THEN 0 ELSE g[Pick(s)] + r[s \ {Pick(s)}]
    BY <1>5
  <1>7. \A s \in SUBSET t : s # t => r[s] = SumOf(g, s)
    <2> DEFINE C == {s \in SUBSET t : s # t /\ r[s] # SumOf(g, s)}
    <2> SUFFICES ASSUME C # {} PROVE FALSE
      OBVIOUS
    <2>0. C \in SUBSET (SUBSET t) /\ C # {}
      OBVIOUS
    <2>1. PICK c \in C : \A u \in SUBSET c : u \in C => u = c
      <3> HIDE DEF C
      <3> QED
        BY <1>2, <2>0, LeastSubset
    <2>2. CASE c = {}
      BY <1>2, <1>6, <2>1, <2>2
    <2>3. CASE c # {}
      <3>1. r[c \ {Pick(c)}] = SumOf(g, c \ {Pick(c)})
        BY <1>3, <2>1, <2>3, Picked
      <3>2. r[c] = g[Pick(c)] + r[c \ {Pick(c)}]
        BY <1>6, <2>1, <2>3
      <3> QED
        BY <1>2, <2>1, <2>3, <3>1, <3>2
    <2> QED
      BY <2>2, <2>3
  <1>8. r[t] = Taken(t)
    <2>1. r[t] = IF t = {} THEN 0 ELSE g[Pick(t)] + r[t \ {Pick(t)}]
      BY <1>6
    <2> QED
      BY <1>3, <1>7, <2>1
  <1> QED
    BY <1>1, <1>8, SumIsPartial DEF r

\* Nothing adds up to nothing.
LEMMA SumEmpty ==
    ASSUME NEW g
    PROVE  SumOf(g, {}) = 0
  BY SumPicks, FS_EmptySet

\* A sum of integers is one.
LEMMA SumIsInt ==
    ASSUME NEW g, NEW S, IsFiniteSet(S), \A x \in S : g[x] \in Int
    PROVE  SumOf(g, S) \in Int
  <1> DEFINE B == {s \in SUBSET S : SumOf(g, s) \notin Int}
  <1> SUFFICES ASSUME B # {} PROVE FALSE
    OBVIOUS
  <1>0. B \in SUBSET (SUBSET S) /\ B # {}
    OBVIOUS
  <1>1. PICK t \in B : \A u \in SUBSET t : u \in B => u = t
    <2> HIDE DEF B
    <2> QED
      BY <1>0, LeastSubset
  <1>2. IsFiniteSet(t)
    BY FS_Subset
  <1>3. t # {}
    <2>1. SumOf(g, {}) \in Int
      BY SumEmpty
    <2> QED
      BY <1>1, <2>1
  <1>4. Pick(t) \in t /\ SumOf(g, t \ {Pick(t)}) \in Int
    BY <1>1, <1>3, Picked
  <1>5. SumOf(g, t) = g[Pick(t)] + SumOf(g, t \ {Pick(t)})
    BY <1>2, <1>3, SumPicks
  <1> QED
    BY <1>1, <1>4, <1>5

\* Any element may be taken out first.
LEMMA SumRemove ==
    ASSUME NEW g, NEW S, IsFiniteSet(S), \A x \in S : g[x] \in Int, NEW x \in S
    PROVE  SumOf(g, S) = g[x] + SumOf(g, S \ {x})
  <1> DEFINE B == {s \in SUBSET S : \E y \in s : SumOf(g, s) # g[y] + SumOf(g, s \ {y})}
  <1> SUFFICES ASSUME B # {} PROVE FALSE
    OBVIOUS
  <1>0. B \in SUBSET (SUBSET S) /\ B # {}
    OBVIOUS
  <1>1. PICK t \in B : \A u \in SUBSET t : u \in B => u = t
    <2> HIDE DEF B
    <2> QED
      BY <1>0, LeastSubset
  <1>2. PICK y \in t : SumOf(g, t) # g[y] + SumOf(g, t \ {y})
    BY <1>1
  <1> DEFINE p == Pick(t)
  <1>3. p \in t /\ SumOf(g, t) = g[p] + SumOf(g, t \ {p})
    BY <1>2, SumPicks, Picked, FS_Subset
  <1> HIDE DEF p
  <1>4. y # p
    BY <1>2, <1>3
  <1>5. ASSUME NEW a \in t, NEW b \in t \ {a}
        PROVE  SumOf(g, t \ {a}) = g[b] + SumOf(g, (t \ {a}) \ {b})
    <2>1. t \ {a} \in SUBSET S /\ t \ {a} \in SUBSET t /\ t \ {a} # t
      BY <1>1
    <2>2. t \ {a} \notin B
      BY <1>1, <2>1
    <2> QED
      BY <2>1, <2>2
  <1>6. /\ SumOf(g, t \ {p}) = g[y] + SumOf(g, (t \ {p}) \ {y})
        /\ SumOf(g, t \ {y}) = g[p] + SumOf(g, (t \ {y}) \ {p})
    BY <1>2, <1>3, <1>4, <1>5
  <1>7. (t \ {y}) \ {p} = (t \ {p}) \ {y}
    OBVIOUS
  <1>8. SumOf(g, (t \ {p}) \ {y}) \in Int /\ g[p] \in Int /\ g[y] \in Int
    <2>1. (t \ {p}) \ {y} \subseteq S /\ IsFiniteSet((t \ {p}) \ {y})
      BY FS_Subset
    <2> QED
      BY <1>2, <1>3, <2>1, SumIsInt
  <1> QED
    BY <1>2, <1>3, <1>6, <1>7, <1>8

\* Only the values on the set count.
LEMMA SumAgrees ==
    ASSUME NEW g, NEW h, NEW S, IsFiniteSet(S), \A x \in S : g[x] = h[x]
    PROVE  SumOf(g, S) = SumOf(h, S)
  <1> DEFINE B == {s \in SUBSET S : SumOf(g, s) # SumOf(h, s)}
  <1> SUFFICES ASSUME B # {} PROVE FALSE
    OBVIOUS
  <1>0. B \in SUBSET (SUBSET S) /\ B # {}
    OBVIOUS
  <1>1. PICK t \in B : \A u \in SUBSET t : u \in B => u = t
    <2> HIDE DEF B
    <2> QED
      BY <1>0, LeastSubset
  <1>2. IsFiniteSet(t)
    BY FS_Subset
  <1>3. t # {}
    BY <1>1, SumEmpty
  <1>4. Pick(t) \in t /\ SumOf(g, t \ {Pick(t)}) = SumOf(h, t \ {Pick(t)})
    BY <1>1, <1>3, Picked
  <1>5. /\ SumOf(g, t) = g[Pick(t)] + SumOf(g, t \ {Pick(t)})
        /\ SumOf(h, t) = h[Pick(t)] + SumOf(h, t \ {Pick(t)})
    BY <1>2, <1>3, SumPicks
  <1> QED
    BY <1>1, <1>4, <1>5

\* One more element.
LEMMA SumAdd ==
    ASSUME NEW g, NEW h, NEW S, IsFiniteSet(S), NEW x, x \notin S,
           \A y \in S \cup {x} : h[y] \in Int, \A y \in S : g[y] = h[y]
    PROVE  SumOf(h, S \cup {x}) = SumOf(g, S) + h[x]
  <1>1. IsFiniteSet(S \cup {x}) /\ (S \cup {x}) \ {x} = S
    BY FS_AddElement
  <1>2. SumOf(h, S \cup {x}) = h[x] + SumOf(h, S)
    BY <1>1, SumRemove
  <1>3. SumOf(h, S) = SumOf(g, S) /\ SumOf(h, S) \in Int
    BY SumAgrees, SumIsInt
  <1> QED
    BY <1>2, <1>3

-----------------------------------------------------------------------------
(* The budget ledger.  CeilingsHold is not inductive by itself: settling    *)
(* gives back what the reservation held, so one must know that an open      *)
(* reservation still carries a well-formed request whose owners all have a  *)
(* ceiling.                                                                 *)

OpenIsWellFormed ==
    \A i \in Ids : state[i] = "reserved" =>
        request[i] \in Requests /\ DOMAIN request[i].alloc \subseteq Charged

LedgerInv == LedgerTypeOK /\ OpenIsWellFormed /\ CeilingsHold

-----------------------------------------------------------------------------
\* What a well-formed request gives the provers.
LEMMA RequestFacts ==
    ASSUME NEW q \in Requests
    PROVE  /\ q.maximum \in Amount
           /\ q.alloc \in [DOMAIN q.alloc -> Amount]
           /\ ~q.multiOwner => \A o \in DOMAIN q.alloc : q.alloc[o] = q.maximum
  BY RequestsAssumption DEF WellFormed

\* The freshly opened ledger satisfies the invariant.
LEMMA LedgerInitInv == LedgerInit => LedgerInv
  <1> SUFFICES ASSUME LedgerInit PROVE LedgerInv
    OBVIOUS
  <1> USE CeilingAssumption DEF LedgerInit, Zero, Amount, Charged
  <1>1. LedgerTypeOK
    BY DEF LedgerTypeOK, States
  <1>2. OpenIsWellFormed
    BY DEF OpenIsWellFormed
  <1>3. CeilingsHold
    BY DEF CeilingsHold, Fits, Plus
  <1> QED
    BY <1>1, <1>2, <1>3 DEF LedgerInv

-----------------------------------------------------------------------------
\* reserve(): the tests made before anything changes are what the ceilings need.
LEMMA ReserveInv ==
    ASSUME LedgerInv, NEW i \in Ids, NEW q \in Requests, Reserve(i, q)
    PROVE  LedgerInv'
  <1> USE DEF LedgerInv, Amount, Charged
  <1>1. q.maximum \in Amount /\ q.alloc \in [DOMAIN q.alloc -> Amount] /\ DOMAIN q.alloc \subseteq Charged
    BY RequestFacts DEF Reserve, Reservable
  <1>2. LedgerTypeOK'
    BY <1>1 DEF LedgerTypeOK, Reserve, Plus, States
  <1>3. OpenIsWellFormed'
    BY <1>1 DEF LedgerTypeOK, OpenIsWellFormed, Reserve
  <1>4. \A d \in Dims : (committed[d] + reserved[d]) + q.maximum[d] <= ParentCeiling[d]
    BY DEF Reserve, Reservable, Fits, Plus
  <1>5. \A o \in DOMAIN q.alloc, d \in Dims :
            (ownerCommitted[o][d] + ownerReserved[o][d]) + q.alloc[o][d] <= OwnerCeiling[o][d]
    BY <1>1 DEF Reserve, Reservable, Fits, Plus
  <1>6. Fits(Plus(committed, reserved), ParentCeiling)'
    BY <1>1, <1>4, CeilingAssumption DEF LedgerTypeOK, Reserve, Fits, Plus
  <1>7. ASSUME NEW o \in Charged, NEW d \in Dims
        PROVE  ownerCommitted'[o][d] + ownerReserved'[o][d] <= OwnerCeiling[o][d]
    <2>1. CASE o \in DOMAIN q.alloc
      BY <2>1, <1>1, <1>5, CeilingAssumption DEF LedgerTypeOK, Reserve, Plus
    <2>2. CASE o \notin DOMAIN q.alloc
      BY <2>2, CeilingAssumption DEF LedgerTypeOK, Reserve, Plus, CeilingsHold, Fits
    <2> QED
      BY <2>1, <2>2
  <1>8. CeilingsHold'
    BY <1>6, <1>7 DEF CeilingsHold, Fits, Plus
  <1> QED
    BY <1>2, <1>3, <1>8

\* Giving a reservation back and charging at most what it held, which is the
\* common shape of both kinds of commit and of a cancellation.
LEMMA SettlementInv ==
    ASSUME LedgerInv, NEW i \in Ids, Release(i),
           NEW charge \in Amount, NEW byOwner,
           byOwner \in [DOMAIN request[i].alloc -> Amount],
           Fits(charge, request[i].maximum),
           \A o \in DOMAIN request[i].alloc : Fits(byOwner[o], request[i].alloc[o]),
           committed' = Plus(committed, charge),
           ownerCommitted' = [o \in Charged |->
               IF o \in DOMAIN request[i].alloc
               THEN Plus(ownerCommitted[o], byOwner[o]) ELSE ownerCommitted[o]],
           NEW s \in States \ {"reserved"}, state' = [state EXCEPT ![i] = s]
    PROVE  LedgerInv'
  <1> USE DEF LedgerInv, Amount, Charged
  <1> DEFINE q == request[i]
  <1>1. q \in Requests /\ DOMAIN q.alloc \subseteq Charged
    BY DEF OpenIsWellFormed, Release
  <1>2. q.maximum \in Amount /\ q.alloc \in [DOMAIN q.alloc -> Amount]
    BY <1>1, RequestFacts
  <1>3. LedgerTypeOK'
    BY <1>1, <1>2 DEF LedgerTypeOK, Release, Plus, Minus, States
  <1>4. OpenIsWellFormed'
    BY DEF LedgerTypeOK, OpenIsWellFormed, Release
  <1>5. Fits(Plus(committed, reserved), ParentCeiling)'
    BY <1>2, CeilingAssumption DEF LedgerTypeOK, Release, Fits, Plus, Minus, CeilingsHold
  <1>6. ASSUME NEW o \in Charged, NEW d \in Dims
        PROVE  ownerCommitted'[o][d] + ownerReserved'[o][d] <= OwnerCeiling[o][d]
    <2>0. ownerCommitted[o][d] + ownerReserved[o][d] <= OwnerCeiling[o][d]
      BY DEF CeilingsHold, Fits, Plus
    <2>1. CASE o \in DOMAIN q.alloc
      BY <2>0, <2>1, <1>2, CeilingAssumption DEF LedgerTypeOK, Release, Plus, Minus, Fits
    <2>2. CASE o \notin DOMAIN q.alloc
      BY <2>0, <2>2 DEF LedgerTypeOK, Release
    <2> QED
      BY <2>1, <2>2
  <1>7. CeilingsHold'
    BY <1>5, <1>6 DEF CeilingsHold, Fits, Plus
  <1> QED
    BY <1>3, <1>4, <1>7

\* commit() without owner observations.
LEMMA CommitInv ==
    ASSUME LedgerInv, NEW i \in Ids, NEW a \in Observations, Commit(i, a)
    PROVE  LedgerInv'
  <1> DEFINE q == request[i]
             byOwner == [o \in DOMAIN q.alloc |-> IF q.multiOwner THEN q.alloc[o] ELSE a]
  <1>1. a \in Amount
    BY ObservationsAssumption
  <1>2. q \in Requests /\ Release(i)
    BY DEF Commit, Release, LedgerInv, OpenIsWellFormed
  <1>3. /\ q.maximum \in Amount
        /\ q.alloc \in [DOMAIN q.alloc -> Amount]
        /\ ~q.multiOwner => \A o \in DOMAIN q.alloc : q.alloc[o] = q.maximum
    BY <1>2, RequestFacts
  <1>4. byOwner \in [DOMAIN q.alloc -> Amount]
    BY <1>1, <1>3
  <1>5. \A o \in DOMAIN q.alloc : Fits(byOwner[o], q.alloc[o])
    BY <1>1, <1>3 DEF Commit, Fits, Amount
  <1>6. ownerCommitted' = [o \in Charged |->
            IF o \in DOMAIN q.alloc THEN Plus(ownerCommitted[o], byOwner[o]) ELSE ownerCommitted[o]]
    BY DEF Commit
  <1>7. Fits(a, q.maximum) /\ committed' = Plus(committed, a) /\ state' = [state EXCEPT ![i] = "committed"]
    BY DEF Commit
  <1> HIDE DEF byOwner
  <1> QED
    BY <1>1, <1>2, <1>4, <1>5, <1>6, <1>7, SettlementInv DEF States

\* commit() with what each owner was observed to spend.
LEMMA CommitOwnersInv ==
    ASSUME LedgerInv, NEW i \in Ids, NEW a \in Observations,
           NEW byOwner \in [DOMAIN request[i].alloc -> Observations],
           CommitOwners(i, a, byOwner)
    PROVE  LedgerInv'
  <1>1. a \in Amount /\ byOwner \in [DOMAIN request[i].alloc -> Amount]
    BY ObservationsAssumption
  <1> QED
    BY <1>1, SettlementInv DEF CommitOwners, States

\* cancel_before_dispatch() charges nothing, which is committing zero.
LEMMA CancelInv ==
    ASSUME LedgerInv, NEW i \in Ids, CancelBeforeDispatch(i)
    PROVE  LedgerInv'
  <1> DEFINE q == request[i]
             byOwner == [o \in DOMAIN q.alloc |-> Zero]
  <1>1. Zero \in Amount /\ byOwner \in [DOMAIN q.alloc -> Amount] /\ Release(i)
    BY DEF Zero, Amount, CancelBeforeDispatch
  <1>2. q \in Requests
    BY <1>1 DEF Release, LedgerInv, OpenIsWellFormed
  <1>3. q.maximum \in Amount /\ q.alloc \in [DOMAIN q.alloc -> Amount]
    BY <1>2, RequestFacts
  <1>4. Fits(Zero, q.maximum) /\ \A o \in DOMAIN q.alloc : Fits(byOwner[o], q.alloc[o])
    BY <1>3 DEF Fits, Zero, Amount
  <1>5. committed' = Plus(committed, Zero)
    BY DEF CancelBeforeDispatch, Plus, Zero, LedgerInv, LedgerTypeOK, Amount
  <1>6. ownerCommitted' = [o \in Charged |->
            IF o \in DOMAIN q.alloc THEN Plus(ownerCommitted[o], byOwner[o]) ELSE ownerCommitted[o]]
    <2>1. \A o \in Charged : Plus(ownerCommitted[o], Zero) = ownerCommitted[o]
      BY DEF Plus, Zero, LedgerInv, LedgerTypeOK, Amount
    <2> QED
      BY <2>1 DEF CancelBeforeDispatch, LedgerInv, LedgerTypeOK
  <1>7. state' = [state EXCEPT ![i] = "cancelled"]
    BY DEF CancelBeforeDispatch
  <1> HIDE DEF byOwner
  <1> QED
    BY <1>1, <1>4, <1>5, <1>6, <1>7, SettlementInv DEF States

\* mark_unknown() moves no amount.
LEMMA MarkUnknownInv ==
    ASSUME LedgerInv, NEW i \in Ids, MarkUnknown(i)
    PROVE  LedgerInv'
  BY DEF LedgerInv, LedgerTypeOK, OpenIsWellFormed, CeilingsHold, MarkUnknown, States, Fits, Plus, Charged

\* Every step of the ledger preserves the invariant.
LEMMA LedgerNextInv == LedgerInv /\ [LedgerNext]_ledgerVars => LedgerInv'
  <1> SUFFICES ASSUME LedgerInv, [LedgerNext]_ledgerVars PROVE LedgerInv'
    OBVIOUS
  <1>1. CASE UNCHANGED ledgerVars
    BY <1>1 DEF ledgerVars, LedgerInv, LedgerTypeOK, OpenIsWellFormed, CeilingsHold, Fits, Plus, Charged
  <1>2. CASE LedgerNext
    BY <1>2, ReserveInv, CommitInv, CommitOwnersInv, CancelInv, MarkUnknownInv DEF LedgerNext
  <1> QED
    BY <1>1, <1>2

-----------------------------------------------------------------------------
\* The ledger's state always has its types.
THEOREM LedgerTypeCorrect == LedgerSpec => []LedgerTypeOK
  <1>1. LedgerInv => LedgerTypeOK
    BY DEF LedgerInv
  <1> QED
    BY <1>1, LedgerInitInv, LedgerNextInv, PTL DEF LedgerSpec

\* However reservations are made and settled, neither the run nor any owner
\* goes past its ceiling in any dimension.
THEOREM LedgerCeilings == LedgerSpec => []CeilingsHold
  <1>1. LedgerInv => CeilingsHold
    BY DEF LedgerInv
  <1> QED
    BY <1>1, LedgerInitInv, LedgerNextInv, PTL DEF LedgerSpec

\* A settlement is final, and no charge is ever taken back.
THEOREM LedgerSettlesOnce == LedgerSpec => SettledOnce
  <1> DEFINE Kept ==
          /\ \A i \in Ids : state[i] \notin {"none", "reserved"} =>
                 state'[i] = state[i] /\ request'[i] = request[i]
          /\ Fits(committed, committed')
          /\ \A o \in Charged : Fits(ownerCommitted[o], ownerCommitted'[o])
  <1>1. ASSUME LedgerInv, LedgerNext PROVE Kept
    <2> USE <1>1 DEF LedgerInv, LedgerTypeOK, Amount, Fits, Plus
    <2>1. ASSUME NEW i \in Ids, NEW q \in Requests, Reserve(i, q) PROVE Kept
      BY <2>1 DEF Reserve, Reservable
    <2>2. ASSUME NEW i \in Ids, NEW a \in Observations, Commit(i, a) PROVE Kept
      <3>1. request[i] \in Requests /\ a \in Amount
        BY <2>2, ObservationsAssumption DEF Commit, Release, OpenIsWellFormed
      <3>2. request[i].alloc \in [DOMAIN request[i].alloc -> Amount]
        BY <3>1, RequestFacts
      <3> QED
        BY <2>2, <3>1, <3>2 DEF Commit, Release
    <2>3. ASSUME NEW i \in Ids, NEW a \in Observations,
                 NEW byOwner \in [DOMAIN request[i].alloc -> Observations],
                 CommitOwners(i, a, byOwner)
          PROVE Kept
      BY <2>3, ObservationsAssumption DEF CommitOwners, Release
    <2>4. ASSUME NEW i \in Ids, CancelBeforeDispatch(i) PROVE Kept
      BY <2>4 DEF CancelBeforeDispatch, Release
    <2>5. ASSUME NEW i \in Ids, MarkUnknown(i) PROVE Kept
      BY <2>5 DEF MarkUnknown
    <2> QED
      BY <1>1, <2>1, <2>2, <2>3, <2>4, <2>5 DEF LedgerNext
  <1>2. LedgerInv /\ [LedgerNext]_ledgerVars => [Kept]_ledgerVars
    BY <1>1
  <1> QED
    BY <1>2, LedgerInitInv, LedgerNextInv, PTL DEF LedgerSpec, SettledOnce
-----------------------------------------------------------------------------
(* What the open reservations hold.                                        *)

Hold(d) == [i \in Ids |-> request[i].maximum[d]]

OwnerHold(o, d) == [i \in Ids |-> request[i].alloc[o][d]]

OpenOf(o) == {i \in Open : o \in DOMAIN request[i].alloc}

\* The running totals, with the sums as functions the lemmas above speak of.  A
\* reservation of unknown outcome keeps its request too.
HoldsInv ==
    /\ IsFiniteSet(Open)
    /\ \A i \in Open : request[i] \in Requests
    /\ \A d \in Dims : reserved[d] = SumOf(Hold(d), Open)
    /\ \A o \in Charged, d \in Dims : ownerReserved[o][d] = SumOf(OwnerHold(o, d), OpenOf(o))

\* What an open reservation holds is a number, for the run and for each owner.
LEMMA HoldsAreInts ==
    ASSUME HoldsInv, NEW d \in Dims
    PROVE  /\ \A i \in Open : Hold(d)[i] \in Int
           /\ \A o : /\ IsFiniteSet(OpenOf(o)) /\ OpenOf(o) \subseteq Open
                     /\ \A i \in OpenOf(o) : OwnerHold(o, d)[i] \in Int
  <1>1. \A i \in Open : i \in Ids /\ request[i].maximum \in Amount
                        /\ request[i].alloc \in [DOMAIN request[i].alloc -> Amount]
    BY RequestFacts DEF HoldsInv, Open
  <1>2. \A o : OpenOf(o) \subseteq Open /\ IsFiniteSet(OpenOf(o))
    BY FS_Subset DEF HoldsInv, OpenOf
  <1>3. \A o : \A i \in OpenOf(o) : request[i].alloc[o] \in Amount /\ i \in Ids
    BY <1>1 DEF OpenOf
  <1> QED
    BY <1>1, <1>2, <1>3 DEF Hold, OwnerHold, Amount

\* The empty ledger holds nothing.
LEMMA HoldsInit == LedgerInit => HoldsInv
  <1> SUFFICES ASSUME LedgerInit PROVE HoldsInv
    OBVIOUS
  <1>1. Open = {} /\ \A o : OpenOf(o) = {}
    BY DEF LedgerInit, Open, OpenOf
  <1>2. \A g : SumOf(g, {}) = 0
    BY SumEmpty
  <1> QED
    BY <1>1, <1>2, FS_EmptySet DEF HoldsInv, LedgerInit, Zero

\* A new reservation adds what it asked for.
LEMMA HoldsReserve ==
    ASSUME LedgerInv, HoldsInv, NEW i \in Ids, NEW q \in Requests, Reserve(i, q)
    PROVE  HoldsInv'
  <1>1. i \notin Open /\ Open' = Open \cup {i} /\ \A j \in Open : request'[j] = request[j]
    BY DEF Reserve, Reservable, Open, LedgerInv, LedgerTypeOK
  <1>2. request'[i] = q /\ q.maximum \in Amount /\ q.alloc \in [DOMAIN q.alloc -> Amount]
    BY RequestFacts DEF Reserve, LedgerInv, LedgerTypeOK
  <1>3. IsFiniteSet(Open') /\ \A j \in Open' : request'[j] \in Requests
    BY <1>1, <1>2, FS_AddElement DEF HoldsInv
  <1>4. ASSUME NEW d \in Dims
        PROVE  reserved'[d] = SumOf(Hold(d)', Open')
    <2>1. \A j \in Open : Hold(d)[j] = Hold(d)'[j] /\ Hold(d)[j] \in Int
      BY <1>1, HoldsAreInts DEF Hold, Open
    <2>2. Hold(d)'[i] = q.maximum[d] /\ q.maximum[d] \in Int
      BY <1>2 DEF Hold, Amount
    <2>3. SumOf(Hold(d)', Open \cup {i}) = SumOf(Hold(d), Open) + q.maximum[d]
      BY <1>1, <2>1, <2>2, SumAdd DEF HoldsInv
    <2> QED
      BY <1>1, <2>3 DEF Reserve, Plus, HoldsInv
  <1>5. ASSUME NEW o \in Charged, NEW d \in Dims
        PROVE  ownerReserved'[o][d] = SumOf(OwnerHold(o, d)', OpenOf(o)')
    <2>1. \A j \in OpenOf(o) : OwnerHold(o, d)[j] = OwnerHold(o, d)'[j] /\ OwnerHold(o, d)[j] \in Int
      BY <1>1, HoldsAreInts DEF OwnerHold, OpenOf, Open
    <2>2. IsFiniteSet(OpenOf(o)) /\ i \notin OpenOf(o)
      BY <1>1, HoldsAreInts
    <2>3. CASE o \in DOMAIN q.alloc
      <3>1. OwnerHold(o, d)'[i] = q.alloc[o][d] /\ q.alloc[o][d] \in Int
        BY <1>2, <2>3 DEF OwnerHold, Amount
      <3>2. OpenOf(o)' = OpenOf(o) \cup {i}
        BY <1>1, <1>2, <2>3 DEF OpenOf
      <3>3. SumOf(OwnerHold(o, d)', OpenOf(o)') = SumOf(OwnerHold(o, d), OpenOf(o)) + q.alloc[o][d]
        BY <2>1, <2>2, <3>1, <3>2, SumAdd
      <3> QED
        BY <2>3, <3>3 DEF Reserve, Plus, HoldsInv
    <2>4. CASE o \notin DOMAIN q.alloc
      <3>1. OpenOf(o)' = OpenOf(o)
        BY <1>1, <1>2, <2>4 DEF OpenOf
      <3>2. SumOf(OwnerHold(o, d)', OpenOf(o)) = SumOf(OwnerHold(o, d), OpenOf(o))
        BY <2>1, <2>2, SumAgrees
      <3> QED
        BY <2>4, <3>1, <3>2 DEF Reserve, HoldsInv
    <2> QED
      BY <2>3, <2>4
  <1> QED
    BY <1>3, <1>4, <1>5 DEF HoldsInv, Charged

\* A settlement that is not of unknown outcome gives back exactly that.
LEMMA HoldsRelease ==
    ASSUME LedgerInv, HoldsInv, NEW i \in Ids, Release(i),
           NEW s \in {"committed", "cancelled"}, state' = [state EXCEPT ![i] = s]
    PROVE  HoldsInv'
  <1> DEFINE q == request[i]
  <1>1. i \in Open /\ Open' = Open \ {i} /\ request' = request
    BY DEF Release, Open, LedgerInv, LedgerTypeOK
  <1>2. IsFiniteSet(Open') /\ \A j \in Open' : request'[j] \in Requests
    BY <1>1, FS_RemoveElement DEF HoldsInv
  <1>3. ASSUME NEW d \in Dims
        PROVE  reserved'[d] = SumOf(Hold(d)', Open')
    <2>1. SumOf(Hold(d), Open) = Hold(d)[i] + SumOf(Hold(d), Open \ {i})
      BY <1>1, HoldsAreInts, SumRemove DEF HoldsInv
    <2>2. Hold(d)[i] = q.maximum[d] /\ Hold(d)[i] \in Int /\ Hold(d)' = Hold(d)
      BY <1>1, HoldsAreInts DEF Hold
    <2>3. SumOf(Hold(d), Open \ {i}) \in Int
      BY <1>1, <1>2, HoldsAreInts, SumIsInt
    <2>4. reserved'[d] = reserved[d] - q.maximum[d]
      BY DEF Release, Minus
    <2> QED
      BY <1>1, <2>1, <2>2, <2>3, <2>4 DEF HoldsInv
  <1>4. ASSUME NEW o \in Charged, NEW d \in Dims
        PROVE  ownerReserved'[o][d] = SumOf(OwnerHold(o, d)', OpenOf(o)')
    <2>1. OwnerHold(o, d)' = OwnerHold(o, d) /\ OpenOf(o)' = OpenOf(o) \ {i}
      BY <1>1 DEF OwnerHold, OpenOf
    <2>2. IsFiniteSet(OpenOf(o)) /\ \A j \in OpenOf(o) : OwnerHold(o, d)[j] \in Int
      BY HoldsAreInts
    <2>3. CASE o \in DOMAIN q.alloc
      <3>1. i \in OpenOf(o)
        BY <1>1, <2>3 DEF OpenOf
      <3>2. SumOf(OwnerHold(o, d), OpenOf(o)) = OwnerHold(o, d)[i] + SumOf(OwnerHold(o, d), OpenOf(o) \ {i})
        BY <2>2, <3>1, SumRemove
      <3>3. OwnerHold(o, d)[i] = q.alloc[o][d] /\ OwnerHold(o, d)[i] \in Int
        BY <2>2, <3>1 DEF OwnerHold
      <3>4. SumOf(OwnerHold(o, d), OpenOf(o) \ {i}) \in Int
        BY <2>2, <3>1, FS_RemoveElement, SumIsInt
      <3>5. ownerReserved'[o][d] = ownerReserved[o][d] - q.alloc[o][d]
        BY <2>3 DEF Release, Minus
      <3> QED
        BY <2>1, <3>2, <3>3, <3>4, <3>5 DEF HoldsInv
    <2>4. CASE o \notin DOMAIN q.alloc
      <3>1. OpenOf(o) \ {i} = OpenOf(o)
        BY <2>4 DEF OpenOf
      <3> QED
        BY <2>1, <2>4, <3>1 DEF Release, HoldsInv
    <2> QED
      BY <2>3, <2>4
  <1> QED
    BY <1>2, <1>3, <1>4 DEF HoldsInv, Charged

\* A reservation of unknown outcome stays open.
LEMMA HoldsUnknown ==
    ASSUME LedgerInv, HoldsInv, NEW i \in Ids, MarkUnknown(i)
    PROVE  HoldsInv'
  <1>1. Open' = Open /\ request' = request
    BY DEF MarkUnknown, Open, LedgerInv, LedgerTypeOK
  <1>2. /\ \A d : Hold(d)' = Hold(d)
        /\ \A o, d : OwnerHold(o, d)' = OwnerHold(o, d)
        /\ \A o : OpenOf(o)' = OpenOf(o)
    BY <1>1 DEF Hold, OwnerHold, OpenOf
  <1> QED
    BY <1>1, <1>2 DEF MarkUnknown, HoldsInv, Charged

\* Every step of the ledger keeps the totals and the holds together.
LEMMA HoldsNext == LedgerInv /\ HoldsInv /\ [LedgerNext]_ledgerVars => HoldsInv'
  <1> SUFFICES ASSUME LedgerInv, HoldsInv, [LedgerNext]_ledgerVars PROVE HoldsInv'
    OBVIOUS
  <1>1. ASSUME NEW i \in Ids, NEW q \in Requests, Reserve(i, q) PROVE HoldsInv'
    BY <1>1, HoldsReserve
  <1>2. ASSUME NEW i \in Ids, NEW a \in Observations, Commit(i, a) PROVE HoldsInv'
    BY <1>2, HoldsRelease DEF Commit
  <1>3. ASSUME NEW i \in Ids, NEW a \in Observations, NEW byOwner, CommitOwners(i, a, byOwner)
        PROVE  HoldsInv'
    BY <1>3, HoldsRelease DEF CommitOwners
  <1>4. ASSUME NEW i \in Ids, CancelBeforeDispatch(i) PROVE HoldsInv'
    BY <1>4, HoldsRelease DEF CancelBeforeDispatch
  <1>5. ASSUME NEW i \in Ids, MarkUnknown(i) PROVE HoldsInv'
    BY <1>5, HoldsUnknown
  <1>6. CASE UNCHANGED ledgerVars
    BY <1>6 DEF ledgerVars, HoldsInv, Open, OpenOf, Hold, OwnerHold, Charged
  <1> QED
    BY <1>1, <1>2, <1>3, <1>4, <1>5, <1>6 DEF LedgerNext

\* The sums of HoldsAddUp are those of the functions Hold and OwnerHold.
LEMMA HoldIsSum ==
    ASSUME NEW d
    PROVE  MapThenSumSet(LAMBDA i : request[i].maximum[d], Open) = SumOf(Hold(d), Open)
  <1> DEFINE F(h) == [s \in SUBSET Open |->
                        IF s = {} THEN 0 ELSE request[Pick(s)].maximum[d] + h[s \ {Pick(s)}]]
             G(h) == [s \in SUBSET Open |->
                        IF s = {} THEN 0 ELSE Hold(d)[Pick(s)] + h[s \ {Pick(s)}]]
  <1>1. \A s \in SUBSET Open : s # {} => Hold(d)[Pick(s)] = request[Pick(s)].maximum[d]
    BY Picked DEF Hold, Open
  <1>2. \A h : F(h) = G(h)
    BY <1>1
  <1>3. (CHOOSE h : h = F(h)) = (CHOOSE h : h = G(h))
    <2> HIDE DEF F, G
    <2> QED
      BY <1>2
  <1> QED
    BY <1>3, SumIsPartial DEF MapThenSumSet, MapThenFoldSet, Partial, Pick

\* The same for the owners.
LEMMA OwnerHoldIsSum ==
    ASSUME NEW o, NEW d
    PROVE  MapThenSumSet(LAMBDA i : request[i].alloc[o][d],
                         {i \in Open : o \in DOMAIN request[i].alloc}) = SumOf(OwnerHold(o, d), OpenOf(o))
  <1> DEFINE F(h) == [s \in SUBSET OpenOf(o) |->
                        IF s = {} THEN 0 ELSE request[Pick(s)].alloc[o][d] + h[s \ {Pick(s)}]]
             G(h) == [s \in SUBSET OpenOf(o) |->
                        IF s = {} THEN 0 ELSE OwnerHold(o, d)[Pick(s)] + h[s \ {Pick(s)}]]
  <1>1. \A s \in SUBSET OpenOf(o) : s # {} => OwnerHold(o, d)[Pick(s)] = request[Pick(s)].alloc[o][d]
    BY Picked DEF OwnerHold, OpenOf, Open
  <1>2. \A h : F(h) = G(h)
    BY <1>1
  <1>3. (CHOOSE h : h = F(h)) = (CHOOSE h : h = G(h))
    <2> HIDE DEF F, G
    <2> QED
      BY <1>2
  <1> QED
    BY <1>3, SumIsPartial DEF MapThenSumSet, MapThenFoldSet, Partial, Pick, OpenOf

\* The running totals are what the open reservations hold, for any number of
\* identities, owners and dimensions: commit() and cancel_before_dispatch() never
\* subtract more than is there.
THEOREM LedgerHoldsAddUp == LedgerSpec => []HoldsAddUp
  <1>1. HoldsInv => HoldsAddUp
    BY HoldIsSum, OwnerHoldIsSum DEF HoldsInv, HoldsAddUp
  <1> QED
    BY <1>1, LedgerInitInv, LedgerNextInv, HoldsInit, HoldsNext, PTL DEF LedgerSpec
-----------------------------------------------------------------------------
(* The outer attempts of a completion.  While the completion runs, the      *)
(* calls with the present messages are whole outer attempts and the         *)
(* transport retries of this one; an earlier number of corrections was left *)
(* for good.                                                                *)

PerOuter == MaxTransport + 1

\* The numbers of corrections the calls were made with.
Values == {calls[i].corrections : i \in DOMAIN calls}

\* The group of v among the calls cs.
CallsWith(cs, v) == {i \in DOMAIN cs : cs[i].corrections = v}

\* How many outer attempts a group of calls stands for.
Ceilings == [v \in Nat |-> (Cardinality(Group(v)) + MaxTransport) \div PerOuter]

\* What is recorded of a call.
Made == [corrections : Nat, result : Results]

Running == phase \in {"ready", "out", "asleep"}

CompletionTypeOK ==
    /\ phase \in {"ready", "out", "asleep"} \cup Ended
    /\ outer \in 0..(MaxOuter - 1)
    /\ transport \in 0..MaxTransport
    /\ corrections \in Nat
    /\ calls \in Seq(Made)
    /\ stopped \in BOOLEAN

\* The calls fit in the outer attempts made so far.
CallsFit ==
    /\ Running => Len(calls) <= outer * PerOuter + transport
    /\ Len(calls) <= outer * PerOuter + PerOuter

\* No call was made with more corrections than there are, and those made with as
\* many fill whole outer attempts up to this one.
GroupsFill ==
    /\ \A v \in Values : v <= corrections
    /\ Running => \E m \in Nat : Cardinality(Group(corrections)) = m * PerOuter + transport

\* What the groups stand for together.
GroupsCount ==
    /\ Running => SumOf(Ceilings, Values) = outer + (IF transport = 0 THEN 0 ELSE 1)
    /\ phase \in {"returned", "caseError"} => SumOf(Ceilings, Values) = outer + 1

CompletionInv == CompletionTypeOK /\ CallsFit /\ GroupsFill /\ GroupsCount

\* Rounding up: what is left over of a group counts as one more.
LEMMA RoundedUp ==
    ASSUME NEW m \in Nat, NEW r \in 0..PerOuter
    PROVE  ((m * PerOuter + r) + MaxTransport) \div PerOuter = m + (IF r = 0 THEN 0 ELSE 1)
  <1> DEFINE k == PerOuter
  <1>1. k \in Nat \ {0} /\ MaxTransport = k - 1
    BY CompletionAssumption DEF PerOuter
  <1>2. r + MaxTransport \in Nat /\ IF r = 0 THEN r + MaxTransport < k ELSE k <= r + MaxTransport /\ r + MaxTransport < k + k
    BY <1>1
  <1> HIDE DEF k
  <1>3. \A q \in Nat, s \in Nat : s < k => (q * k + s) \div k = q
    BY <1>1
  <1> QED
    BY <1>1, <1>2, <1>3 DEF k

\* Only finitely many calls were made, so every sum below is over a finite set.
LEMMA GroupsFinite ==
    ASSUME CompletionInv
    PROVE  /\ DOMAIN calls = 1..Len(calls) /\ Len(calls) \in Nat
           /\ \A i \in DOMAIN calls : calls[i].corrections \in Nat
           /\ IsFiniteSet(Values) /\ Values \subseteq Nat
           /\ \A v : IsFiniteSet(Group(v)) /\ Cardinality(Group(v)) \in Nat
           /\ \A v \in Nat : Ceilings[v] \in Int
  <1>1. DOMAIN calls = 1..Len(calls) /\ Len(calls) \in Nat /\ \A i \in DOMAIN calls : calls[i].corrections \in Nat
    <2>1. calls \in Seq(Made)
      BY DEF CompletionInv, CompletionTypeOK
    <2>2. \A i \in DOMAIN calls : calls[i] \in Made
      BY <2>1
    <2> QED
      BY <2>1, <2>2 DEF Made
  <1>2. IsFiniteSet(DOMAIN calls)
    BY <1>1, FS_Interval
  <1>3. IsFiniteSet(Values) /\ Values \subseteq Nat
    <2>1. corrections \in Nat /\ IsFiniteSet(0..corrections)
      BY FS_Interval DEF CompletionInv, CompletionTypeOK
    <2>2. Values \subseteq Nat
      BY <1>1 DEF Values
    <2>3. Values \subseteq 0..corrections
      BY <2>1, <2>2 DEF CompletionInv, GroupsFill
    <2> QED
      BY <2>1, <2>2, <2>3, FS_Subset
  <1>4. \A v : IsFiniteSet(Group(v)) /\ Cardinality(Group(v)) \in Nat
    <2>1. \A v : Group(v) \subseteq DOMAIN calls
      BY DEF Group
    <2> QED
      BY <1>2, <2>1, FS_Subset, FS_CardinalityType
  <1>5. \A v \in Nat : Ceilings[v] \in Int
    <2>1. PerOuter \in Nat \ {0} /\ MaxTransport \in Nat
      BY CompletionAssumption DEF PerOuter
    <2> QED
      BY <1>4, <2>1 DEF Ceilings
  <1> QED
    BY <1>1, <1>3, <1>4, <1>5

\* One more call: it joins the group of the present messages, and with it the
\* groups stand for exactly the outer attempts made so far.
LEMMA RecordCounts ==
    ASSUME CompletionInv, Running, NEW x \in Results, Record(x)
    PROVE  /\ calls' \in Seq(Made)
           /\ Len(calls') = Len(calls) + 1
           /\ \A v \in Values' : v <= corrections
           /\ \E m \in Nat : Cardinality(CallsWith(calls', corrections)) = m * PerOuter + (transport + 1)
           /\ SumOf(Ceilings', Values') = outer + 1
  <1> DEFINE c == corrections
             n == Len(calls) + 1
  <1>1. /\ DOMAIN calls = 1..Len(calls) /\ Len(calls) \in Nat
        /\ IsFiniteSet(Values) /\ Values \subseteq Nat
        /\ \A v : IsFiniteSet(Group(v)) /\ Cardinality(Group(v)) \in Nat
        /\ \A v \in Nat : Ceilings[v] \in Int
    BY GroupsFinite DEF CompletionInv
  <1>2. /\ calls' \in Seq(Made) /\ Len(calls') = n /\ DOMAIN calls' = 1..n
        /\ calls'[n] = [corrections |-> c, result |-> x]
        /\ \A i \in DOMAIN calls : calls'[i] = calls[i]
    <2>1. calls \in Seq(Made) /\ [corrections |-> c, result |-> x] \in Made
      BY DEF CompletionInv, CompletionTypeOK, Made
    <2> QED
      BY <2>1 DEF Record
  <1>3. c \in Nat /\ outer \in Nat /\ transport \in 0..MaxTransport
    BY CompletionAssumption DEF CompletionInv, CompletionTypeOK
  <1>4. Values' = Values \cup {c} /\ \A v \in Values' : v <= c
    <2>1. Values' = {calls'[i].corrections : i \in 1..n}
      BY <1>2 DEF Values
    <2>2. Values = {calls'[i].corrections : i \in 1..Len(calls)}
      BY <1>1, <1>2 DEF Values
    <2>3. 1..n = 1..Len(calls) \cup {n}
      BY <1>1
    <2>4. Values' = Values \cup {c}
      BY <1>2, <2>1, <2>2, <2>3
    <2> QED
      BY <1>3, <2>4 DEF CompletionInv, GroupsFill
  <1>5. CallsWith(calls', c) = Group(c) \cup {n} /\ n \notin Group(c) /\ \A v : v # c => Group(v)' = Group(v)
    <2>1. \A i : i \in 1..n <=> i \in 1..Len(calls) \/ i = n
      BY <1>1
    <2>2. \A v, i : i \in CallsWith(calls', v) <=> i \in Group(v) \/ (i = n /\ v = c)
      BY <1>1, <1>2, <2>1 DEF CallsWith, Group
    <2>3. \A v : Group(v)' = CallsWith(calls', v)
      BY DEF CallsWith, Group
    <2>4. n \notin Group(c)
      BY <1>1 DEF Group
    <2>5. CallsWith(calls', c) = Group(c) \cup {n}
      BY <2>2
    <2>6. ASSUME NEW v, v # c PROVE CallsWith(calls', v) = Group(v)
      BY <2>2, <2>6 DEF CallsWith, Group
    <2> QED
      BY <2>3, <2>4, <2>5, <2>6
  <1>6. Cardinality(CallsWith(calls', c)) = Cardinality(Group(c)) + 1
    BY <1>1, <1>5, FS_AddElement
  <1>7. PICK m \in Nat : Cardinality(Group(c)) = m * PerOuter + transport
    BY DEF CompletionInv, GroupsFill
  <1>8. m * PerOuter \in Nat /\ PerOuter \in Nat \ {0}
    BY CompletionAssumption DEF PerOuter
  <1>9. Cardinality(CallsWith(calls', c)) = m * PerOuter + (transport + 1)
    BY <1>3, <1>6, <1>7, <1>8
  <1>10. Ceilings[c] = m + (IF transport = 0 THEN 0 ELSE 1) /\ Ceilings'[c] = m + 1
    <2>1. transport \in 0..PerOuter /\ transport + 1 \in 0..PerOuter /\ transport + 1 # 0
      BY <1>3, CompletionAssumption DEF PerOuter
    <2>2. Ceilings[c] = ((m * PerOuter + transport) + MaxTransport) \div PerOuter
      BY <1>3, <1>7 DEF Ceilings
    <2>3. Ceilings'[c] = ((m * PerOuter + (transport + 1)) + MaxTransport) \div PerOuter
      <3>1. Ceilings' = [v \in Nat |-> (Cardinality(CallsWith(calls', v)) + MaxTransport) \div PerOuter]
        BY DEF Ceilings, CallsWith, Group, PerOuter
      <3> QED
        BY <1>3, <1>9, <3>1
    <2>4. \A r \in 0..PerOuter : ((m * PerOuter + r) + MaxTransport) \div PerOuter = m + (IF r = 0 THEN 0 ELSE 1)
      BY RoundedUp
    <2> QED
      BY <2>1, <2>2, <2>3, <2>4
  <1>11. \A v \in Nat : v # c => Ceilings'[v] = Ceilings[v]
    BY <1>5 DEF Ceilings, PerOuter
  <1>12. IsFiniteSet(Values \ {c}) /\ c \notin Values \ {c} /\ Values \ {c} \subseteq Nat
    BY <1>1, FS_Subset
  <1>13. SumOf(Ceilings', (Values \ {c}) \cup {c}) = SumOf(Ceilings, Values \ {c}) + (m + 1)
    <2>1. \A v \in (Values \ {c}) \cup {c} : Ceilings'[v] \in Int
      BY <1>1, <1>3, <1>10, <1>11
    <2>2. \A v \in Values \ {c} : Ceilings[v] = Ceilings'[v]
      BY <1>11, <1>12
    <2> QED
      BY <1>10, <1>12, <2>1, <2>2, SumAdd
  <1>14. SumOf(Ceilings, Values) = SumOf(Ceilings, Values \ {c}) + Ceilings[c]
    <2>1. SumOf(Ceilings, Values \ {c}) \in Int
      BY <1>1, <1>12, SumIsInt
    <2>2. CASE c \in Values
      <3>1. \A v \in Values : Ceilings[v] \in Int
        BY <1>1
      <3>2. SumOf(Ceilings, Values) = Ceilings[c] + SumOf(Ceilings, Values \ {c})
        <4>1. IsFiniteSet(Values)
          BY <1>1
        <4> QED
          BY <2>2, <3>1, <4>1, SumRemove
      <3> QED
        BY <2>1, <2>2, <3>1, <3>2
    <2>3. CASE c \notin Values
      <3>1. Group(c) = {} /\ Cardinality(Group(c)) = 0
        BY <2>3, FS_EmptySet DEF Group, Values
      <3>2. m = 0 /\ transport = 0
        BY <1>3, <1>7, <1>8, <3>1
      <3>3. Values \ {c} = Values
        BY <2>3
      <3> QED
        BY <1>10, <2>1, <3>2, <3>3
    <2> QED
      BY <2>2, <2>3
  <1>15. SumOf(Ceilings, Values \ {c}) \in Int
    BY <1>1, <1>12, SumIsInt
  <1>16. SumOf(Ceilings, Values) = outer + (IF transport = 0 THEN 0 ELSE 1)
    BY DEF CompletionInv, GroupsCount
  <1>17. Values' = (Values \ {c}) \cup {c}
    BY <1>4
  <1>18. SumOf(Ceilings', Values') = SumOf(Ceilings, Values \ {c}) + (m + 1)
    BY <1>13, <1>17
  <1>19. SumOf(Ceilings, Values \ {c}) + (m + 1) = outer + 1
    <2>1. PICK s \in Int : s = SumOf(Ceilings, Values \ {c})
      BY <1>15
    <2>2. s + (m + (IF transport = 0 THEN 0 ELSE 1)) = outer + (IF transport = 0 THEN 0 ELSE 1)
      BY <1>10, <1>14, <1>16, <2>1
    <2>3. s + (m + 1) = outer + 1
      BY <1>3, <2>2
    <2> QED
      BY <2>1, <2>3
  <1> QED
    BY <1>2, <1>4, <1>9, <1>18, <1>19

\* The completion starts with no calls.
LEMMA CompletionInitInv == CompletionInit => CompletionInv
  <1> SUFFICES ASSUME CompletionInit PROVE CompletionInv
    OBVIOUS
  <1>1. Values = {} /\ Group(0) = {} /\ Len(calls) = 0 /\ Cardinality(Group(0)) = 0
    BY FS_EmptySet DEF CompletionInit, Values, Group
  <1>2. CompletionTypeOK
    <2>1. calls \in Seq(Made)
      BY DEF CompletionInit
    <2>2. /\ phase \in {"ready", "out", "asleep"} /\ stopped \in BOOLEAN
          /\ outer = 0 /\ transport = 0 /\ corrections = 0
      BY DEF CompletionInit
    <2>3. 0 \in 0..(MaxOuter - 1) /\ 0 \in 0..MaxTransport
      BY CompletionAssumption
    <2> QED
      BY <2>1, <2>2, <2>3 DEF CompletionTypeOK
  <1>3. CallsFit
    BY <1>1, CompletionAssumption DEF CompletionInit, CallsFit, PerOuter
  <1>4. GroupsFill
    <2>1. 0 = 0 * PerOuter + 0
      BY CompletionAssumption DEF PerOuter
    <2> QED
      BY <1>1, <2>1 DEF CompletionInit, GroupsFill
  <1>5. GroupsCount
    BY <1>1, SumEmpty DEF CompletionInit, GroupsCount
  <1> QED
    BY <1>2, <1>3, <1>4, <1>5 DEF CompletionInv

\* A call comes back: however the loop goes on, the calls fit, and the group it
\* leaves by a correction is left for good.
LEMMA ReceiveInv ==
    ASSUME CompletionInv, NEW x \in Results, Receive(x)
    PROVE  CompletionInv'
  <1>1. Running /\ Record(x) /\ UNCHANGED stopped
    BY DEF Receive, Running
  <1>2. /\ calls' \in Seq(Made)
        /\ Len(calls') = Len(calls) + 1
        /\ \A v \in Values' : v <= corrections
        /\ \E m \in Nat : Cardinality(CallsWith(calls', corrections)) = m * PerOuter + (transport + 1)
        /\ SumOf(Ceilings', Values') = outer + 1
    BY <1>1, RecordCounts
  <1>3. /\ corrections \in Nat /\ outer \in 0..(MaxOuter - 1) /\ transport \in 0..MaxTransport
        /\ Len(calls) \in Nat /\ Len(calls) <= outer * PerOuter + transport
        /\ PerOuter = MaxTransport + 1 /\ MaxTransport \in Nat /\ MaxOuter \in Nat \ {0}
        /\ outer * PerOuter \in Nat /\ (outer + 1) * PerOuter = outer * PerOuter + PerOuter
    BY <1>1, GroupsFinite, CompletionAssumption DEF CompletionInv, CompletionTypeOK, CallsFit, PerOuter
  <1> USE DEF Running, Ended
  <1>4. CASE phase' \in Ended /\ UNCHANGED <<outer, transport, corrections>>
    <2>1. CompletionTypeOK' /\ CallsFit'
      BY <1>1, <1>2, <1>3, <1>4 DEF CompletionTypeOK, CompletionInv, CallsFit, PerOuter
    <2> QED
      BY <1>2, <1>4, <2>1 DEF CompletionInv, GroupsFill, GroupsCount
  <1>5. CASE RetryTransport
    <2>1. CompletionTypeOK' /\ CallsFit'
      BY <1>1, <1>2, <1>3, <1>5 DEF RetryTransport, CompletionTypeOK, CompletionInv, CallsFit, PerOuter
    <2>2. GroupsFill'
      <3>1. Group(corrections)' = CallsWith(calls', corrections) /\ transport' = transport + 1 /\ corrections' = corrections
        BY <1>5 DEF RetryTransport, Group, CallsWith
      <3> QED
        BY <1>2, <3>1 DEF GroupsFill, PerOuter
    <2>3. GroupsCount'
      BY <1>2, <1>3, <1>5 DEF RetryTransport, GroupsCount
    <2> QED
      BY <2>1, <2>2, <2>3 DEF CompletionInv
  <1>6. CASE \E next \in {"asleep", "ready"} : ~LastOuter /\ NextOuter(next) /\ transport = MaxTransport /\ UNCHANGED corrections
    <2>1. CompletionTypeOK' /\ CallsFit'
      BY <1>1, <1>2, <1>3, <1>6 DEF NextOuter, LastOuter, CompletionTypeOK, CompletionInv, CallsFit, PerOuter
    <2>2. GroupsFill'
      <3>1. PICK m \in Nat : Cardinality(CallsWith(calls', corrections)) = m * PerOuter + (transport + 1)
        BY <1>2
      <3>2. m + 1 \in Nat /\ m * PerOuter + (transport + 1) = (m + 1) * PerOuter + 0
        BY <1>3, <1>6
      <3>3. Group(corrections)' = CallsWith(calls', corrections) /\ transport' = 0 /\ corrections' = corrections
        BY <1>6 DEF Group, CallsWith, NextOuter
      <3>4. Cardinality(Group(corrections)') = (m + 1) * PerOuter + transport'
        BY <3>1, <3>2, <3>3
      <3> QED
        BY <1>2, <3>2, <3>3, <3>4 DEF GroupsFill, PerOuter
    <2>3. GroupsCount'
      BY <1>2, <1>3, <1>6 DEF NextOuter, GroupsCount
    <2> QED
      BY <2>1, <2>2, <2>3 DEF CompletionInv
  <1>7. CASE ~LastOuter /\ NextOuter("ready") /\ corrections' = corrections + 1
    <2>1. CompletionTypeOK' /\ CallsFit'
      BY <1>1, <1>2, <1>3, <1>7 DEF NextOuter, LastOuter, CompletionTypeOK, CompletionInv, CallsFit, PerOuter
    <2>2. GroupsFill'
      <3>1. \A i \in DOMAIN calls' : calls'[i].corrections \in Nat
        <4>1. \A i \in DOMAIN calls' : calls'[i] \in Made
          BY <1>2
        <4> QED
          BY <4>1 DEF Made
      <3>2. Values' \subseteq Nat
        BY <3>1 DEF Values
      <3>3. \A v \in Values' : v <= corrections' /\ v # corrections'
        BY <1>2, <1>3, <1>7, <3>2
      <3>4. Group(corrections)' = {}
        BY <3>3 DEF Group, Values
      <3>5. Cardinality(Group(corrections)') = 0 /\ transport' = 0
        BY <1>7, <3>4, FS_EmptySet DEF NextOuter
      <3>6. 0 = 0 * PerOuter + 0
        BY <1>3
      <3>7. Cardinality(Group(corrections)') = 0 * PerOuter + transport' /\ 0 \in Nat
        BY <3>5, <3>6
      <3> QED
        BY <3>3, <3>7 DEF GroupsFill, PerOuter
    <2>3. GroupsCount'
      BY <1>2, <1>3, <1>7 DEF NextOuter, GroupsCount
    <2> QED
      BY <2>1, <2>2, <2>3 DEF CompletionInv
  <1>8. CASE \E how \in Ended : Stop(how)
    BY <1>4, <1>8 DEF Stop
  <1>9. CASE Malformed
    BY <1>7, <1>8, <1>9 DEF Malformed
  <1>10. CASE Failed(x)
    <2>1. OuterRateLimit(x) => TransportRetryable(x)
      BY DEF OuterRateLimit, TransportRetryable
    <2>2. \/ RetryTransport
          \/ transport = MaxTransport /\ ~LastOuter /\ NextOuter("asleep") /\ UNCHANGED corrections
          \/ Stop("caseError")
      BY <1>10, <2>1 DEF Failed
    <2> QED
      BY <1>5, <1>6, <1>8, <2>2
  <1> QED
    BY <1>8, <1>9, <1>10 DEF Receive

\* Every step of a completion preserves the invariant.
LEMMA CompletionNextInv == CompletionInv /\ [CompletionNext]_completionVars => CompletionInv'
  <1> SUFFICES ASSUME CompletionInv, [CompletionNext]_completionVars PROVE CompletionInv'
    OBVIOUS
  <1>1. ASSUME NEW x \in Results, Receive(x) PROVE CompletionInv'
    BY <1>1, ReceiveInv
  <1>2. ASSUME UNCHANGED <<outer, transport, corrections, calls>>, stopped' \in BOOLEAN,
               phase' = phase \/ (Running /\ (Running' \/ phase' = "raised"))
        PROVE  CompletionInv'
    <2>1. /\ Values' = Values /\ Ceilings' = Ceilings /\ Group(corrections)' = Group(corrections)
      BY <1>2 DEF Values, Ceilings, Group, PerOuter
    <2>2. phase' \in {"ready", "out", "asleep"} \cup Ended /\ (Running' => Running)
          /\ (phase' \in {"returned", "caseError"} => phase' = phase)
      BY <1>2 DEF Running, Ended, CompletionInv, CompletionTypeOK
    <2>3. CompletionTypeOK'
      BY <1>2, <2>2 DEF CompletionInv, CompletionTypeOK, Ended
    <2>4. CallsFit'
      BY <1>2, <2>2 DEF CompletionInv, CallsFit, PerOuter
    <2>5. GroupsFill'
      BY <1>2, <2>1, <2>2 DEF CompletionInv, GroupsFill, PerOuter
    <2>6. GroupsCount'
      BY <1>2, <2>1, <2>2 DEF CompletionInv, GroupsCount
    <2> QED
      BY <2>3, <2>4, <2>5, <2>6 DEF CompletionInv
  <1>3. stopped \in BOOLEAN
    BY DEF CompletionInv, CompletionTypeOK
  <1>4. CASE Dispatch
    BY <1>2, <1>3, <1>4 DEF Dispatch, Running
  <1>5. CASE RecordFails
    BY <1>2, <1>3, <1>5 DEF RecordFails, Stop, Running
  <1>6. CASE Wake
    BY <1>2, <1>3, <1>6 DEF Wake, Running
  <1>7. CASE CancelAsleep
    BY <1>2, <1>3, <1>7 DEF CancelAsleep, Stop, Running
  <1>8. CASE RequestStop
    BY <1>2, <1>8 DEF RequestStop
  <1>9. CASE UNCHANGED completionVars
    BY <1>2, <1>3, <1>9 DEF completionVars
  <1> QED
    BY <1>1, <1>4, <1>5, <1>6, <1>7, <1>8, <1>9 DEF CompletionNext

\* The sum of OuterAttemptCount is that of the function Ceilings.
LEMMA CountIsSum ==
    ASSUME CompletionInv
    PROVE  OuterAttemptCount = SumOf(Ceilings, Values)
  <1> DEFINE Rounded(v) == (Cardinality(Group(v)) + MaxTransport) \div (MaxTransport + 1)
             F(h) == [s \in SUBSET Values |-> IF s = {} THEN 0 ELSE Rounded(Pick(s)) + h[s \ {Pick(s)}]]
             G(h) == [s \in SUBSET Values |-> IF s = {} THEN 0 ELSE Ceilings[Pick(s)] + h[s \ {Pick(s)}]]
  <1>1. \A s \in SUBSET Values : s # {} => Ceilings[Pick(s)] = Rounded(Pick(s))
    BY Picked, GroupsFinite DEF Ceilings, PerOuter
  <1>2. \A h : F(h) = G(h)
    <2> HIDE DEF Rounded
    <2> QED
      BY <1>1
  <1>3. (CHOOSE h : h = F(h)) = (CHOOSE h : h = G(h))
    <2> HIDE DEF F, G
    <2> QED
      BY <1>2
  <1> QED
    BY <1>3, SumIsPartial DEF OuterAttemptCount, MapThenSumSet, MapThenFoldSet, Partial, Pick, Values

\* Whatever mix of rate limits, lost calls and malformed responses a completion
\* meets, and whatever its two limits are, it makes no more calls than they allow,
\* and native_results derives from the sealed calls the outer attempts it made.
THEOREM CompletionAttemptsCounted == CompletionSpec => []AttemptsCounted
  <1>1. CompletionInv => AttemptsCounted
    <2> SUFFICES ASSUME CompletionInv PROVE AttemptsCounted
      OBVIOUS
    <2>1. OuterAttemptsRecovered
      BY CountIsSum DEF OuterAttemptsRecovered, CompletionInv, GroupsCount
    <2>2. CallsBounded
      <3>1. PICK e \in Nat : MaxOuter = (outer + 1) + e
        <4>1. MaxOuter - (outer + 1) \in Nat /\ MaxOuter = (outer + 1) + (MaxOuter - (outer + 1))
          BY CompletionAssumption DEF CompletionInv, CompletionTypeOK
        <4> QED
          BY <4>1
      <3>2. PerOuter \in Nat /\ outer \in Nat /\ e * PerOuter \in Nat
            /\ MaxOuter * PerOuter = (outer * PerOuter + PerOuter) + e * PerOuter
        BY <3>1, CompletionAssumption DEF CompletionInv, CompletionTypeOK, PerOuter
      <3>3. outer * PerOuter + PerOuter \in Nat /\ Len(calls) \in Nat
        BY <3>2, GroupsFinite DEF CompletionInv
      <3> QED
        BY <3>2, <3>3 DEF CallsBounded, CompletionInv, CallsFit, PerOuter
    <2> QED
      BY <2>1, <2>2 DEF AttemptsCounted
  <1> QED
    BY <1>1, CompletionInitInv, CompletionNextInv, PTL DEF CompletionSpec

-----------------------------------------------------------------------------
(* Paid attempts.  The invariant says what each step has left behind; the  *)
(* properties are read off it.                                             *)

BeforeIntent == {"new", "reserved", "claimed", "held"}
BeforeCall == BeforeIntent \cup {"intended"}
Ending == {"received", "recorded", "accounted", "settled", "cleared", "done"}
Closed == {"settled", "cleared", "done"}

\* The records an attempt has sealed by each step.
SealsInOrder ==
    \A i \in Ids :
        /\ step[i] \notin {"new", "reserved"} => "claim" \in sealed[i]
        /\ step[i] \notin {"new", "reserved", "claimed"} => "reservation" \in sealed[i]
        /\ step[i] \notin BeforeIntent => "intent" \in sealed[i]
        /\ step[i] \in Ending => "receipt" \in sealed[i]
        /\ step[i] \in Ending \ {"received"} => "attempt" \in sealed[i]
        /\ step[i] = "accounted" => "accounts" \in sealed[i]
        /\ step[i] \in Closed /\ outcome[i] \in {"succeeded", "failed"} => "accounts" \in sealed[i]
        /\ "accounts" \in sealed[i] =>
              \/ step[i] = "accounted"
              \/ step[i] \in Closed /\ outcome[i] \in {"succeeded", "failed"}
              \/ step[i] = "cleared" /\ i \in broken
        /\ step[i] = "cleared" => outcome[i] = "unsent"

\* When its pointer is there, and when its request may be out.
PointsWhileCalling ==
    \A i \in Ids :
        /\ i \in pointers \cup sent => step[i] \notin BeforeCall
        /\ step[i] \notin BeforeCall \cup {"cleared", "done"} => i \in pointers
        /\ step[i] \in {"cleared", "done"} => i \in pointers \/ Clears(i)
        /\ outcome[i] = "unsent" => i \notin sent
        /\ step[i] \notin BeforeCall \cup {"calling"} => outcome[i] \in Outcomes
        /\ outcome[i] = "none" \/ step[i] \notin BeforeCall \cup {"calling"}

\* Where its reservation stands.
HoldsWhileOpen ==
    \A i \in Ids :
        /\ step[i] = "new" => state[i] = "none"
        /\ step[i] \notin {"new"} \cup Closed => state[i] = "reserved"
        /\ step[i] \in Closed =>
              state[i] = CASE outcome[i] \in {"succeeded", "failed"} -> "committed"
                           [] outcome[i] \in {"unknown", "cancelled"} -> "unknown"
                           [] outcome[i] = "unsent" -> "cancelled"
        /\ step[i] = "accounted" => outcome[i] \in {"succeeded", "failed"}

StepsOK ==
    /\ step \in [Ids -> Steps]
    /\ outcome \in [Ids -> Outcomes \cup {"none"}]
    /\ sealed \in [Ids -> SUBSET Kinds]
    /\ pointers \subseteq Ids
    /\ sent \subseteq Ids
    /\ broken \subseteq Ids
    /\ state \in [Ids -> States]
    /\ request \in [Ids -> Requests \cup {NoRequest}]
    /\ \A i \in Ids : state[i] = "reserved" => request[i] = RequestOf[i]

ProcessOK == process \in {"running", "stopping", "dead"}

AttemptInv == StepsOK /\ SealsInOrder /\ PointsWhileCalling /\ HoldsWhileOpen

-----------------------------------------------------------------------------
\* No attempt has left anything behind before the run starts.
LEMMA AttemptInitInv == Init => AttemptInv
  BY DEF Init, LedgerInit, AttemptInv, StepsOK, SealsInOrder, PointsWhileCalling, HoldsWhileOpen, Closed,
         BeforeIntent, BeforeCall, Ending, Closed, Steps, Outcomes, Kinds, States

\* Admitting: the ledger holds the reservation.
LEMMA AdmitInv ==
    ASSUME AttemptInv, NEW i \in Ids, Admit(i)
    PROVE  AttemptInv'
  <1> USE AttemptAssumption DEF AttemptInv, StepsOK, Admit, Turn, Advance, Reserve
  <1>1. StepsOK'
    BY DEF Steps, Outcomes, Kinds, States
  <1>2. SealsInOrder'
    BY DEF SealsInOrder, BeforeIntent, Ending, Closed
  <1>3. PointsWhileCalling'
    BY DEF PointsWhileCalling, BeforeIntent, BeforeCall, Clears, Outcomes, Steps
  <1>4. HoldsWhileOpen'
    BY DEF HoldsWhileOpen, Closed, Outcomes
  <1> QED
    BY <1>1, <1>2, <1>3, <1>4

\* Each seal adds the record of its own step.
LEMMA SealStepInv ==
    ASSUME AttemptInv, NEW i \in Ids, SealStep(i)
    PROVE  AttemptInv'
  <1> USE DEF AttemptInv, StepsOK, SealStep, SealClaim, SealReservation, SealIntent, SealReceipt, SealAttempt, SealAccounts, Seal, Advance, ledgerVars
  <1>1. StepsOK'
    BY DEF Steps, Outcomes, Kinds, States
  <1>2. SealsInOrder'
    BY DEF SealsInOrder, BeforeIntent, Ending, Closed
  <1>3. PointsWhileCalling'
    BY DEF PointsWhileCalling, BeforeIntent, BeforeCall, Clears, Outcomes, Steps
  <1>4. HoldsWhileOpen'
    <2>1. state' = state /\ outcome' = outcome
      BY DEF ledgerVars
    <2>2. \A j \in Ids : step'[j] = step[j] \/ (j = i /\ step[i] \notin {"new", "settled", "cleared", "done", "accounted"}
             /\ step'[i] \notin {"new", "settled", "cleared", "done"}
             /\ (step'[i] = "accounted" => outcome[i] \in {"succeeded", "failed"}))
      BY DEF Steps
    <2> QED
      BY <2>1, <2>2 DEF HoldsWhileOpen, Closed, Outcomes
  <1> QED
    BY <1>1, <1>2, <1>3, <1>4

\* The pointer and the call come with the intent sealed.
LEMMA MarkInv ==
    ASSUME AttemptInv, NEW i \in Ids, Mark(i)
    PROVE  AttemptInv'
  <1> USE DEF AttemptInv, StepsOK, Mark, Advance, ledgerVars
  <1>1. StepsOK'
    BY DEF Steps, Outcomes, Kinds, States
  <1>2. SealsInOrder'
    BY DEF SealsInOrder, BeforeIntent, Ending, Closed
  <1>3. PointsWhileCalling'
    BY DEF PointsWhileCalling, BeforeIntent, BeforeCall, Clears, Outcomes, Steps
  <1>4. HoldsWhileOpen'
    BY DEF HoldsWhileOpen, Closed, Outcomes
  <1> QED
    BY <1>1, <1>2, <1>3, <1>4

\* An answer fixes the outcome.
LEMMA AnswerInv ==
    ASSUME AttemptInv, NEW i \in Ids, NEW o \in Outcomes, Answer(i, o)
    PROVE  AttemptInv'
  <1> USE DEF AttemptInv, StepsOK, Answer, Advance, ledgerVars
  <1>1. StepsOK'
    BY DEF Steps, Outcomes, Kinds, States
  <1>2. SealsInOrder'
    BY DEF SealsInOrder, BeforeIntent, Ending, Closed, PointsWhileCalling, BeforeCall, Outcomes
  <1>3. PointsWhileCalling'
    BY DEF PointsWhileCalling, BeforeIntent, BeforeCall, Clears, Outcomes, Steps
  <1>4. HoldsWhileOpen'
    BY DEF HoldsWhileOpen, Closed, Outcomes, PointsWhileCalling, BeforeIntent, BeforeCall
  <1> QED
    BY <1>1, <1>2, <1>3, <1>4

\* The reservation is settled as the outcome says.
LEMMA SettleStepInv ==
    ASSUME AttemptInv, NEW i \in Ids, Settle(i)
    PROVE  AttemptInv'
  <1> USE DEF AttemptInv, StepsOK, Settle, SettleBudget, Advance, CommitOwners, MarkUnknown, CancelBeforeDispatch, Release
  <1>1. StepsOK'
    BY DEF Steps, Outcomes, Kinds, States
  <1>2. SealsInOrder'
    BY DEF SealsInOrder, BeforeIntent, Ending, Closed, HoldsWhileOpen, Closed, PointsWhileCalling, BeforeCall, Outcomes
  <1>3. PointsWhileCalling'
    BY DEF PointsWhileCalling, BeforeIntent, BeforeCall, Clears, Outcomes, Steps
  <1>4. HoldsWhileOpen'
    BY DEF HoldsWhileOpen, Closed, Outcomes, PointsWhileCalling, BeforeIntent, BeforeCall
  <1> QED
    BY <1>1, <1>2, <1>3, <1>4

\* The pointer goes only when Clears allows.
LEMMA FinishInv ==
    ASSUME AttemptInv, NEW i \in Ids, Finish(i)
    PROVE  AttemptInv'
  <1> USE DEF AttemptInv, StepsOK, Finish, Advance, ledgerVars
  <1>1. StepsOK'
    BY DEF Steps, Outcomes, Kinds, States
  <1>2. SealsInOrder'
    BY DEF SealsInOrder, BeforeIntent, Ending, Closed, Recounts
  <1>3. PointsWhileCalling'
    BY DEF PointsWhileCalling, BeforeIntent, BeforeCall, Clears, Outcomes, Steps
  <1>4. HoldsWhileOpen'
    BY DEF HoldsWhileOpen, Closed, Outcomes
  <1> QED
    BY <1>1, <1>2, <1>3, <1>4

\* The late accounts mark their attempt as broken.
LEMMA AccountAgainInv ==
    ASSUME AttemptInv, NEW i \in Ids, AccountAgain(i)
    PROVE  AttemptInv'
  <1> USE DEF AttemptInv, StepsOK, AccountAgain, Seal, ledgerVars
  <1>1. StepsOK'
    BY DEF Steps, Outcomes, Kinds, States
  <1>2. SealsInOrder'
    BY DEF SealsInOrder, BeforeIntent, Ending, Closed
  <1>3. PointsWhileCalling'
    BY DEF PointsWhileCalling, Clears
  <1>4. HoldsWhileOpen'
    BY DEF HoldsWhileOpen
  <1> QED
    BY <1>1, <1>2, <1>3, <1>4

-----------------------------------------------------------------------------
\* Every step, a raised one, a stop and a kill included, preserves it.
LEMMA AttemptNextInv == AttemptInv /\ [Next]_vars => AttemptInv'
  <1> SUFFICES ASSUME AttemptInv, [Next]_vars PROVE AttemptInv'
    OBVIOUS
  <1>1. CASE /\ UNCHANGED <<ledgerVars, step, outcome, sealed, pointers, sent>>
            /\ broken \subseteq broken' /\ broken' \subseteq Ids
    BY <1>1 DEF ledgerVars, AttemptInv, StepsOK, SealsInOrder, PointsWhileCalling, HoldsWhileOpen, Closed, Clears
  <1>2. CASE \E i \in Ids : AttemptStep(i)
    BY <1>2, AdmitInv, SealStepInv, MarkInv, AnswerInv, SettleStepInv, FinishInv, AccountAgainInv DEF AttemptStep
  <1>3. CASE (\E i \in Ids : Raise(i)) \/ StopAdmission \/ Kill \/ UNCHANGED vars
    BY <1>1, <1>3 DEF AttemptInv, StepsOK, Raise, StopAdmission, Kill, vars, attemptVars
  <1> QED
    BY <1>2, <1>3 DEF Next

\* The invariant holds at every moment, also after a kill.
THEOREM AttemptInvariant == Spec => []AttemptInv
  BY AttemptInitInv, AttemptNextInv, PTL DEF Spec

\* A request that may be out, or has a pointer, has its intent in the capsule.
THEOREM AttemptsWriteAhead == Spec => []SentIsRecorded
  <1>1. AttemptInv => SentIsRecorded
    BY DEF AttemptInv, StepsOK, SentIsRecorded, SealsInOrder, PointsWhileCalling, BeforeIntent, BeforeCall
  <1> QED
    BY <1>1, AttemptInvariant, PTL

\* No kill hides a call: it has its record or its pointer.
THEOREM AttemptsVisible == Spec => []SentIsVisible
  <1>1. AttemptInv => SentIsVisible
    BY DEF AttemptInv, StepsOK, Steps, Outcomes, SentIsVisible, SealsInOrder, PointsWhileCalling, BeforeIntent, BeforeCall, Ending, Closed, Clears
  <1> QED
    BY <1>1, AttemptInvariant, PTL

\* Spending is never understated.
THEOREM AttemptsBudgeted == Spec => []SentIsBudgeted
  <1>1. AttemptInv => SentIsBudgeted
    BY DEF AttemptInv, StepsOK, Outcomes, SentIsBudgeted, HoldsWhileOpen, Closed, PointsWhileCalling, BeforeIntent, BeforeCall
  <1> QED
    BY <1>1, AttemptInvariant, PTL

\* Whatever is killed when, a request that may be out is recorded, visible and
\* budgeted.
THEOREM AttemptsAccountable == Spec => []SentIsAccountable
  BY AttemptsWriteAhead, AttemptsVisible, AttemptsBudgeted, PTL DEF SentIsAccountable

\* Ledger and capsule agree on every settled attempt.
THEOREM AttemptLedgerMatches == Spec => []LedgerMatchesRecords
  <1>1. AttemptInv => LedgerMatchesRecords
    BY DEF AttemptInv, StepsOK, Outcomes, LedgerMatchesRecords, HoldsWhileOpen, SealsInOrder, PointsWhileCalling, BeforeIntent, BeforeCall, Ending, Closed
  <1> QED
    BY <1>1, AttemptInvariant, PTL

\* No path through an attempt forgets its reservation.
THEOREM AttemptNothingReserved == Spec => []NothingLeftReserved
  <1>1. AttemptInv => NothingLeftReserved
    BY DEF AttemptInv, StepsOK, Outcomes, NothingLeftReserved, HoldsWhileOpen, Closed, PointsWhileCalling, BeforeIntent, BeforeCall
  <1> QED
    BY <1>1, AttemptInvariant, PTL

-----------------------------------------------------------------------------
\* Every step of the attempts is an operation of the ledger or none.
LEMMA AttemptStepsUseLedger ==
    ASSUME AttemptInv, [Next]_vars
    PROVE  [LedgerNext]_ledgerVars
  <1>1. CASE UNCHANGED vars
    BY <1>1 DEF vars
  <1>2. ASSUME NEW i \in Ids, Admit(i) PROVE LedgerNext
    BY <1>2, AttemptAssumption DEF Admit, LedgerNext
  <1>3. ASSUME NEW i \in Ids, SealStep(i) \/ Mark(i) \/ (\E o \in Outcomes : Answer(i, o)) \/ Finish(i) \/ AccountAgain(i) \/ Raise(i)
        PROVE  UNCHANGED ledgerVars
    BY <1>3 DEF SealStep, Mark, Answer, Finish, AccountAgain, Raise
  <1>4. ASSUME NEW i \in Ids, Settle(i) PROVE LedgerNext
    <2>1. ASSUME CommitOwners(i, RequestOf[i].maximum, RequestOf[i].alloc) PROVE LedgerNext
      <3>1. request[i] = RequestOf[i]
        BY <2>1 DEF AttemptInv, StepsOK, CommitOwners, Release
      <3>2. RequestOf[i].alloc \in [DOMAIN request[i].alloc -> Observations]
        BY <3>1, ChargesAssumption
      <3>3. RequestOf[i].maximum \in Observations
        BY ChargesAssumption
      <3> QED
        BY <2>1, <3>2, <3>3 DEF LedgerNext
    <2>2. ASSUME MarkUnknown(i) \/ CancelBeforeDispatch(i) PROVE LedgerNext
      BY <2>2 DEF LedgerNext
    <2> QED
      BY <1>4, <2>1, <2>2 DEF Settle, SettleBudget
  <1>5. CASE StopAdmission \/ Kill
    BY <1>5 DEF StopAdmission, Kill
  <1> QED
    BY <1>1, <1>2, <1>3, <1>4, <1>5 DEF Next, AttemptStep

\* Each step of an attempt is one of the ledger's operations or leaves it alone,
\* so that what is shown of the ledger holds under the attempts.
LEMMA AttemptsUseLedger == Spec => LedgerSpec
  <1>1. Init => LedgerInit
    BY DEF Init
  <1> QED
    BY <1>1, AttemptInvariant, AttemptStepsUseLedger, PTL DEF Spec, LedgerSpec

\* The run's process is in one of its three states.
LEMMA ProcessTypeCorrect == Spec => []ProcessOK
  <1>1. Init => ProcessOK
    BY DEF Init, ProcessOK
  <1>2. ProcessOK /\ [Next]_vars => ProcessOK'
    BY DEF ProcessOK, Next, AttemptStep, Admit, SealStep, Mark, Answer, Settle, Finish, AccountAgain,
           Raise, StopAdmission, Kill, vars, attemptVars
  <1> QED
    BY <1>1, <1>2, PTL DEF Spec

\* The attempts and the ledger under them are always of their types.
THEOREM AttemptsTypeCorrect == Spec => []AttemptTypeOK
  <1>1. LedgerTypeOK /\ AttemptInv /\ ProcessOK => AttemptTypeOK
    BY DEF ProcessOK, AttemptInv, StepsOK, AttemptTypeOK
  <1> QED
    BY <1>1, AttemptsUseLedger, LedgerTypeCorrect, AttemptInvariant, ProcessTypeCorrect, PTL

\* No interleaving of attempts takes the run or an owner past its ceiling.
THEOREM AttemptsWithinCeilings == Spec => []CeilingsHold
  BY AttemptsUseLedger, LedgerCeilings, PTL

\* Whatever is killed when, the ledger holds exactly what the requests of the
\* attempts that are still open reserved: no step gives back more than is there.
THEOREM AttemptHoldsAddUp == Spec => []HoldsAddUp
  BY AttemptsUseLedger, LedgerHoldsAddUp, PTL
=============================================================================
