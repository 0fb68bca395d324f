------------------------ MODULE MemoryAdaptersProofs -----------------------
(***************************************************************************)
(* What the adapters of MemoryAdapters never do, proved for any number of  *)
(* scopes, callers, closes, sources, pairs and batch attempts: no write is *)
(* repeated, sources go in order, a mark is kept only for what was sent, a *)
(* ready scope is written to no more, and no client is closed under a call.*)
(* After that, what the readers of ProjectionCapture accept, for stores and *)
(* pages of any size.                                                      *)
(***************************************************************************)
EXTENDS MemoryAdapters, ProjectionCapture, FiniteSetTheorems, TLAPS

-----------------------------------------------------------------------------
(* A state of the system is a record, as Now is; Waiting are the calls with *)
(* a request on the wire.  Between the release of one request and the       *)
(* sending of the next, a caller is not among the W of which the parts of   *)
(* the invariant speak.                                                     *)

Waiting(S) == {t \in Tasks : S.task[t].at = "wait"}

Keys == Scopes \X Plan \X (1..MaxBatchAttempt)

ScopeSets == SUBSET Scopes
KeySets == SUBSET Keys
BatchSets == SUBSET (Scopes \X Plan)
TaskSets == SUBSET Tasks
BatchTables == [Scopes -> [Plan -> 0..(MaxBatchAttempt + 1)]]
Turns == [Scopes -> Nat]
PlanLocks == [Scopes -> Tasks \cup {NoOne}]

Ads == [resolved : BOOLEAN, accepting : BOOLEAN,
        allocAttempted : ScopeSets, allocated : ScopeSets,
        baseline : BOOLEAN, known : ScopeSets,
        planned : ScopeSets, next : Turns, batch : BatchTables,
        attempted : KeySets, completed : BatchSets,
        ready : ScopeSets, users : ScopeSets, probed : ScopeSets,
        allocLock : Tasks \cup {NoOne}, probeLock : Tasks \cup {NoOne},
        closeLock : Closers \cup {NoOne}, planLock : PlanLocks]

Transports == [accepting : BOOLEAN, active : TaskSets, httpx : {"open", "closed"},
               transport : {"open", "closed"}, closed : BOOLEAN, closing : Closers \cup {NoOne}]

SendingSets == SUBSET (Ops \X Scopes \X Nat \X Nat \X Nat)

Wires == [sent : SendingSets, twice : SendingSets, banks : ScopeSets]

Callings == [op : Ops \cup {"none"}, scope : Scopes \cup {"none"}, dispatch : Nat, attempt : Nat,
             at : {"idle", "lock", "wait"}, step : Nat]

Rests == [Clients -> Transports]
Callers == [Tasks -> Callings]

Systems == [rest : Rests, ad : Ads, task : Callers, wire : Wires]

\* A call that has been made, with arguments it may be made with.
Made(c) ==
    /\ c \in Callings /\ c.op \in Ops /\ c.scope \in Scopes
    /\ c.op = "ingest" => c.dispatch \in Plan /\ c.attempt \in 1..MaxBatchAttempt
    /\ c.op = "ingest" /\ kind = "openviking" => c.attempt = 1
    /\ c.op # "ingest" => c.dispatch = 0 /\ c.attempt = 0
    /\ c.op = "probe" => kind = "openviking"

CallsMade(S) ==
    \A t \in Tasks :
        /\ S.task[t].at = "lock" => Made(S.task[t]) /\ LockOf(S.task[t]) # "none"
        /\ S.task[t].at = "wait" => Made(S.task[t]) /\ S.task[t].step \in 1..Len(Script(S.task[t].op, S.task[t].scope))

HoldsLock(a, t, c) ==
    /\ LockOf(c) = "alloc" => a.allocLock = t
    /\ LockOf(c) = "plan"  => a.planLock[c.scope] = t
    /\ LockOf(c) = "probe" => a.probeLock = t

\* The sources of a Mem0 plan and the sessions go one after the other.
InTurn(a, c) ==
    /\ kind = "mem0" => c.dispatch = a.next[c.scope]
    /\ kind = "session" => \A d \in Plan : Settled(a, c.scope, d) <=> d < c.dispatch

\* What is so of an ingestion under way: its key is marked, it is the attempt the
\* batch is at, it has sent only what comes before, and its turn has come.
Ingesting(S, c) ==
    /\ Key(c) \in S.ad.attempted
    /\ c.attempt = S.ad.batch[c.scope][c.dispatch]
    /\ \A w \in S.wire.sent : w[1] = "ingest" /\ <<w[2], w[3], w[4]>> = Key(c) => w[5] <= c.step
    /\ InTurn(S.ad, c)

\* What is so of any call under way.
Underway(S, t, c) ==
    /\ HoldsLock(S.ad, t, c)
    /\ c.op = "ingest" => Ingesting(S, c)
    /\ c.op = "allocate" /\ kind \in {"hindsight", "openviking"} =>
          (c.scope \in S.ad.allocAttempted <=> c.step >= MarkedStep("allocate"))
    /\ c.op = "ready" => \A d \in Plan : Settled(S.ad, c.scope, d)

AllUnderway(S, W) ==
    /\ \A t \in W : Underway(S, t, S.task[t])
    /\ \A t, u \in W : S.task[t].op = "ingest" /\ S.task[u].op = "ingest"
                       /\ Key(S.task[t]) = Key(S.task[u]) => t = u

\* What was sent had been marked.
SentIsMarked(S) ==
    \A w \in S.wire.sent :
        /\ w[1] = "ingest" => <<w[2], w[3], w[4]>> \in S.ad.attempted
        /\ w[1] = "allocate" /\ kind # "session" => w[2] \in S.ad.allocAttempted
        /\ w[1] = "probe" => w[2] \in S.ad.probed

MarkedIsSent(S) ==
    kind # "session" /\ ~S.rest["main"].closed =>
        /\ \A k \in S.ad.attempted : <<"ingest", k[1], k[2], k[3], 1>> \in S.wire.sent
        /\ \A s \in S.ad.probed : <<"probe", s, 0, 0, 1>> \in S.wire.sent
        /\ kind # "mem0" => \A s \in S.ad.allocAttempted :
              \E i \in 2..3 : <<"allocate", s, 0, 0, i>> \in S.wire.sent

NoneTwice(S) == \A w \in S.wire.twice : kind = "session" /\ w[1] = "allocate"

\* A batch that is completed is at no attempt, one that was never begun at its
\* first, and the settled ones of a plan come first.
Batches(S) ==
    /\ \A s \in Scopes, d \in Plan : <<s, d>> \in S.ad.completed => S.ad.batch[s][d] = 0
    /\ kind = "openviking" => \A s \in Scopes, d \in Plan :
          (\A k \in S.ad.attempted : k[1] # s) => S.ad.batch[s][d] = 1
    /\ kind = "mem0" => \A s \in Scopes, d \in Plan : d < S.ad.next[s] => Settled(S.ad, s, d)
    /\ kind = "session" => \A s \in Scopes : \E n \in Plan \cup {Sources + 1} :
          \A d \in Plan : Settled(S.ad, s, d) <=> d < n
    /\ \A s \in S.ad.ready, d \in Plan : Settled(S.ad, s, d)

Tidy(S) == SentIsMarked(S) /\ MarkedIsSent(S) /\ NoneTwice(S) /\ Batches(S)

\* The client of the request a call waits for.
ClientOf(c) == Script(c.op, c.scope)[c.step].client

\* Who uses which client, and of which users there is one.
Using(S, W) ==
    /\ \A t \in W : t \in S.rest[ClientOf(S.task[t])].active
    /\ kind = "session" =>
          /\ \A t \in W : S.task[t].op \notin {"resolve", "allocate"} => S.task[t].scope \in S.ad.users
          /\ \A t \in W : S.task[t].op = "allocate" =>
                (S.task[t].scope \in S.ad.users <=> S.task[t].step > SessionIdentity)
          /\ \A t, u \in W : S.task[t].op = "allocate" /\ S.task[u].op = "allocate"
                             /\ S.task[t].scope = S.task[u].scope => t = u
          /\ S.ad.allocated \cup S.ad.planned \cup S.ad.ready \subseteq S.ad.users

ClientsInOrder(S) ==
    \A c \in Clients :
        /\ S.rest[c].httpx = "closed" => ~S.rest[c].accepting /\ S.rest[c].active = {}
        /\ kind # "session" /\ S.rest[c].closed => S.rest[c].transport = "closed"

Closings == [at : {"idle", "turn", "probes", "drain", "aclose", "done", "failed"},
             todo : Clients \cup {"none"}, errors : BOOLEAN, users : SUBSET Scopes, left : SUBSET Scopes]

\* What a close d has done by where it is.
CloseFits(S, d) ==
    /\ d.left \subseteq S.ad.users
    /\ d.at \in {"drain", "aclose"} =>
          /\ d.todo \in Clients /\ ~S.rest[d.todo].accepting
          /\ kind = "session" => d.todo \in S.ad.users \cup {"main"}
          /\ kind = "mem0" => d.todo \in {"main", "inspector"}
          /\ kind \in {"hindsight", "openviking"} => d.todo = "main"
          /\ kind = "mem0" /\ d.todo = "inspector" /\ ~d.errors => S.rest["main"].transport = "closed"
    /\ kind # "session" /\ d.at = "done" =>
          \A i \in DOMAIN OwnClients : S.rest[OwnClients[i]].transport = "closed"

ClosesInOrder(S, C) == C \in [Closers -> Closings] /\ \A k \in Closers : CloseFits(S, C[k])

\* All that is so between two awaits; of the calls it speaks of those in W.
Sound(S, W) ==
    /\ S \in Systems /\ CallsMade(S)
    /\ AllUnderway(S, W) /\ Tidy(S)
    /\ Using(S, W) /\ ClientsInOrder(S)

AdaptersInv == kind \in Kinds /\ Sound(Now, Waiting(Now)) /\ ClosesInOrder(Now, closer)

\* A call may send its request i.
Ready(S, t, i) ==
    LET c == S.task[t]
        others == Waiting(S) \ {t}
    IN  /\ Made(c) /\ i \in 1..Len(Script(c.op, c.scope))
        /\ HoldsLock(S.ad, t, c)
        /\ c.op = "ingest" =>
              /\ Key(c) \in S.ad.attempted <=> i > 1
              /\ c.attempt = S.ad.batch[c.scope][c.dispatch]
              /\ \A w \in S.wire.sent : w[1] = "ingest" /\ <<w[2], w[3], w[4]>> = Key(c) =>
                    w[5] <= i /\ (Script(c.op, c.scope)[i].write => w[5] < i)
              /\ InTurn(S.ad, c)
              /\ \A u \in others : S.task[u].op = "ingest" => Key(S.task[u]) # Key(c)
        /\ c.op = "allocate" /\ kind \in {"hindsight", "openviking"} =>
              (c.scope \in S.ad.allocAttempted <=> i > MarkedStep("allocate"))
        /\ c.op = "probe" => c.scope \notin S.ad.probed
        /\ c.op = "ready" => \A d \in Plan : Settled(S.ad, c.scope, d)
        /\ kind = "session" =>
              /\ c.op \notin {"resolve", "allocate"} => c.scope \in S.ad.users
              /\ c.op = "allocate" =>
                    /\ c.scope \in S.ad.users <=> i > SessionIdentity
                    /\ \A u \in others : S.task[u].op = "allocate" => S.task[u].scope # c.scope
-----------------------------------------------------------------------------
(* The scripts.                                                            *)

RequestFits(op, s, i, q) ==
    /\ q.client \in Clients /\ q.write \in BOOLEAN
    /\ kind # "session" => q.client \in {"main", "inspector"} /\ (q.write => q.client = "main")
    /\ kind \in {"hindsight", "openviking"} => q.client = "main"
    /\ kind = "session" => IF op = "resolve" \/ (op = "allocate" /\ i < SessionIdentity)
                           THEN q.client = "main" ELSE q.client = s
    /\ op \in {"resolve", "ready", "project", "retrieve"} => ~q.write
    /\ op = "ingest" => (q.write <=> (kind = "session" => i \in 2..4))
    /\ op = "allocate" => (q.write <=> \/ kind \in {"hindsight", "session"} /\ i = 2
                                       \/ kind = "openviking" /\ i = 3)
    /\ op = "probe" => q.write

LengthFits(op, n) ==
    /\ n \in Nat \ {0}
    /\ op = "allocate" => /\ kind = "mem0" => n = 1
                          /\ kind = "openviking" => n = 3
                          /\ kind \in {"hindsight", "session"} => n = 4
    /\ op = "ingest" /\ kind = "session" => n = 7
    /\ op = "probe" => n = 1

\* A plan is numbered from one.
LEMMA PlanFacts ==
    ASSUME kind \in Kinds
    PROVE  /\ Plan \subseteq Nat \ {0}
           /\ kind \in {"mem0", "session"} => Plan = 1..Sources
  BY AdaptersAssumption DEF Plan, Mem0Plan, HindsightPlan, OpenVikingPlan, SessionPlan

\* A read that fits its place in a script.
LEMMA ReadFits ==
    ASSUME NEW op, NEW s \in Scopes, NEW i \in Nat, NEW c \in {"main", "inspector", s},
           kind = "session" => c = IF op = "resolve" \/ (op = "allocate" /\ i < 3) THEN "main" ELSE s,
           kind = "mem0" => c \in {"main", "inspector"},
           kind \in {"hindsight", "openviking"} => c = "main",
           kind \in {"mem0", "hindsight", "openviking", "session"},
           op = "ingest" => kind = "session" /\ i \notin 2..4,
           op = "allocate" => \/ kind = "mem0"
                              \/ kind \in {"hindsight", "session"} /\ i # 2
                              \/ kind = "openviking" /\ i # 3,
           op # "probe"
    PROVE  RequestFits(op, s, i, Read(c))
  BY DEF RequestFits, Read, Clients, SessionIdentity

\* A write that fits its place in a script.
LEMMA WriteFits ==
    ASSUME NEW op \in {"ingest", "allocate", "probe"}, NEW s \in Scopes, NEW i \in Nat, NEW c \in {"main", s},
           kind = "session" => IF op = "ingest" THEN c = s /\ i \in 2..4 ELSE c = "main",
           kind # "session" => c = "main",
           op = "allocate" => \/ kind \in {"hindsight", "session"} /\ i = 2
                              \/ kind = "openviking" /\ i = 3,
           op = "probe" => kind = "openviking"
    PROVE  RequestFits(op, s, i, Write(c))
  BY DEF RequestFits, Write, Clients, SessionIdentity

\* Which requests of a call write, through which client, for every call of every
\* adapter.
LEMMA ScriptFacts ==
    ASSUME kind \in Kinds, NEW op \in Ops, NEW s \in Scopes, op = "probe" => kind = "openviking"
    PROVE  /\ LengthFits(op, Len(Script(op, s)))
           /\ \A i \in 1..Len(Script(op, s)) : RequestFits(op, s, i, Script(op, s)[i])
  <1>1. CASE kind = "mem0"
    <2>0. CASE op = "ingest"
      <3>1. Script(op, s) = [i \in 1..Pairs |-> Write("main")]
        BY <1>1, <2>0 DEF Script, Mem0Script, Mem0Ingest
      <3>2. Len(Script(op, s)) = Pairs
        BY <3>1, AdaptersAssumption
      <3>3. \A i \in 1..Pairs : Script(op, s)[i] = Write("main") /\ RequestFits(op, s, i, Write("main"))
        BY <1>1, <2>0, <3>1, WriteFits, AdaptersAssumption
      <3> QED
        BY <1>1, <2>0, <3>2, <3>3, AdaptersAssumption DEF LengthFits
    <2>1. CASE op = "resolve"
      <3>1. Script(op, s) = <<Read("main"), Read("inspector")>>
        BY <1>1, <2>1 DEF Script, Mem0Script, Mem0Resolve
      <3>2. Len(Script(op, s)) = 2
        BY <3>1
      <3>3. RequestFits(op, s, 1, Read("main")) /\ RequestFits(op, s, 2, Read("inspector"))
        BY <1>1, <2>1, ReadFits
      <3>4. LengthFits(op, 2)
        BY <1>1, <2>1 DEF LengthFits
      <3>5. \A i \in 1..2 : RequestFits(op, s, i, Script(op, s)[i])
        BY <3>1, <3>3
      <3> QED
        BY <3>2, <3>4, <3>5
    <2>2. CASE op \in {"allocate", "project"}
      <3>1. Script(op, s) = <<Read("inspector")>>
        BY <1>1, <2>2 DEF Script, Mem0Script, Mem0Allocate, Mem0Project
      <3>2. Len(Script(op, s)) = 1
        BY <3>1
      <3>3. RequestFits(op, s, 1, Read("inspector"))
        BY <1>1, <2>2, ReadFits
      <3>4. LengthFits(op, 1)
        BY <1>1, <2>2 DEF LengthFits
      <3>5. \A i \in 1..1 : RequestFits(op, s, i, Script(op, s)[i])
        BY <3>1, <3>3
      <3> QED
        BY <3>2, <3>4, <3>5
    <2>3. CASE op = "ready"
      <3>1. Script(op, s) = <<Read("inspector"), Read("inspector")>>
        BY <1>1, <2>3 DEF Script, Mem0Script, Mem0Ready
      <3>2. Len(Script(op, s)) = 2
        BY <3>1
      <3>3. RequestFits(op, s, 1, Read("inspector")) /\ RequestFits(op, s, 2, Read("inspector"))
        BY <1>1, <2>3, ReadFits
      <3>4. LengthFits(op, 2)
        BY <1>1, <2>3 DEF LengthFits
      <3>5. \A i \in 1..2 : RequestFits(op, s, i, Script(op, s)[i])
        BY <3>1, <3>3
      <3> QED
        BY <3>2, <3>4, <3>5
    <2>4. CASE op = "retrieve"
      <3>1. Script(op, s) = <<Read("main")>>
        BY <1>1, <2>4 DEF Script, Mem0Script, Mem0Retrieve
      <3>2. Len(Script(op, s)) = 1
        BY <3>1
      <3>3. RequestFits(op, s, 1, Read("main"))
        BY <1>1, <2>4, ReadFits
      <3>4. LengthFits(op, 1)
        BY <1>1, <2>4 DEF LengthFits
      <3>5. \A i \in 1..1 : RequestFits(op, s, i, Script(op, s)[i])
        BY <3>1, <3>3
      <3> QED
        BY <3>2, <3>4, <3>5
    <2> QED
      BY <1>1, <2>0, <2>1, <2>2, <2>3, <2>4 DEF Ops
  <1>2. CASE kind = "hindsight"
    <2>1. CASE op \in {"resolve", "ready", "project", "retrieve"}
      <3>1. Script(op, s) = <<Read("main")>>
        BY <1>2, <2>1 DEF Script, HindsightScript, HindsightResolve, HindsightReady, HindsightProject, HindsightRetrieve
      <3>2. Len(Script(op, s)) = 1
        BY <3>1
      <3>3. RequestFits(op, s, 1, Read("main"))
        BY <1>2, <2>1, ReadFits
      <3>4. LengthFits(op, 1)
        BY <1>2, <2>1 DEF LengthFits
      <3>5. \A i \in 1..1 : RequestFits(op, s, i, Script(op, s)[i])
        BY <3>1, <3>3
      <3> QED
        BY <3>2, <3>4, <3>5
    <2>2. CASE op = "allocate"
      <3>1. Script(op, s) = <<Read("main"), Write("main"), Read("main"), Read("main")>>
        BY <1>2, <2>2 DEF Script, HindsightScript, HindsightAllocate
      <3>2. Len(Script(op, s)) = 4
        BY <3>1
      <3>3. /\ RequestFits(op, s, 1, Read("main"))
            /\ RequestFits(op, s, 2, Write("main"))
            /\ RequestFits(op, s, 3, Read("main"))
            /\ RequestFits(op, s, 4, Read("main"))
        BY <1>2, <2>2, ReadFits, WriteFits
      <3>4. LengthFits(op, 4)
        BY <1>2, <2>2 DEF LengthFits
      <3>5. \A i \in 1..4 : RequestFits(op, s, i, Script(op, s)[i])
        <4>1. \A i \in 1..4 : i = 1 \/ i = 2 \/ i = 3 \/ i = 4
          OBVIOUS
        <4> QED
          BY <3>1, <3>3, <4>1
      <3> QED
        BY <3>2, <3>4, <3>5
    <2>3. CASE op = "ingest"
      <3>1. Script(op, s) = <<Write("main")>>
        BY <1>2, <2>3 DEF Script, HindsightScript, HindsightIngest
      <3>2. Len(Script(op, s)) = 1
        BY <3>1
      <3>3. RequestFits(op, s, 1, Write("main"))
        BY <1>2, <2>3, WriteFits
      <3>4. LengthFits(op, 1)
        BY <1>2, <2>3 DEF LengthFits
      <3>5. \A i \in 1..1 : RequestFits(op, s, i, Script(op, s)[i])
        BY <3>1, <3>3
      <3> QED
        BY <3>2, <3>4, <3>5
    <2> QED
      BY <1>2, <2>1, <2>2, <2>3 DEF Ops
  <1>3. CASE kind = "openviking"
    <2>1. CASE op \in {"resolve", "ready", "project"}
      <3>1. Script(op, s) = <<Read("main")>>
        BY <1>3, <2>1 DEF Script, OpenVikingScript, OpenVikingResolve, OpenVikingReady, OpenVikingProject
      <3>2. Len(Script(op, s)) = 1
        BY <3>1
      <3>3. RequestFits(op, s, 1, Read("main"))
        BY <1>3, <2>1, ReadFits
      <3>4. LengthFits(op, 1)
        BY <1>3, <2>1 DEF LengthFits
      <3>5. \A i \in 1..1 : RequestFits(op, s, i, Script(op, s)[i])
        BY <3>1, <3>3
      <3> QED
        BY <3>2, <3>4, <3>5
    <2>2. CASE op = "allocate"
      <3>1. Script(op, s) = <<Read("main"), Read("main"), Write("main")>>
        BY <1>3, <2>2 DEF Script, OpenVikingScript, OpenVikingAllocate
      <3>2. Len(Script(op, s)) = 3
        BY <3>1
      <3>3. /\ RequestFits(op, s, 1, Read("main"))
            /\ RequestFits(op, s, 2, Read("main"))
            /\ RequestFits(op, s, 3, Write("main"))
        BY <1>3, <2>2, ReadFits, WriteFits
      <3>4. LengthFits(op, 3)
        BY <1>3, <2>2 DEF LengthFits
      <3>5. \A i \in 1..3 : RequestFits(op, s, i, Script(op, s)[i])
        <4>1. \A i \in 1..3 : i = 1 \/ i = 2 \/ i = 3
          OBVIOUS
        <4> QED
          BY <3>1, <3>3, <4>1
      <3> QED
        BY <3>2, <3>4, <3>5
    <2>3. CASE op \in {"ingest", "probe"}
      <3>1. Script(op, s) = <<Write("main")>>
        BY <1>3, <2>3 DEF Script, OpenVikingScript, OpenVikingIngest, OpenVikingProbe
      <3>2. Len(Script(op, s)) = 1
        BY <3>1
      <3>3. RequestFits(op, s, 1, Write("main"))
        BY <1>3, <2>3, WriteFits
      <3>4. LengthFits(op, 1)
        BY <1>3, <2>3 DEF LengthFits
      <3>5. \A i \in 1..1 : RequestFits(op, s, i, Script(op, s)[i])
        BY <3>1, <3>3
      <3> QED
        BY <3>2, <3>4, <3>5
    <2>4. CASE op = "retrieve"
      <3>1. Script(op, s) = <<Read("main"), Read("main")>>
        BY <1>3, <2>4 DEF Script, OpenVikingScript, OpenVikingRetrieve
      <3>2. Len(Script(op, s)) = 2
        BY <3>1
      <3>3. RequestFits(op, s, 1, Read("main")) /\ RequestFits(op, s, 2, Read("main"))
        BY <1>3, <2>4, ReadFits
      <3>4. LengthFits(op, 2)
        BY <1>3, <2>4 DEF LengthFits
      <3>5. \A i \in 1..2 : RequestFits(op, s, i, Script(op, s)[i])
        BY <3>1, <3>3
      <3> QED
        BY <3>2, <3>4, <3>5
    <2> QED
      BY <1>3, <2>1, <2>2, <2>3, <2>4 DEF Ops
  <1>4. CASE kind = "session"
    <2>1. CASE op = "resolve"
      <3>1. Script(op, s) = <<Read("main")>>
        BY <1>4, <2>1 DEF Script, SessionScript, SessionResolve
      <3>2. Len(Script(op, s)) = 1
        BY <3>1
      <3>3. RequestFits(op, s, 1, Read("main"))
        BY <1>4, <2>1, ReadFits
      <3>4. LengthFits(op, 1)
        BY <1>4, <2>1 DEF LengthFits
      <3>5. \A i \in 1..1 : RequestFits(op, s, i, Script(op, s)[i])
        BY <3>1, <3>3
      <3> QED
        BY <3>2, <3>4, <3>5
    <2>2. CASE op = "allocate"
      <3>1. Script(op, s) = <<Read("main"), Write("main"), Read(s), Read(s)>>
        BY <1>4, <2>2 DEF Script, SessionScript, SessionAllocate
      <3>2. Len(Script(op, s)) = 4
        BY <3>1
      <3>3. /\ RequestFits(op, s, 1, Read("main"))
            /\ RequestFits(op, s, 2, Write("main"))
            /\ RequestFits(op, s, 3, Read(s))
            /\ RequestFits(op, s, 4, Read(s))
        BY <1>4, <2>2, ReadFits, WriteFits
      <3>4. LengthFits(op, 4)
        BY <1>4, <2>2 DEF LengthFits
      <3>5. \A i \in 1..4 : RequestFits(op, s, i, Script(op, s)[i])
        <4>1. \A i \in 1..4 : i = 1 \/ i = 2 \/ i = 3 \/ i = 4
          OBVIOUS
        <4> QED
          BY <3>1, <3>3, <4>1
      <3> QED
        BY <3>2, <3>4, <3>5
    <2>3. CASE op = "ingest"
      <3>1. Script(op, s) = <<Read(s), Write(s), Write(s), Write(s), Read(s), Read(s), Read(s)>>
        BY <1>4, <2>3 DEF Script, SessionScript, SessionIngest
      <3>2. Len(Script(op, s)) = 7
        BY <3>1
      <3>3. /\ RequestFits(op, s, 1, Read(s))
            /\ RequestFits(op, s, 2, Write(s))
            /\ RequestFits(op, s, 3, Write(s))
            /\ RequestFits(op, s, 4, Write(s))
            /\ RequestFits(op, s, 5, Read(s))
            /\ RequestFits(op, s, 6, Read(s))
            /\ RequestFits(op, s, 7, Read(s))
        BY <1>4, <2>3, ReadFits, WriteFits
      <3>4. LengthFits(op, 7)
        BY <1>4, <2>3 DEF LengthFits
      <3>5. \A i \in 1..7 : RequestFits(op, s, i, Script(op, s)[i])
        <4>1. \A i \in 1..7 : i = 1 \/ i = 2 \/ i = 3 \/ i = 4 \/ i = 5 \/ i = 6 \/ i = 7
          OBVIOUS
        <4> QED
          BY <3>1, <3>3, <4>1
      <3> QED
        BY <3>2, <3>4, <3>5
    <2>4. CASE op \in {"ready", "project"}
      <3>1. Script(op, s) = <<Read(s)>>
        BY <1>4, <2>4 DEF Script, SessionScript, SessionReady, SessionProject
      <3>2. Len(Script(op, s)) = 1
        BY <3>1
      <3>3. RequestFits(op, s, 1, Read(s))
        BY <1>4, <2>4, ReadFits
      <3>4. LengthFits(op, 1)
        BY <1>4, <2>4 DEF LengthFits
      <3>5. \A i \in 1..1 : RequestFits(op, s, i, Script(op, s)[i])
        BY <3>1, <3>3
      <3> QED
        BY <3>2, <3>4, <3>5
    <2>5. CASE op = "retrieve"
      <3>1. Script(op, s) = <<Read(s), Read(s)>>
        BY <1>4, <2>5 DEF Script, SessionScript, SessionRetrieve
      <3>2. Len(Script(op, s)) = 2
        BY <3>1
      <3>3. RequestFits(op, s, 1, Read(s)) /\ RequestFits(op, s, 2, Read(s))
        BY <1>4, <2>5, ReadFits
      <3>4. LengthFits(op, 2)
        BY <1>4, <2>5 DEF LengthFits
      <3>5. \A i \in 1..2 : RequestFits(op, s, i, Script(op, s)[i])
        BY <3>1, <3>3
      <3> QED
        BY <3>2, <3>4, <3>5
    <2> QED
      BY <1>4, <2>1, <2>2, <2>3, <2>4, <2>5 DEF Ops
  <1> QED
    BY <1>1, <1>2, <1>3, <1>4, AdaptersAssumption

-----------------------------------------------------------------------------
(* The locks and the marks.                                                *)

SameLocks(a, b) ==
    b.allocLock = a.allocLock /\ b.planLock = a.planLock /\ b.probeLock = a.probeLock

SameMarks(a, b) ==
    b.attempted = a.attempted /\ b.probed = a.probed /\ b.allocAttempted = a.allocAttempted

SameBatches(a, b) ==
    b.batch = a.batch /\ b.next = a.next /\ b.completed = a.completed /\ b.ready = a.ready

SameUsers(a, b) ==
    b.users = a.users /\ b.allocated = a.allocated /\ b.planned = a.planned

LockIs(a, b, c, who) ==
    /\ b.allocLock = IF LockOf(c) = "alloc" THEN who ELSE a.allocLock
    /\ b.planLock = IF LockOf(c) = "plan" THEN [a.planLock EXCEPT ![c.scope] = who] ELSE a.planLock
    /\ b.probeLock = IF LockOf(c) = "probe" THEN who ELSE a.probeLock

MarkIs(a, b, c) ==
    /\ b.attempted = IF c.op = "ingest" THEN a.attempted \cup {Key(c)} ELSE a.attempted
    /\ b.probed = IF c.op = "probe" THEN a.probed \cup {c.scope} ELSE a.probed
    /\ b.allocAttempted = IF c.op = "allocate" THEN a.allocAttempted \cup {c.scope} ELSE a.allocAttempted

\* Taking a lock or giving it back changes nothing else.
LEMMA LockSetFields ==
    ASSUME NEW a \in Ads, NEW c, Made(c), NEW who \in Tasks \cup {NoOne}
    PROVE  LET b == LockSet(a, c, who) IN
           /\ b \in Ads /\ LockIs(a, b, c, who)
           /\ SameMarks(a, b) /\ SameBatches(a, b) /\ SameUsers(a, b)
  <1> DEFINE P == [a.planLock EXCEPT ![c.scope] = who]
  <1>1. P \in PlanLocks
    BY DEF Made, Ads, PlanLocks
  <1>2. CASE LockOf(c) = "alloc"
    BY <1>2 DEF LockSet, Ads, LockIs, SameMarks, SameBatches, SameUsers
  <1>3. CASE LockOf(c) = "plan"
    <2>1. LockSet(a, c, who) = [a EXCEPT !.planLock = P]
      BY <1>3 DEF LockSet
    <2>2. P = [a.planLock EXCEPT ![c.scope] = who]
      OBVIOUS
    <2> HIDE DEF P
    <2>3. LockSet(a, c, who) \in Ads
      BY <1>1, <2>1 DEF Ads
    <2> QED
      BY <1>3, <2>1, <2>2, <2>3 DEF Ads, LockIs, SameMarks, SameBatches, SameUsers
  <1>4. CASE LockOf(c) = "probe"
    BY <1>4 DEF LockSet, Ads, LockIs, SameMarks, SameBatches, SameUsers
  <1>5. CASE LockOf(c) \notin {"alloc", "plan", "probe"}
    BY <1>5 DEF LockSet, LockIs, SameMarks, SameBatches, SameUsers
  <1> QED
    BY <1>2, <1>3, <1>4, <1>5

\* A caller that takes a free lock, or gives back its own, leaves the others theirs.
LEMMA LocksKept ==
    ASSUME NEW a \in Ads, NEW t \in Tasks, NEW c, Made(c), NEW who \in {t, NoOne},
           LockFree(a, c) \/ HoldsLock(a, t, c),
           NEW u \in Tasks, u # t, NEW d, Made(d), HoldsLock(a, u, d)
    PROVE  HoldsLock(LockSet(a, c, who), u, d)
  <1>1. /\ LockOf(c) = "alloc" => LockOf(d) # "alloc"
        /\ LockOf(c) = "plan" => LockOf(d) # "plan" \/ d.scope # c.scope
        /\ LockOf(c) = "probe" => LockOf(d) # "probe"
    BY AdaptersAssumption DEF LockFree, HoldsLock
  <1>2. a.planLock \in [Scopes -> Tasks \cup {NoOne}] /\ c.scope \in Scopes /\ d.scope \in Scopes
    BY DEF Ads, PlanLocks, Made
  <1>3. LockIs(a, LockSet(a, c, who), c, who)
    BY LockSetFields
  <1> QED
    BY <1>1, <1>2, <1>3 DEF HoldsLock, LockIs

\* Who takes a lock has it.
LEMMA LockTaken ==
    ASSUME NEW a \in Ads, NEW t \in Tasks, NEW c, Made(c)
    PROVE  HoldsLock(LockSet(a, c, t), t, c)
  <1>1. a.planLock \in [Scopes -> Tasks \cup {NoOne}] /\ c.scope \in Scopes
    BY DEF Ads, PlanLocks, Made
  <1>2. LockIs(a, LockSet(a, c, t), c, t)
    BY LockSetFields
  <1> QED
    BY <1>1, <1>2 DEF HoldsLock, LockIs

\* A mark adds the call to one set.
LEMMA MarkFields ==
    ASSUME NEW a \in Ads, NEW c, Made(c), c.op \in {"ingest", "probe", "allocate"}
    PROVE  LET b == Mark(a, c) IN
           /\ b \in Ads /\ MarkIs(a, b, c)
           /\ SameLocks(a, b) /\ SameBatches(a, b) /\ SameUsers(a, b)
  <1>1. CASE c.op = "ingest"
    <2>1. a.attempted \cup {Key(c)} \in KeySets
      BY <1>1 DEF Made, Key, Keys, KeySets, Ads
    <2>2. Mark(a, c) = [a EXCEPT !.attempted = a.attempted \cup {Key(c)}]
      BY <1>1 DEF Mark
    <2> QED
      BY <1>1, <2>1, <2>2 DEF Ads, MarkIs, SameLocks, SameBatches, SameUsers
  <1>2. CASE c.op = "probe"
    <2>1. a.probed \cup {c.scope} \in ScopeSets
      BY DEF Made, ScopeSets, Ads
    <2>2. Mark(a, c) = [a EXCEPT !.probed = a.probed \cup {c.scope}]
      BY <1>2 DEF Mark
    <2> QED
      BY <1>2, <2>1, <2>2 DEF Ads, MarkIs, SameLocks, SameBatches, SameUsers
  <1>3. CASE c.op = "allocate"
    <2>1. a.allocAttempted \cup {c.scope} \in ScopeSets
      BY DEF Made, ScopeSets, Ads
    <2>2. Mark(a, c) = [a EXCEPT !.allocAttempted = a.allocAttempted \cup {c.scope}]
      BY <1>3 DEF Mark
    <2> QED
      BY <1>3, <2>1, <2>2 DEF Ads, MarkIs, SameLocks, SameBatches, SameUsers
  <1> QED
    BY <1>1, <1>2, <1>3

-----------------------------------------------------------------------------
(* What sending a request comes to.                                        *)

AtStep(c, i) == [c EXCEPT !.step = i]

MarkedBy(S, t, i) ==
    IF i = MarkedStep(S.task[t].op) THEN Mark(S.ad, AtStep(S.task[t], i)) ELSE S.ad

IsFresh(c, i) == kind = "session" /\ c.op = "allocate" /\ i = SessionIdentity

OpenedBy(S, t, i) ==
    IF IsFresh(S.task[t], i) THEN [S.rest EXCEPT ![S.task[t].scope] = FreshClient] ELSE S.rest

RequestOf(c, i) == Script(c.op, c.scope)[i]

Entry(c, i) == <<c.op, c.scope, c.dispatch, c.attempt, i>>

VerdictOn(S, t, i) ==
    LET q == RequestOf(S.task[t], i) IN Admission(OpenedBy(S, t, i)[q.client], q.write)

\* M is S about to send, X is S with a request on the wire.
Prepares(S, t, i, M) ==
    /\ M \in Systems /\ M.rest = OpenedBy(S, t, i) /\ M.ad = MarkedBy(S, t, i)
    /\ M.task = [S.task EXCEPT ![t] = AtStep(S.task[t], i)] /\ M.wire = S.wire

Transmits(S, t, q, X) ==
    LET c == S.task[t] IN
    /\ X \in Systems /\ X.ad = S.ad
    /\ X.rest = [S.rest EXCEPT ![q.client] = Admitted(S.rest[q.client], t)]
    /\ X.task = [S.task EXCEPT ![t] = [c EXCEPT !.at = "wait"]]
    /\ X.wire.sent = IF q.write THEN S.wire.sent \cup {Entry(c, c.step)} ELSE S.wire.sent
    /\ X.wire.twice = IF q.write THEN S.wire.twice \cup ({Entry(c, c.step)} \cap S.wire.sent)
                      ELSE S.wire.twice
    /\ X.wire.banks = S.wire.banks

\* Both together.
Admits(S, t, i, X) ==
    LET c == S.task[t]
        q == RequestOf(c, i)
        O == OpenedBy(S, t, i)
    IN  /\ X \in Systems
        /\ X.rest = [O EXCEPT ![q.client] = Admitted(O[q.client], t)]
        /\ X.ad = MarkedBy(S, t, i)
        /\ X.task = [S.task EXCEPT ![t] = [AtStep(c, i) EXCEPT !.at = "wait"]]
        /\ X.wire.sent = IF q.write THEN S.wire.sent \cup {Entry(c, i)} ELSE S.wire.sent
        /\ X.wire.twice = IF q.write THEN S.wire.twice \cup ({Entry(c, i)} \cap S.wire.sent)
                          ELSE S.wire.twice
        /\ X.wire.banks = S.wire.banks

\* X is S with the call over; b is what the adapter keeps, r its clients.
Leaves(S, t, b, r, X) ==
    /\ X \in Systems
    /\ X.rest = r /\ X.ad = LockSet(b, S.task[t], NoOne)
    /\ X.task = [S.task EXCEPT ![t] = Idle] /\ X.wire = S.wire

Refusing(S, t, i) ==
    IF VerdictOn(S, t, i) = "before_dispatch" /\ i = MarkedStep(S.task[t].op)
    THEN Unmark(MarkedBy(S, t, i), AtStep(S.task[t], i)) ELSE MarkedBy(S, t, i)

\* The record of a state has the four fields.
LEMMA SystemFields ==
    ASSUME NEW S \in Systems
    PROVE  /\ S.rest \in Rests /\ S.ad \in Ads /\ S.task \in Callers /\ S.wire \in Wires
           /\ S.wire.sent \in SendingSets /\ S.wire.twice \in SendingSets /\ S.wire.banks \in ScopeSets
           /\ \A t \in Tasks : S.task[t] \in Callings
           /\ \A c \in Clients : S.rest[c] \in Transports
  BY DEF Systems, Wires, Rests, Callers

\* A call that is over.
LEMMA IdleCall == Idle \in Callings /\ Idle.at = "idle" /\ Idle.op = "none"
  BY DEF Idle, Callings

Same(c, d) ==
    /\ d.op = c.op /\ d.scope = c.scope /\ d.dispatch = c.dispatch /\ d.attempt = c.attempt
    /\ Key(d) = Key(c) /\ LockOf(d) = LockOf(c)

\* A call with the same arguments is the same call.
LEMMA SameCall ==
    ASSUME NEW c, Made(c), NEW d \in Callings,
           d.op = c.op, d.scope = c.scope, d.dispatch = c.dispatch, d.attempt = c.attempt
    PROVE  Made(d) /\ Same(c, d)
  <1>1. Key(d) = Key(c) /\ LockOf(d) = LockOf(c)
    BY DEF Key, LockOf
  <1>2. Made(d)
    BY DEF Made
  <1> QED
    BY <1>1, <1>2 DEF Same

\* So is a call at another of its steps.
LEMMA StepCall ==
    ASSUME NEW c, Made(c), NEW i \in Nat
    PROVE  Made(AtStep(c, i)) /\ Same(c, AtStep(c, i)) /\ AtStep(c, i).step = i /\ AtStep(c, i).at = c.at
  <1>1. c \in Callings
    BY DEF Made
  <1>2. /\ AtStep(c, i) \in Callings /\ AtStep(c, i).step = i /\ AtStep(c, i).at = c.at
        /\ AtStep(c, i).op = c.op /\ AtStep(c, i).scope = c.scope
        /\ AtStep(c, i).dispatch = c.dispatch /\ AtStep(c, i).attempt = c.attempt
    BY <1>1 DEF AtStep, Callings
  <1> QED
    BY <1>2, SameCall

\* And a call that waits for an answer.
LEMMA WaitCall ==
    ASSUME NEW c, Made(c), NEW at \in {"idle", "lock", "wait"}
    PROVE  LET d == [c EXCEPT !.at = at] IN
           Made(d) /\ Same(c, d) /\ d.step = c.step /\ d.at = at
  <1> DEFINE d == [c EXCEPT !.at = at]
  <1>1. c \in Callings
    BY DEF Made
  <1>2. /\ d \in Callings /\ d.step = c.step /\ d.at = at /\ d.op = c.op /\ d.scope = c.scope
        /\ d.dispatch = c.dispatch /\ d.attempt = c.attempt
    BY <1>1 DEF Callings
  <1> HIDE DEF d
  <1>3. Made(d) /\ Same(c, d)
    BY <1>2, SameCall
  <1> QED
    BY <1>2, <1>3 DEF d
-----------------------------------------------------------------------------
(* Failing, sending and completing as records.                             *)

FailingAd(S, t, outcome) ==
    LET c == S.task[t] IN
    CASE outcome = "before_dispatch" /\ c.step = MarkedStep(c.op) -> Unmark(S.ad, c)
      [] outcome = "settled" /\ CountsAsSettled(c)               -> AfterSettled(S.ad, c)
      [] OTHER                                                   -> S.ad

FailingRest(S, t) ==
    LET c == S.task[t] IN
    IF IsFresh(c, c.step) THEN [S.rest EXCEPT ![c.scope] = CloseEnds(StopAccepting(S.rest[c.scope]))]
    ELSE S.rest

\* A call that returns leaves what it was given.
LEMMA ReturnIs ==
    ASSUME NEW S \in Systems, NEW t \in Tasks, NEW b \in Ads, NEW r \in Rests, Made(S.task[t])
    PROVE  Leaves(S, t, b, r, Return([S EXCEPT !.ad = b, !.rest = r], t))
  <1> DEFINE X == [S EXCEPT !.ad = b, !.rest = r]
             l == LockSet(b, S.task[t], NoOne)
             k == [S.task EXCEPT ![t] = Idle]
  <1>1. X \in Systems /\ X.rest = r /\ X.ad = b /\ X.task = S.task /\ X.wire = S.wire
    BY DEF Systems
  <1>2. l \in Ads /\ k \in Callers
    BY LockSetFields, SystemFields, IdleCall DEF Callers
  <1> HIDE DEF X
  <1>3. Return(X, t) = [X EXCEPT !.ad = l, !.task = k]
    BY <1>1 DEF Return
  <1> HIDE DEF l, k
  <1>4. /\ Return(X, t) \in Systems /\ Return(X, t).rest = r /\ Return(X, t).ad = l
        /\ Return(X, t).task = k /\ Return(X, t).wire = S.wire
    BY <1>1, <1>2, <1>3 DEF Systems
  <1> QED
    BY <1>4 DEF X, l, k, Leaves

\* Failing is leaving with what the outcome makes of the adapter and its clients.
LEMMA FailIs ==
    ASSUME NEW S \in Systems, NEW t \in Tasks, NEW outcome, Made(S.task[t]),
           FailingAd(S, t, outcome) \in Ads, FailingRest(S, t) \in Rests
    PROVE  Leaves(S, t, FailingAd(S, t, outcome), FailingRest(S, t), Fail(S, t, outcome))
  <1>1. Fail(S, t, outcome) =
            Return([S EXCEPT !.ad = FailingAd(S, t, outcome), !.rest = FailingRest(S, t)], t)
    BY DEF Fail, FailingAd, FailingRest, IsFresh
  <1> DEFINE b == FailingAd(S, t, outcome)
             r == FailingRest(S, t)
  <1>2. b \in Ads /\ r \in Rests
    OBVIOUS
  <1> HIDE DEF b, r
  <1>3. Leaves(S, t, b, r, Return([S EXCEPT !.ad = b, !.rest = r], t))
    BY <1>2, ReturnIs
  <1> QED
    BY <1>1, <1>3 DEF b, r

\* Which lock a call has depends on its operation and scope only.
LEMMA LockSetSame ==
    ASSUME NEW a, NEW c, NEW d, c.op = d.op, c.scope = d.scope, NEW who
    PROVE  LockSet(a, c, who) = LockSet(a, d, who)
  <1>1. LockOf(c) = LockOf(d)
    BY DEF LockOf
  <1> QED
    BY <1>1 DEF LockSet

\* A fresh client admits the request that opens it.
LEMMA FreshAdmits ==
    ASSUME NEW S \in Systems, NEW t \in Tasks, kind \in Kinds, Made(S.task[t]),
           NEW i \in 1..Len(Script(S.task[t].op, S.task[t].scope)), IsFresh(S.task[t], i)
    PROVE  VerdictOn(S, t, i) = "admitted"
  <1> DEFINE c == S.task[t]
             q == RequestOf(c, i)
  <1>1. c.op \in Ops /\ c.scope \in Scopes /\ (c.op = "probe" => kind = "openviking")
    BY DEF Made
  <1>2. RequestFits(c.op, c.scope, i, q)
    BY <1>1, ScriptFacts DEF RequestOf
  <1>3. q.client = c.scope
    BY <1>2 DEF RequestFits, IsFresh, SessionIdentity
  <1>4. OpenedBy(S, t, i)[q.client] = FreshClient
    BY <1>1, <1>3, SystemFields DEF OpenedBy, Rests, Clients
  <1> QED
    BY <1>4 DEF VerdictOn, Admission, FreshClient

\* A step is marked of an operation that leaves a mark.
LEMMA MarkedOps ==
    ASSUME NEW op \in Ops, NEW i \in Nat \ {0}, i = MarkedStep(op)
    PROVE  op \in {"ingest", "probe", "allocate"} /\ (op \in {"ingest", "probe"} => i = 1)
  BY DEF MarkedStep, Ops

\* The state in which a request is about to be sent.
LEMMA PrepareIs ==
    ASSUME NEW S \in Systems, NEW t \in Tasks, kind \in Kinds, Made(S.task[t]), NEW i \in Nat \ {0}
    PROVE  Prepares(S, t, i, Prepare(S, t, i))
  <1> DEFINE c == S.task[t]
             e == AtStep(c, i)
             k == [S.task EXCEPT ![t] = e]
             b == MarkedBy(S, t, i)
             r == OpenedBy(S, t, i)
             M == [S EXCEPT !.task = k, !.ad = b, !.rest = r]
  <1>0. c.op \in Ops /\ c.scope \in Scopes
    BY DEF Made
  <1>1. Made(e) /\ Same(c, e) /\ e.step = i /\ e \in Callings
    <2>1. Made(e) /\ Same(c, e) /\ e.step = i
      BY <1>0, StepCall
    <2> QED
      BY <2>1 DEF Made
  <1>2. b \in Ads
    <2>1. CASE i = MarkedStep(c.op)
      <3>1. e.op \in {"ingest", "probe", "allocate"} /\ S.ad \in Ads
        BY <1>0, <1>1, <2>1, MarkedOps, SystemFields DEF Same
      <3> QED
        BY <1>1, <2>1, <3>1, MarkFields DEF MarkedBy
    <2> QED
      BY <2>1, SystemFields DEF MarkedBy
  <1>3. r \in Rests
    <2>1. FreshClient \in Transports
      BY DEF FreshClient, Transports, TaskSets
    <2> QED
      BY <1>0, <2>1, SystemFields DEF OpenedBy, Rests, Clients
  <1>4. k \in Callers
    BY <1>1, SystemFields DEF Callers
  <1>5. Prepare(S, t, i) = M
    <2>1. e.op = c.op /\ e.scope = c.scope
      BY <1>1 DEF Same
    <2>2. M = [S EXCEPT !.task[t] = e,
                        !.ad = IF i = MarkedStep(e.op) THEN Mark(@, e) ELSE @,
                        !.rest = IF kind = "session" /\ e.op = "allocate" /\ i = SessionIdentity
                                 THEN [@ EXCEPT ![e.scope] = FreshClient] ELSE @]
      BY <2>1 DEF MarkedBy, OpenedBy, IsFresh, Systems
    <2> QED
      BY <2>2 DEF Prepare, AtStep
  <1> HIDE DEF k, b, r
  <1>6. M \in Systems /\ M.rest = r /\ M.ad = b /\ M.task = k /\ M.wire = S.wire
    BY <1>2, <1>3, <1>4 DEF Systems
  <1> QED
    BY <1>5, <1>6 DEF k, b, r, Prepares

\* A request that is sent is on the wire.
LEMMA TransmitIs ==
    ASSUME NEW S \in Systems, NEW t \in Tasks, NEW q, q.client \in Clients, Made(S.task[t])
    PROVE  Transmits(S, t, q, Transmit(S, t, q))
  <1> DEFINE c == S.task[t]
             w == Entry(c, c.step)
             k == [S.task EXCEPT ![t] = [c EXCEPT !.at = "wait"]]
             r == [S.rest EXCEPT ![q.client] = Admitted(S.rest[q.client], t)]
             sent == IF q.write THEN S.wire.sent \cup {w} ELSE S.wire.sent
             twice == IF q.write THEN S.wire.twice \cup ({w} \cap S.wire.sent) ELSE S.wire.twice
             v == [S.wire EXCEPT !.sent = sent, !.twice = twice]
             X == [S EXCEPT !.task = k, !.rest = r, !.wire = v]
  <1>1. Transmit(S, t, q) = X
    BY DEF Transmit, Entry, Systems, Wires
  <1>2. k \in Callers
    <2>1. [c EXCEPT !.at = "wait"] \in Callings
      BY WaitCall DEF Made
    <2> QED
      BY <2>1, SystemFields DEF Callers
  <1>3. r \in Rests
    <2>1. Admitted(S.rest[q.client], t) \in Transports
      <3>1. S.rest[q.client] \in Transports
        BY SystemFields
      <3>2. S.rest[q.client].active \cup {t} \in TaskSets
        BY <3>1 DEF Transports, TaskSets
      <3> QED
        BY <3>1, <3>2 DEF Admitted, Transports
    <2> QED
      BY <2>1, SystemFields DEF Rests
  <1>4. sent \in SendingSets /\ twice \in SendingSets
    <2>1. w \in Ops \X Scopes \X Nat \X Nat \X Nat
      BY DEF Made, Callings, Entry
    <2>2. S.wire.sent \in SendingSets /\ S.wire.twice \in SendingSets
      BY SystemFields
    <2> QED
      BY <2>1, <2>2 DEF SendingSets
  <1> HIDE DEF k, r, sent, twice
  <1>5. v \in Wires /\ v.sent = sent /\ v.twice = twice /\ v.banks = S.wire.banks
    BY <1>4, SystemFields DEF Wires
  <1> HIDE DEF v
  <1>6. X \in Systems /\ X.rest = r /\ X.ad = S.ad /\ X.task = k /\ X.wire = v
    BY <1>2, <1>3, <1>5 DEF Systems
  <1> QED
    BY <1>1, <1>5, <1>6 DEF k, r, sent, twice, Transmits

UnmarkIs(a, b, c) ==
    /\ b.attempted = IF c.op = "ingest" THEN a.attempted \ {Key(c)} ELSE a.attempted
    /\ b.probed = IF c.op = "probe" THEN a.probed \ {c.scope} ELSE a.probed
    /\ b.allocAttempted = IF c.op = "allocate" THEN a.allocAttempted \ {c.scope} ELSE a.allocAttempted

\* Taking a mark back removes the call from that set.
LEMMA UnmarkFields ==
    ASSUME NEW a \in Ads, NEW c, Made(c), c.op \in {"ingest", "probe", "allocate"}, kind # "session"
    PROVE  LET b == Unmark(a, c) IN
           /\ b \in Ads /\ UnmarkIs(a, b, c)
           /\ SameLocks(a, b) /\ SameBatches(a, b) /\ SameUsers(a, b)
  <1>1. CASE c.op = "ingest"
    <2>1. a.attempted \ {Key(c)} \in KeySets
      BY DEF KeySets, Ads
    <2>2. Unmark(a, c) = [a EXCEPT !.attempted = a.attempted \ {Key(c)}]
      BY <1>1 DEF Unmark
    <2> QED
      BY <1>1, <2>1, <2>2 DEF Ads, UnmarkIs, SameLocks, SameBatches, SameUsers
  <1>2. CASE c.op = "probe"
    <2>1. a.probed \ {c.scope} \in ScopeSets
      BY DEF ScopeSets, Ads
    <2>2. Unmark(a, c) = [a EXCEPT !.probed = a.probed \ {c.scope}]
      BY <1>2 DEF Unmark
    <2> QED
      BY <1>2, <2>1, <2>2 DEF Ads, UnmarkIs, SameLocks, SameBatches, SameUsers
  <1>3. CASE c.op = "allocate"
    <2>1. a.allocAttempted \ {c.scope} \in ScopeSets
      BY DEF ScopeSets, Ads
    <2>2. Unmark(a, c) = [a EXCEPT !.allocAttempted = a.allocAttempted \ {c.scope}]
      BY <1>3 DEF Unmark
    <2> QED
      BY <1>3, <2>1, <2>2 DEF Ads, UnmarkIs, SameLocks, SameBatches, SameUsers
  <1> QED
    BY <1>1, <1>2, <1>3

\* What a refused call leaves behind is typed.
LEMMA RefusingType ==
    ASSUME NEW S \in Systems, NEW t \in Tasks, kind \in Kinds, Made(S.task[t]), NEW i \in Nat \ {0}
    PROVE  Refusing(S, t, i) \in Ads
  <1> DEFINE c == S.task[t]
             e == AtStep(c, i)
  <1>1. MarkedBy(S, t, i) \in Ads
    <2>1. Prepares(S, t, i, Prepare(S, t, i))
      BY PrepareIs
    <2> QED
      BY <2>1, SystemFields DEF Prepares
  <1>2. CASE i = MarkedStep(c.op) /\ kind # "session"
    <2>1. Made(e) /\ e.op \in {"ingest", "probe", "allocate"}
      <3>1. c.op \in Ops /\ Made(e) /\ Same(c, e)
        BY StepCall DEF Made
      <3> QED
        BY <1>2, <3>1, MarkedOps DEF Same
    <2> QED
      BY <1>1, <2>1, <1>2, UnmarkFields DEF Refusing
  <1>3. CASE i = MarkedStep(c.op) /\ kind = "session"
    BY <1>1, <1>3 DEF Refusing, Unmark
  <1>4. CASE i # MarkedStep(c.op)
    BY <1>1, <1>4 DEF Refusing
  <1> QED
    BY <1>2, <1>3, <1>4
\* A request is admitted, or the call is over.
LEMMA SendIs ==
    ASSUME NEW S \in Systems, NEW t \in Tasks, kind \in Kinds, Made(S.task[t]),
           NEW i \in 1..Len(Script(S.task[t].op, S.task[t].scope))
    PROVE  /\ VerdictOn(S, t, i) = "admitted" => Admits(S, t, i, Send(S, t, i))
           /\ VerdictOn(S, t, i) # "admitted" => Leaves(S, t, Refusing(S, t, i), S.rest, Send(S, t, i))
  <1> DEFINE c == S.task[t]
             e == AtStep(c, i)
             q == RequestOf(c, i)
             M == Prepare(S, t, i)
             v == VerdictOn(S, t, i)
  <1>0. c.op \in Ops /\ c.scope \in Scopes /\ (c.op = "probe" => kind = "openviking") /\ i \in Nat \ {0}
    <2>1. Len(Script(c.op, c.scope)) \in Nat
      BY ScriptFacts DEF Made, LengthFits
    <2> QED
      BY <2>1 DEF Made
  <1>1. Made(e) /\ Same(c, e) /\ e.step = i
    BY <1>0, StepCall
  <1>2. q.client \in Clients
    BY <1>0, ScriptFacts DEF RequestFits, RequestOf
  <1>3. /\ M \in Systems /\ M.rest = OpenedBy(S, t, i) /\ M.ad = MarkedBy(S, t, i)
        /\ M.task = [S.task EXCEPT ![t] = e] /\ M.wire = S.wire
    <2>1. Prepares(S, t, i, M)
      BY <1>0, PrepareIs
    <2> QED
      BY <2>1 DEF Prepares
  <1>4. M.task[t] = e /\ S.task \in [Tasks -> Callings]
    BY <1>3, SystemFields DEF Callers
  <1>5. Send(S, t, i) = IF v # "admitted" THEN Fail(M, t, v) ELSE Transmit(M, t, q)
    <2>1. Script(M.task[t].op, M.task[t].scope)[i] = q
      BY <1>1, <1>4 DEF Same, RequestOf
    <2>2. v = Admission(M.rest[q.client], q.write)
      BY <1>3 DEF VerdictOn
    <2> HIDE DEF M, q, v
    <2> QED
      BY <2>1, <2>2 DEF Send, M
  <1>6. CASE v = "admitted"
    <2> DEFINE X == Transmit(M, t, q)
    <2> HIDE DEF M, q
    <2>1. /\ X \in Systems /\ X.ad = M.ad
          /\ X.rest = [M.rest EXCEPT ![q.client] = Admitted(M.rest[q.client], t)]
          /\ X.task = [M.task EXCEPT ![t] = [e EXCEPT !.at = "wait"]]
          /\ X.wire.sent = IF q.write THEN S.wire.sent \cup {Entry(e, e.step)} ELSE S.wire.sent
          /\ X.wire.twice = IF q.write THEN S.wire.twice \cup ({Entry(e, e.step)} \cap S.wire.sent)
                            ELSE S.wire.twice
          /\ X.wire.banks = S.wire.banks
      <3>1. Transmits(M, t, q, X)
        BY <1>1, <1>2, <1>3, <1>4, TransmitIs
      <3> QED
        BY <1>3, <1>4, <3>1 DEF Transmits
    <2>2. Entry(e, e.step) = Entry(c, i)
      BY <1>1 DEF Entry, Same
    <2>3. [M.task EXCEPT ![t] = [e EXCEPT !.at = "wait"]] = [S.task EXCEPT ![t] = [e EXCEPT !.at = "wait"]]
      BY <1>3, <1>4
    <2>4. Send(S, t, i) = X
      BY <1>5, <1>6
    <2> HIDE DEF X
    <2>5. Admits(S, t, i, X)
      BY <1>3, <2>1, <2>2, <2>3 DEF Admits, q
    <2> QED
      BY <1>6, <2>4, <2>5
  <1>7. CASE v # "admitted"
    <2> DEFINE b == Refusing(S, t, i)
               X == Fail(M, t, v)
    <2>1. v # "settled"
      BY DEF VerdictOn, Admission, Refusal
    <2>2. FailingAd(M, t, v) = b
      BY <1>1, <1>3, <1>4, <2>1 DEF FailingAd, Refusing, Same
    <2>3. FailingRest(M, t) = S.rest
      <3>1. ~IsFresh(c, i)
        BY <1>7, FreshAdmits
      <3>2. ~IsFresh(e, e.step)
        BY <1>1, <3>1 DEF IsFresh, Same
      <3> QED
        BY <1>3, <1>4, <3>1, <3>2 DEF FailingRest, OpenedBy
    <2>4. Leaves(M, t, b, S.rest, X)
      <3> HIDE DEF M, v
      <3> QED
        BY <1>0, <1>1, <1>3, <1>4, <2>2, <2>3, FailIs, RefusingType, SystemFields
    <2>5. LockSet(b, M.task[t], NoOne) = LockSet(b, S.task[t], NoOne)
      BY <1>1, <1>4, LockSetSame DEF Same
    <2>6. [M.task EXCEPT ![t] = Idle] = [S.task EXCEPT ![t] = Idle]
      BY <1>3, <1>4
    <2>7. Send(S, t, i) = X
      BY <1>5, <1>7
    <2> HIDE DEF X, M, b
    <2>8. Leaves(S, t, b, S.rest, X)
      BY <1>3, <2>4, <2>5, <2>6 DEF Leaves
    <2> QED
      BY <1>7, <2>7, <2>8 DEF b
  <1> QED
    BY <1>6, <1>7

-----------------------------------------------------------------------------
(* A request is sent.                                                      *)

\* What is so of the other calls in W does not depend on what changes from S to X.
Undisturbed(S, X, W) ==
    /\ SameBatches(S.ad, X.ad) /\ S.ad.attempted \subseteq X.ad.attempted
    /\ \A u \in W :
          /\ X.task[u] = S.task[u]
          /\ HoldsLock(S.ad, u, S.task[u]) => HoldsLock(X.ad, u, S.task[u])
          /\ S.task[u].op = "allocate" /\ kind \in {"hindsight", "openviking"} =>
                (S.task[u].scope \in X.ad.allocAttempted <=> S.task[u].scope \in S.ad.allocAttempted)
          /\ S.task[u].op = "ingest" => \A w \in X.wire.sent :
                w \in S.wire.sent \/ w[1] # "ingest" \/ <<w[2], w[3], w[4]>> # Key(S.task[u])

\* Then it is still so.
LEMMA UndisturbedUnderway ==
    ASSUME NEW S, NEW X, NEW W, AllUnderway(S, W), Undisturbed(S, X, W)
    PROVE  AllUnderway(X, W)
  <1>1. ASSUME NEW u \in W PROVE Underway(X, u, X.task[u])
    <2> DEFINE c == S.task[u]
    <2>1. Underway(S, u, c) /\ X.task[u] = c
      BY <1>1 DEF AllUnderway, Undisturbed
    <2>2. \A s, d : Settled(X.ad, s, d) <=> Settled(S.ad, s, d)
      BY DEF Undisturbed, SameBatches, Settled
    <2>3. c.op = "ingest" => Ingesting(X, c)
      <3>1. HAVE c.op = "ingest"
      <3>2. Ingesting(S, c)
        BY <2>1, <3>1 DEF Underway
      <3>3. InTurn(X.ad, c)
        BY <2>2, <3>2 DEF Ingesting, InTurn, Undisturbed, SameBatches
      <3>4. Key(c) \in X.ad.attempted /\ c.attempt = X.ad.batch[c.scope][c.dispatch]
        BY <3>2 DEF Ingesting, Undisturbed, SameBatches
      <3>5. \A w \in X.wire.sent : w[1] = "ingest" /\ <<w[2], w[3], w[4]>> = Key(c) => w[5] <= c.step
        BY <3>1, <3>2 DEF Ingesting, Undisturbed
      <3> QED
        BY <3>3, <3>4, <3>5 DEF Ingesting
    <2>4. HoldsLock(X.ad, u, c)
      BY <2>1 DEF Underway, Undisturbed
    <2>5. c.op = "allocate" /\ kind \in {"hindsight", "openviking"} =>
              (c.scope \in X.ad.allocAttempted <=> c.step >= MarkedStep("allocate"))
      BY <2>1 DEF Underway, Undisturbed
    <2>6. c.op = "ready" => \A d \in Plan : Settled(X.ad, c.scope, d)
      BY <2>1, <2>2 DEF Underway
    <2> QED
      BY <2>1, <2>3, <2>4, <2>5, <2>6 DEF Underway
  <1>2. \A t, u \in W : X.task[t].op = "ingest" /\ X.task[u].op = "ingest"
                        /\ Key(X.task[t]) = Key(X.task[u]) => t = u
    BY DEF AllUnderway, Undisturbed
  <1> QED
    BY <1>1, <1>2 DEF AllUnderway

\* What marking before request i comes to.
LEMMA MarkedByFields ==
    ASSUME NEW S \in Systems, NEW t \in Tasks, kind \in Kinds, Made(S.task[t]), NEW i \in Nat \ {0}
    PROVE  LET b == MarkedBy(S, t, i) IN
           /\ b \in Ads /\ SameLocks(S.ad, b) /\ SameBatches(S.ad, b) /\ SameUsers(S.ad, b)
           /\ IF i = MarkedStep(S.task[t].op) THEN MarkIs(S.ad, b, S.task[t]) ELSE SameMarks(S.ad, b)
  <1> DEFINE c == S.task[t]
             e == AtStep(c, i)
  <1>1. S.ad \in Ads /\ Made(e) /\ Same(c, e) /\ c.op \in Ops
    BY StepCall, SystemFields DEF Made
  <1>2. CASE i = MarkedStep(c.op)
    <2>1. e.op \in {"ingest", "probe", "allocate"}
      BY <1>1, <1>2, MarkedOps DEF Same
    <2>2. /\ Mark(S.ad, e) \in Ads /\ MarkIs(S.ad, Mark(S.ad, e), e)
          /\ SameLocks(S.ad, Mark(S.ad, e)) /\ SameBatches(S.ad, Mark(S.ad, e)) /\ SameUsers(S.ad, Mark(S.ad, e))
      BY <1>1, <2>1, MarkFields
    <2>3. MarkIs(S.ad, Mark(S.ad, e), c)
      BY <1>1, <2>2 DEF MarkIs, Same
    <2> QED
      BY <1>2, <2>2, <2>3 DEF MarkedBy
  <1>3. CASE i # MarkedStep(c.op)
    BY <1>1, <1>3 DEF MarkedBy, SameLocks, SameBatches, SameUsers, SameMarks
  <1> QED
    BY <1>2, <1>3

\* Marks are only added.
LEMMA MarksGrow ==
    ASSUME NEW a, NEW b, NEW c, SameMarks(a, b) \/ MarkIs(a, b, c)
    PROVE  /\ a.attempted \subseteq b.attempted /\ a.probed \subseteq b.probed
           /\ a.allocAttempted \subseteq b.allocAttempted
  BY DEF SameMarks, MarkIs

\* Two calls do not hold the same lock.
LEMMA LocksExclude ==
    ASSUME NEW a, NEW t, NEW u, NEW c, NEW d, t # u, HoldsLock(a, t, c), HoldsLock(a, u, d),
           LockOf(c) = LockOf(d), LockOf(c) \in {"alloc", "plan", "probe"}
    PROVE  LockOf(c) = "plan" /\ c.scope # d.scope
  BY DEF HoldsLock

\* A call sends its request i, which is admitted, and S becomes X.
Sending(S, t, i, X) ==
    /\ kind \in Kinds /\ t \in Tasks
    /\ Sound(S, Waiting(S) \ {t}) /\ Ready(S, t, i)
    /\ VerdictOn(S, t, i) = "admitted" /\ Admits(S, t, i, X)

Sent(S, t, i, X) ==
    LET c == S.task[t]
        q == RequestOf(c, i)
        d == X.task[t]
    IN  /\ S \in Systems /\ X \in Systems /\ S.ad \in Ads /\ X.ad \in Ads
        /\ Made(c) /\ c.op \in Ops /\ c.scope \in Scopes /\ i \in Nat \ {0}
        /\ i \in 1..Len(Script(c.op, c.scope))
        /\ RequestFits(c.op, c.scope, i, q) /\ LengthFits(c.op, Len(Script(c.op, c.scope)))
        /\ Made(d) /\ Same(c, d) /\ d.step = i /\ d.at = "wait"
        /\ \A u \in Tasks \ {t} : X.task[u] = S.task[u]
        /\ Waiting(X) = (Waiting(S) \ {t}) \cup {t}
        /\ SameLocks(S.ad, X.ad) /\ SameBatches(S.ad, X.ad) /\ SameUsers(S.ad, X.ad)
        /\ IF i = MarkedStep(c.op) THEN MarkIs(S.ad, X.ad, c) ELSE SameMarks(S.ad, X.ad)
        /\ X.wire.sent = IF q.write THEN S.wire.sent \cup {Entry(c, i)} ELSE S.wire.sent
        /\ X.wire.twice = IF q.write THEN S.wire.twice \cup ({Entry(c, i)} \cap S.wire.sent)
                          ELSE S.wire.twice

\* What is then so.
LEMMA SentFacts ==
    ASSUME NEW S, NEW t, NEW i, NEW X, Sending(S, t, i, X)
    PROVE  Sent(S, t, i, X)
  <1> DEFINE c == S.task[t]
             e == AtStep(c, i)
             d == [e EXCEPT !.at = "wait"]
  <1>0. S \in Systems /\ X \in Systems /\ kind \in Kinds /\ t \in Tasks
    BY DEF Sending, Sound, Admits
  <1>1. Made(c) /\ i \in 1..Len(Script(c.op, c.scope))
    BY DEF Sending, Ready
  <1>2. c.op \in Ops /\ c.scope \in Scopes /\ (c.op = "probe" => kind = "openviking")
    BY <1>1 DEF Made
  <1>3. /\ LengthFits(c.op, Len(Script(c.op, c.scope)))
        /\ RequestFits(c.op, c.scope, i, RequestOf(c, i))
    BY <1>0, <1>1, <1>2, ScriptFacts DEF RequestOf
  <1>4. i \in Nat \ {0}
    BY <1>1, <1>3 DEF LengthFits
  <1>5. Made(e) /\ Same(c, e) /\ e.step = i
    BY <1>1, <1>4, StepCall
  <1>6. Made(d) /\ Same(e, d) /\ d.step = i /\ d.at = "wait"
    BY <1>5, WaitCall
  <1>7. Same(c, d)
    BY <1>5, <1>6 DEF Same
  <1> HIDE DEF e
  <1>8. X.task = [S.task EXCEPT ![t] = d] /\ X.ad = MarkedBy(S, t, i)
    BY DEF Sending, Admits, e
  <1> HIDE DEF d
  <1>9. S.task \in [Tasks -> Callings]
    BY <1>0, SystemFields DEF Callers
  <1>10. X.task[t] = d /\ \A u \in Tasks \ {t} : X.task[u] = S.task[u]
    BY <1>0, <1>8, <1>9
  <1>11. Waiting(X) = (Waiting(S) \ {t}) \cup {t}
    BY <1>0, <1>6, <1>10 DEF Waiting
  <1>12. /\ SameLocks(S.ad, X.ad) /\ SameBatches(S.ad, X.ad) /\ SameUsers(S.ad, X.ad)
         /\ IF i = MarkedStep(c.op) THEN MarkIs(S.ad, X.ad, c) ELSE SameMarks(S.ad, X.ad)
    BY <1>0, <1>1, <1>4, <1>8, MarkedByFields
  <1>13. S.ad \in Ads /\ X.ad \in Ads
    BY <1>0, SystemFields
  <1>14. /\ X.wire.sent = IF RequestOf(c, i).write THEN S.wire.sent \cup {Entry(c, i)} ELSE S.wire.sent
         /\ X.wire.twice = IF RequestOf(c, i).write THEN S.wire.twice \cup ({Entry(c, i)} \cap S.wire.sent)
                           ELSE S.wire.twice
    BY DEF Sending, Admits
  <1> HIDE DEF c
  <1>15. Made(X.task[t]) /\ Same(c, X.task[t]) /\ X.task[t].step = i /\ X.task[t].at = "wait"
    BY <1>6, <1>7, <1>10
  <1> QED
    BY <1>0, <1>1, <1>2, <1>3, <1>4, <1>10, <1>11, <1>12, <1>13, <1>14, <1>15 DEF Sent, c

\* The other calls are as they were.
LEMMA SentUndisturbed ==
    ASSUME NEW S, NEW t, NEW i, NEW X, Sending(S, t, i, X)
    PROVE  AllUnderway(X, Waiting(S) \ {t})
  <1> DEFINE c == S.task[t]
             W == Waiting(S) \ {t}
             q == RequestOf(c, i)
  <1>1. Sent(S, t, i, X)
    BY SentFacts
  <1>2. SameBatches(S.ad, X.ad) /\ SameLocks(S.ad, X.ad)
    BY <1>1 DEF Sent
  <1>3. S.ad.attempted \subseteq X.ad.attempted
    BY <1>1, MarksGrow DEF Sent
  <1>4. ASSUME NEW u \in W
        PROVE  /\ X.task[u] = S.task[u]
               /\ HoldsLock(S.ad, u, S.task[u]) => HoldsLock(X.ad, u, S.task[u])
               /\ S.task[u].op = "allocate" /\ kind \in {"hindsight", "openviking"} =>
                     (S.task[u].scope \in X.ad.allocAttempted <=> S.task[u].scope \in S.ad.allocAttempted)
               /\ S.task[u].op = "ingest" => \A w \in X.wire.sent :
                     w \in S.wire.sent \/ w[1] # "ingest" \/ <<w[2], w[3], w[4]>> # Key(S.task[u])
    <2>0. u \in Tasks /\ u # t /\ u \in Waiting(S)
      BY <1>4 DEF Waiting
    <2>1. X.task[u] = S.task[u]
      BY <1>1, <2>0 DEF Sent
    <2>2. HoldsLock(S.ad, u, S.task[u]) => HoldsLock(X.ad, u, S.task[u])
      BY <1>2 DEF SameLocks, HoldsLock
    <2>3. ASSUME S.task[u].op = "allocate", kind \in {"hindsight", "openviking"}
          PROVE  X.ad.allocAttempted = S.ad.allocAttempted
      <3>1. HoldsLock(S.ad, u, S.task[u])
        BY <1>4 DEF Sending, Sound, AllUnderway, Underway
      <3>2. HoldsLock(S.ad, t, c)
        BY DEF Sending, Ready
      <3>3. LockOf(S.task[u]) = "alloc"
        BY <2>3 DEF LockOf
      <3>4. c.op = "allocate" => LockOf(c) = "alloc"
        BY <2>3 DEF LockOf
      <3>5. c.op # "allocate"
        BY <2>0, <3>1, <3>2, <3>3, <3>4, LocksExclude
      <3> QED
        BY <1>1, <3>5 DEF Sent, SameMarks, MarkIs
    <2>4. ASSUME S.task[u].op = "ingest", NEW w \in X.wire.sent, w \notin S.wire.sent, w[1] = "ingest"
          PROVE  <<w[2], w[3], w[4]>> # Key(S.task[u])
      <3>1. w = Entry(c, i)
        BY <1>1, <2>4 DEF Sent
      <3>2. c.op = "ingest" /\ <<w[2], w[3], w[4]>> = Key(c)
        BY SMTT(30), <2>4, <3>1 DEF Entry, Key
      <3>3. Key(S.task[u]) # Key(c)
        BY <1>4, <2>4, <3>2 DEF Sending, Ready
      <3> QED
        BY <3>2, <3>3
    <2> QED
      BY <2>1, <2>2, <2>3, <2>4
  <1>5. Undisturbed(S, X, W)
    BY <1>2, <1>3, <1>4 DEF Undisturbed
  <1> QED
    BY <1>5, UndisturbedUnderway DEF Sending, Sound

\* And the call that sends is under way.
LEMMA SentUnderway ==
    ASSUME NEW S, NEW t, NEW i, NEW X, Sending(S, t, i, X)
    PROVE  AllUnderway(X, Waiting(X))
  <1> DEFINE c == S.task[t]
             d == X.task[t]
             W == Waiting(S) \ {t}
  <1>1. Sent(S, t, i, X)
    BY SentFacts
  <1>2. /\ Same(c, d) /\ d.step = i /\ Made(c) /\ i \in Nat \ {0} /\ c.op \in Ops
        /\ i \in 1..Len(Script(c.op, c.scope)) /\ Waiting(X) = W \cup {t}
    BY <1>1 DEF Sent
  <1>3. SameBatches(S.ad, X.ad) /\ SameLocks(S.ad, X.ad)
    BY <1>1 DEF Sent
  <1>4. \A s, k : Settled(X.ad, s, k) <=> Settled(S.ad, s, k)
    BY <1>3 DEF SameBatches, Settled
  <1>5. HoldsLock(X.ad, t, d)
    <2>1. HoldsLock(S.ad, t, c)
      BY DEF Sending, Ready
    <2> QED
      BY <1>2, <1>3, <2>1 DEF SameLocks, HoldsLock, Same
  <1>6. c.op = "ingest" => Ingesting(X, d)
    <2>1. HAVE c.op = "ingest"
    <2>2. Key(d) \in X.ad.attempted
      <3>1. CASE i = 1
        <4>1. MarkedStep(c.op) = 1
          BY <2>1 DEF MarkedStep
        <4> QED
          BY <1>1, <2>1, <3>1, <4>1 DEF Sent, MarkIs, Same
      <3>2. CASE i # 1
        <4>1. Key(c) \in S.ad.attempted
          BY SMTT(30), <1>2, <2>1, <3>2 DEF Sending, Ready
        <4>2. S.ad.attempted \subseteq X.ad.attempted
          BY <1>1, MarksGrow DEF Sent
        <4> QED
          BY SMTT(30), <1>2, <4>1, <4>2 DEF Same
      <3> QED
        BY <3>1, <3>2
    <2>3. d.attempt = X.ad.batch[d.scope][d.dispatch]
      BY <1>2, <1>3, <2>1 DEF Sending, Ready, Same, SameBatches
    <2>4. \A w \in X.wire.sent : w[1] = "ingest" /\ <<w[2], w[3], w[4]>> = Key(d) => w[5] <= d.step
      <3>1. ASSUME NEW w \in X.wire.sent, w[1] = "ingest", <<w[2], w[3], w[4]>> = Key(d)
            PROVE  w[5] <= i
        <4>1. CASE w \in S.wire.sent
          BY <1>2, <2>1, <3>1, <4>1 DEF Sending, Ready, Same
        <4>2. CASE w \notin S.wire.sent
          <5>1. w = Entry(c, i)
            BY <1>1, <4>2, <3>1 DEF Sent
          <5> QED
            BY <1>2, <5>1 DEF Entry
        <4> QED
          BY SMTT(30), <4>1, <4>2
      <3> QED
        BY <1>2, <3>1
    <2>5. InTurn(X.ad, d)
      <3>1. InTurn(S.ad, c)
        BY <2>1 DEF Sending, Ready
      <3> QED
        BY SMTT(30), <1>2, <1>3, <1>4, <3>1 DEF InTurn, Same, SameBatches
    <2> QED
      BY <2>2, <2>3, <2>4, <2>5 DEF Ingesting
  <1>7. c.op = "allocate" /\ kind \in {"hindsight", "openviking"} =>
            (d.scope \in X.ad.allocAttempted <=> i >= MarkedStep("allocate"))
    <2>1. HAVE c.op = "allocate" /\ kind \in {"hindsight", "openviking"}
    <2>2. c.scope \in S.ad.allocAttempted <=> i > MarkedStep("allocate")
      BY <2>1 DEF Sending, Ready
    <2>3. MarkedStep("allocate") \in Nat
      BY DEF MarkedStep
    <2>4. CASE i = MarkedStep("allocate")
      BY <1>1, <1>2, <2>1, <2>3, <2>4 DEF Sent, MarkIs, Same
    <2>5. CASE i # MarkedStep("allocate")
      <3>1. X.ad.allocAttempted = S.ad.allocAttempted
        BY <1>1, <2>1, <2>5 DEF Sent, SameMarks
      <3> QED
        BY <1>2, <2>2, <2>3, <2>5, <3>1 DEF Same
    <2> QED
      BY <2>4, <2>5
  <1>8. c.op = "ready" => \A k \in Plan : Settled(X.ad, d.scope, k)
    BY <1>2, <1>4 DEF Sending, Ready, Same
  <1>9. Underway(X, t, d)
    BY <1>2, <1>5, <1>6, <1>7, <1>8 DEF Underway, Same
  <1>10. AllUnderway(X, W)
    BY SMTT(30), SentUndisturbed
  <1>11. ASSUME NEW u \in W, X.task[u].op = "ingest", d.op = "ingest"
         PROVE  Key(X.task[u]) # Key(d)
    <2>1. u \in Tasks \ {t}
      BY <1>11 DEF Waiting
    <2>2. X.task[u] = S.task[u]
      BY <1>1, <2>1 DEF Sent
    <2>3. c.op = "ingest"
      BY <1>2, <1>11 DEF Same
    <2> QED
      BY <1>2, <1>11, <2>2, <2>3 DEF Sending, Ready, Same
  <1> QED
    BY <1>2, <1>9, <1>10, <1>11 DEF AllUnderway
\* What was sent is marked, and what is marked was sent, and only once.
LEMMA SentTidy ==
    ASSUME NEW S, NEW t, NEW i, NEW X, Sending(S, t, i, X), X.rest["main"].closed = S.rest["main"].closed
    PROVE  Tidy(X)
  <1> DEFINE c == S.task[t]
             q == RequestOf(c, i)
             e == Entry(c, i)
             m == MarkedStep(c.op)
  <1>1. Sent(S, t, i, X)
    BY SentFacts
  <1>2. /\ Made(c) /\ c.op \in Ops /\ c.scope \in Scopes /\ i \in Nat \ {0} /\ i \in 1..Len(Script(c.op, c.scope))
        /\ RequestFits(c.op, c.scope, i, q) /\ LengthFits(c.op, Len(Script(c.op, c.scope)))
        /\ kind \in {"mem0", "hindsight", "openviking", "session"}
    BY <1>1, AdaptersAssumption DEF Sent, Sending
  <1>3. Tidy(S)
    BY DEF Sending, Sound
  <1>4. S.ad.attempted \subseteq X.ad.attempted /\ S.ad.probed \subseteq X.ad.probed
        /\ S.ad.allocAttempted \subseteq X.ad.allocAttempted
    BY <1>1, MarksGrow DEF Sent
  <1>5. X.wire.sent = IF q.write THEN S.wire.sent \cup {e} ELSE S.wire.sent
    BY <1>1 DEF Sent
  <1>6. IF i = m THEN MarkIs(S.ad, X.ad, c) ELSE SameMarks(S.ad, X.ad)
    BY <1>1 DEF Sent
  <1>7. e[1] = c.op /\ e[2] = c.scope /\ <<e[2], e[3], e[4]>> = Key(c) /\ e[5] = i
    BY DEF Entry, Key
  <1>8. /\ c.op = "allocate" /\ kind # "session" => (q.write <=> i = m)
        /\ c.op = "probe" => q.write /\ i = m
        /\ c.op = "ingest" /\ kind # "session" => q.write
    <2>1. c.op = "allocate" /\ kind # "session" => (q.write <=> i = m)
      BY <1>2 DEF RequestFits, MarkedStep
    <2>2. c.op = "probe" => q.write /\ i = m
      <3>1. c.op = "probe" => m = 1
        BY DEF MarkedStep
      <3>2. c.op = "probe" => Len(Script(c.op, c.scope)) = 1
        BY <1>2 DEF LengthFits
      <3>3. c.op = "probe" => i = 1
        <4>1. i \in 1..Len(Script(c.op, c.scope))
          BY <1>2
        <4> HIDE DEF c
        <4> QED
          BY <3>2, <4>1
      <3>4. c.op = "probe" => q.write
        BY <1>2 DEF RequestFits
      <3> QED
        BY <3>1, <3>3, <3>4
    <2>3. c.op = "ingest" /\ kind # "session" => q.write
      BY <1>2 DEF RequestFits
    <2> QED
      BY <2>1, <2>2, <2>3
  <1>9. q.write => c.op \in {"ingest", "probe", "allocate"}
    BY <1>2 DEF RequestFits, Ops
  <1>10. c.op \in {"ingest", "probe"} => m = 1
    BY DEF MarkedStep
  <1>11. c.op = "probe" => kind = "openviking"
    BY <1>2 DEF Made
  <1>12. i = m => c.op \in {"ingest", "probe", "allocate"}
    BY <1>2, MarkedOps
  <1>13. c.op = "allocate" /\ i = m => kind \in {"hindsight", "openviking"} /\ i \in 2..3
    BY <1>2 DEF MarkedStep
  <1> HIDE DEF m
  <1>14. SentIsMarked(X)
    <2>1. ASSUME NEW w \in X.wire.sent
          PROVE  /\ w[1] = "ingest" => <<w[2], w[3], w[4]>> \in X.ad.attempted
                 /\ w[1] = "allocate" /\ kind # "session" => w[2] \in X.ad.allocAttempted
                 /\ w[1] = "probe" => w[2] \in X.ad.probed
      <3>1. CASE w \in S.wire.sent
        BY <1>3, <1>4, <3>1 DEF Tidy, SentIsMarked
      <3>2. CASE w \notin S.wire.sent
        <4>1. w = e /\ q.write
          BY <1>5, <2>1, <3>2
        <4>2. CASE c.op = "ingest"
          <5>1. Key(c) \in X.ad.attempted
            <6>1. CASE i = m
              BY SMTT(30), <1>6, <4>2, <6>1 DEF MarkIs
            <6>2. CASE i # m
              BY <1>2, <1>4, <1>10, <4>2, <6>2 DEF Sending, Ready
            <6> QED
              BY <6>1, <6>2
          <5> QED
            BY <1>7, <4>1, <4>2, <5>1
        <4>3. CASE c.op = "allocate"
          <5>1. kind # "session" => c.scope \in X.ad.allocAttempted
            BY <1>6, <1>8, <4>1, <4>3 DEF MarkIs
          <5> QED
            BY <1>7, <4>1, <4>3, <5>1
        <4>4. CASE c.op = "probe"
          <5>1. c.scope \in X.ad.probed
            BY <1>6, <1>8, <1>11, <4>1, <4>4 DEF MarkIs
          <5> QED
            BY <1>7, <4>1, <4>4, <5>1
        <4> QED
          BY <1>9, <4>1, <4>2, <4>3, <4>4
      <3> QED
        BY <3>1, <3>2
    <2> QED
      BY <2>1 DEF SentIsMarked
  <1>15. MarkedIsSent(X)
    <2>1. SUFFICES ASSUME kind # "session", ~X.rest["main"].closed
                   PROVE  /\ \A k \in X.ad.attempted : <<"ingest", k[1], k[2], k[3], 1>> \in X.wire.sent
                          /\ \A s \in X.ad.probed : <<"probe", s, 0, 0, 1>> \in X.wire.sent
                          /\ kind # "mem0" => \A s \in X.ad.allocAttempted :
                                \E j \in 2..3 : <<"allocate", s, 0, 0, j>> \in X.wire.sent
      BY DEF MarkedIsSent
    <2>2. /\ \A k \in S.ad.attempted : <<"ingest", k[1], k[2], k[3], 1>> \in S.wire.sent
          /\ \A s \in S.ad.probed : <<"probe", s, 0, 0, 1>> \in S.wire.sent
          /\ kind # "mem0" => \A s \in S.ad.allocAttempted :
                \E j \in 2..3 : <<"allocate", s, 0, 0, j>> \in S.wire.sent
      BY <1>3, <2>1 DEF Tidy, MarkedIsSent
    <2>3. S.wire.sent \subseteq X.wire.sent
      BY <1>5
    <2>4. i = m => e \in X.wire.sent
      BY <1>5, <1>8, <1>12, <2>1
    <2>5. c.op \in {"probe", "allocate"} => c.dispatch = 0 /\ c.attempt = 0
      BY <1>2 DEF Made
    <2>6. ASSUME NEW k \in X.ad.attempted, k \notin S.ad.attempted
          PROVE  <<"ingest", k[1], k[2], k[3], 1>> \in X.wire.sent
      <3>1. i = m /\ c.op = "ingest" /\ k = Key(c)
        BY <1>6, <2>6 DEF MarkIs, SameMarks
      <3>2. e = <<"ingest", k[1], k[2], k[3], 1>>
        BY <1>10, <3>1 DEF Entry, Key
      <3> QED
        BY <2>4, <3>1, <3>2
    <2>7. ASSUME NEW s \in X.ad.probed, s \notin S.ad.probed
          PROVE  <<"probe", s, 0, 0, 1>> \in X.wire.sent
      <3>1. i = m /\ c.op = "probe" /\ s = c.scope
        BY <1>6, <2>7 DEF MarkIs, SameMarks
      <3>2. e = <<"probe", s, 0, 0, 1>>
        BY <1>10, <2>5, <3>1 DEF Entry
      <3> QED
        BY <2>4, <3>1, <3>2
    <2>8. ASSUME NEW s \in X.ad.allocAttempted, s \notin S.ad.allocAttempted
          PROVE  \E j \in 2..3 : <<"allocate", s, 0, 0, j>> \in X.wire.sent
      <3>1. i = m /\ c.op = "allocate" /\ s = c.scope
        BY <1>6, <2>8 DEF MarkIs, SameMarks
      <3>2. e = <<"allocate", s, 0, 0, i>>
        BY <2>5, <3>1 DEF Entry
      <3> QED
        BY <1>13, <2>4, <3>1, <3>2
    <2> QED
      BY <2>2, <2>3, <2>6, <2>7, <2>8
  <1>16. NoneTwice(X)
    <2>1. X.wire.twice = IF q.write THEN S.wire.twice \cup ({e} \cap S.wire.sent) ELSE S.wire.twice
      BY <1>1 DEF Sent
    <2>2. ASSUME q.write, e \in S.wire.sent
          PROVE  kind = "session" /\ c.op = "allocate"
      <3>1. SentIsMarked(S)
        BY <1>3 DEF Tidy
      <3>2. c.op # "ingest"
        <4>1. SUFFICES ASSUME c.op = "ingest" PROVE FALSE
          OBVIOUS
        <4>2. e[5] < i
          BY <1>7, <2>2, <4>1 DEF Sending, Ready, RequestOf
        <4> QED
          BY <1>2, <1>7, <4>2
      <3>3. c.op # "probe"
        BY <1>7, <2>2, <3>1 DEF SentIsMarked, Sending, Ready
      <3>4. c.op = "allocate" /\ kind # "session" => FALSE
        <4>1. HAVE c.op = "allocate" /\ kind # "session"
        <4>2. i = m /\ kind \in {"hindsight", "openviking"}
          BY <1>8, <1>13, <2>2, <4>1
        <4>3. c.scope \in S.ad.allocAttempted
          BY <1>7, <2>2, <3>1, <4>1 DEF SentIsMarked
        <4>4. i > MarkedStep("allocate")
          BY <4>1, <4>2, <4>3 DEF Sending, Ready
        <4> QED
          BY <1>2, <4>1, <4>2, <4>4 DEF m
      <3> QED
        BY <1>9, <2>2, <3>2, <3>3, <3>4
    <2> QED
      BY <1>3, <1>7, <2>1, <2>2 DEF Tidy, NoneTwice
  <1>17. Batches(X)
    <2>1. SameBatches(S.ad, X.ad)
      BY <1>1 DEF Sent
    <2>2. \A s, k : Settled(X.ad, s, k) <=> Settled(S.ad, s, k)
      BY <2>1 DEF SameBatches, Settled
    <2>3. Batches(S)
      BY SMTT(30), <1>3 DEF Tidy
    <2> QED
      BY <1>4, <2>1, <2>2, <2>3 DEF Batches, SameBatches
  <1> QED
    BY <1>14, <1>15, <1>16, <1>17 DEF Tidy

ClientAlike(p, r) ==
    r.accepting = p.accepting /\ r.httpx = p.httpx /\ r.transport = p.transport /\ r.closed = p.closed

\* What becomes of the clients when a request is sent.
SentOn(S, t, i, X) ==
    LET c == S.task[t]
        q == RequestOf(c, i)
    IN  /\ \A p \in Clients : ~(IsFresh(c, i) /\ p = c.scope) =>
              /\ ClientAlike(S.rest[p], X.rest[p])
              /\ S.rest[p].active \subseteq X.rest[p].active
              /\ p # q.client => X.rest[p].active = S.rest[p].active
        /\ IsFresh(c, i) => q.client = c.scope /\ X.rest[c.scope].httpx = "open"
        /\ q.client \in Clients /\ t \in X.rest[q.client].active
        /\ X.rest[q.client].accepting

\* They are as they were but for the one that is opened and the one that is used.
LEMMA SentClients ==
    ASSUME NEW S, NEW t, NEW i, NEW X, Sending(S, t, i, X)
    PROVE  SentOn(S, t, i, X)
  <1> DEFINE c == S.task[t]
             q == RequestOf(c, i)
             O == OpenedBy(S, t, i)
  <1>1. Sent(S, t, i, X)
    BY SentFacts
  <1>2. S \in Systems /\ c.scope \in Scopes /\ RequestFits(c.op, c.scope, i, q) /\ Scopes \subseteq Clients
    BY <1>1 DEF Sent, Clients
  <1>3. X.rest = [O EXCEPT ![q.client] = Admitted(O[q.client], t)] /\ Admission(O[q.client], q.write) = "admitted"
    BY DEF Sending, Admits, VerdictOn
  <1>4. q.client \in Clients /\ (IsFresh(c, i) => q.client = c.scope)
    BY <1>2 DEF RequestFits, IsFresh, SessionIdentity
  <1>5. S.rest \in [Clients -> Transports]
    BY <1>2, SystemFields DEF Rests
  <1>6. FreshClient \in Transports /\ FreshClient.httpx = "open"
    BY DEF FreshClient, Transports, TaskSets
  <1>7. O \in [Clients -> Transports] /\ \A p \in Clients : ~(IsFresh(c, i) /\ p = c.scope) => O[p] = S.rest[p]
    BY <1>2, <1>5, <1>6 DEF OpenedBy
  <1>8. IsFresh(c, i) => O[c.scope] = FreshClient
    BY <1>2, <1>5 DEF OpenedBy
  <1> HIDE DEF O, q
  <1>9. \A p \in Clients : p # q.client => X.rest[p] = O[p]
    BY <1>3, <1>7
  <1>10. X.rest[q.client] = Admitted(O[q.client], t)
    BY <1>3, <1>4, <1>7
  <1>11. /\ ClientAlike(O[q.client], X.rest[q.client])
         /\ O[q.client].active \subseteq X.rest[q.client].active /\ t \in X.rest[q.client].active
    <2>1. O[q.client] \in Transports
      BY <1>4, <1>7
    <2> QED
      BY <1>10, <2>1 DEF Admitted, ClientAlike, Transports
  <1>12. O[q.client].accepting
    BY <1>3 DEF Admission, Refusal
  <1>13. ASSUME NEW p \in Clients, ~(IsFresh(c, i) /\ p = c.scope)
         PROVE  /\ ClientAlike(S.rest[p], X.rest[p])
                /\ S.rest[p].active \subseteq X.rest[p].active
                /\ p # q.client => X.rest[p].active = S.rest[p].active
    <2>1. O[p] = S.rest[p]
      BY <1>7, <1>13
    <2>2. CASE p = q.client
      BY <1>11, <2>1, <2>2
    <2>3. CASE p # q.client
      BY <1>9, <2>1, <2>3 DEF ClientAlike
    <2> QED
      BY <2>2, <2>3
  <1>14. IsFresh(c, i) => X.rest[c.scope].httpx = "open"
    BY <1>4, <1>6, <1>8, <1>11 DEF ClientAlike
  <1>15. X.rest[q.client].accepting
    BY <1>11, <1>12 DEF ClientAlike
  <1> QED
    BY <1>4, <1>11, <1>13, <1>14, <1>15 DEF SentOn, q
\* A call that waits is on a client of the adapter.
LEMMA ClientFits ==
    ASSUME kind \in Kinds, NEW c, Made(c), c.step \in 1..Len(Script(c.op, c.scope))
    PROVE  /\ ClientOf(c) \in Clients
           /\ kind = "session" => IF c.op = "resolve" \/ (c.op = "allocate" /\ c.step < SessionIdentity)
                                  THEN ClientOf(c) = "main" ELSE ClientOf(c) = c.scope
           /\ kind # "session" => ClientOf(c) \in {"main", "inspector"}
           /\ kind \in {"hindsight", "openviking"} => ClientOf(c) = "main"
  <1>1. c.op \in Ops /\ c.scope \in Scopes /\ (c.op = "probe" => kind = "openviking")
    BY DEF Made
  <1>2. RequestFits(c.op, c.scope, c.step, Script(c.op, c.scope)[c.step])
    BY <1>1, ScriptFacts
  <1> QED
    BY <1>2 DEF RequestFits, ClientOf

\* The callers keep their clients.
LEMMA SentUsing ==
    ASSUME NEW S, NEW t, NEW i, NEW X, Sending(S, t, i, X)
    PROVE  Using(X, Waiting(X))
  <1> DEFINE c == S.task[t]
             d == X.task[t]
             q == RequestOf(c, i)
             W == Waiting(S) \ {t}
  <1>1. Sent(S, t, i, X) /\ SentOn(S, t, i, X) /\ kind \in Kinds
    BY SentFacts, SentClients DEF Sending
  <1>2. /\ Same(c, d) /\ d.step = i /\ c.scope \in Scopes /\ i \in Nat \ {0}
        /\ Waiting(X) = W \cup {t} /\ SameUsers(S.ad, X.ad) /\ SameBatches(S.ad, X.ad)
    BY <1>1 DEF Sent
  <1>3. ASSUME NEW u \in W
        PROVE  /\ X.task[u] = S.task[u] /\ Made(S.task[u]) /\ ClientOf(S.task[u]) \in Clients
               /\ u \in S.rest[ClientOf(S.task[u])].active
               /\ S.task[u].step \in 1..Len(Script(S.task[u].op, S.task[u].scope))
    <2>1. u \in Tasks \ {t} /\ S.task[u].at = "wait"
      BY <1>3 DEF Waiting
    <2>2. Made(S.task[u]) /\ S.task[u].step \in 1..Len(Script(S.task[u].op, S.task[u].scope))
      BY <2>1 DEF Sending, Sound, CallsMade
    <2>3. ClientOf(S.task[u]) \in Clients
      BY <1>1, <2>2, ClientFits
    <2>4. u \in S.rest[ClientOf(S.task[u])].active
      BY <1>3 DEF Sending, Sound, Using
    <2> QED
      BY <1>1, <2>1, <2>2, <2>3, <2>4 DEF Sent
  <1>4. Using(S, W)
    BY DEF Sending, Sound
  <1>5. ASSUME NEW u \in W PROVE u \in X.rest[ClientOf(X.task[u])].active
    <2> DEFINE v == S.task[u]
               p == ClientOf(v)
    <2>1. X.task[u] = v /\ Made(v) /\ p \in Clients /\ u \in S.rest[p].active
      BY <1>3, <1>5
    <2>2. ~(IsFresh(c, i) /\ p = c.scope)
      <3>1. SUFFICES ASSUME IsFresh(c, i), p = c.scope PROVE FALSE
        OBVIOUS
      <3>2. kind = "session" /\ c.op = "allocate" /\ i = SessionIdentity
        BY <3>1 DEF IsFresh
      <3>3. IF v.op = "resolve" \/ (v.op = "allocate" /\ v.step < SessionIdentity)
            THEN p = "main" ELSE p = v.scope
        BY <1>1, <1>3, <1>5, <3>2, ClientFits
      <3>4. v.scope = c.scope /\ v.op # "resolve"
        BY <1>2, <3>1, <3>3, AdaptersAssumption
      <3>5. c.scope \notin S.ad.users
        <4>1. c.scope \in S.ad.users <=> i > SessionIdentity
          BY <3>2 DEF Sending, Ready
        <4> QED
          BY <3>2, <4>1 DEF SessionIdentity
      <3>6. v.op = "allocate"
        BY <1>4, <1>5, <3>2, <3>4, <3>5 DEF Using
      <3> QED
        BY <1>5, <3>2, <3>4, <3>6 DEF Sending, Ready
    <2>3. S.rest[p].active \subseteq X.rest[p].active
      BY <1>1, <2>1, <2>2 DEF SentOn
    <2> QED
      BY <2>1, <2>3
  <1>6. t \in X.rest[ClientOf(d)].active
    <2>1. ClientOf(d) = q.client
      BY <1>2 DEF ClientOf, RequestOf, Same
    <2> QED
      BY <1>1, <2>1 DEF SentOn
  <1>7. ASSUME kind = "session"
        PROVE  /\ \A u \in W : S.task[u].op \notin {"resolve", "allocate"} => S.task[u].scope \in S.ad.users
               /\ \A u \in W : S.task[u].op = "allocate" =>
                     (S.task[u].scope \in S.ad.users <=> S.task[u].step > SessionIdentity)
               /\ \A u, v \in W : S.task[u].op = "allocate" /\ S.task[v].op = "allocate"
                                  /\ S.task[u].scope = S.task[v].scope => u = v
               /\ S.ad.allocated \cup S.ad.planned \cup S.ad.ready \subseteq S.ad.users
    BY <1>4, <1>7 DEF Using
  <1>8. ASSUME kind = "session"
        PROVE  /\ c.op \notin {"resolve", "allocate"} => c.scope \in S.ad.users
               /\ c.op = "allocate" =>
                    /\ c.scope \in S.ad.users <=> i > SessionIdentity
                    /\ \A u \in W : S.task[u].op = "allocate" => S.task[u].scope # c.scope
    BY <1>8 DEF Sending, Ready
  <1>9. d.op = c.op /\ d.scope = c.scope
    BY <1>2 DEF Same
  <1>10. /\ X.ad.users = S.ad.users
         /\ X.ad.allocated \cup X.ad.planned \cup X.ad.ready = S.ad.allocated \cup S.ad.planned \cup S.ad.ready
    BY <1>2 DEF SameUsers, SameBatches
  <1>11. \A u \in W : X.task[u] = S.task[u]
    BY <1>3
  <1> HIDE DEF W, c, d
  <1>12. \A u \in Waiting(X) : u \in X.rest[ClientOf(X.task[u])].active
    BY <1>2, <1>5, <1>6 DEF d
  <1>13. ASSUME kind = "session"
         PROVE  /\ \A u \in Waiting(X) : X.task[u].op \notin {"resolve", "allocate"} => X.task[u].scope \in X.ad.users
                /\ \A u \in Waiting(X) : X.task[u].op = "allocate" =>
                      (X.task[u].scope \in X.ad.users <=> X.task[u].step > SessionIdentity)
                /\ \A u, v \in Waiting(X) : X.task[u].op = "allocate" /\ X.task[v].op = "allocate"
                                   /\ X.task[u].scope = X.task[v].scope => u = v
    <2>1. \A u \in Waiting(X) : X.task[u].op \notin {"resolve", "allocate"} => X.task[u].scope \in X.ad.users
      BY <1>2, <1>7, <1>8, <1>9, <1>10, <1>11, <1>13 DEF d
    <2>2. \A u \in Waiting(X) : X.task[u].op = "allocate" =>
                      (X.task[u].scope \in X.ad.users <=> X.task[u].step > SessionIdentity)
      BY <1>2, <1>7, <1>8, <1>9, <1>10, <1>11, <1>13 DEF d
    <2>3. \A u, v \in Waiting(X) : X.task[u].op = "allocate" /\ X.task[v].op = "allocate"
                                   /\ X.task[u].scope = X.task[v].scope => u = v
      BY <1>2, <1>7, <1>8, <1>9, <1>11, <1>13 DEF d
    <2> QED
      BY <2>1, <2>2, <2>3
  <1> QED
    BY <1>7, <1>10, <1>12, <1>13 DEF Using

\* No request is sent through a client that is closed, and the closes see no
\* difference.
LEMMA SentInOrder ==
    ASSUME NEW S, NEW t, NEW i, NEW X, Sending(S, t, i, X)
    PROVE  /\ ClientsInOrder(X) /\ X.rest["main"].closed = S.rest["main"].closed
           /\ \A C : ClosesInOrder(S, C) => ClosesInOrder(X, C)
  <1> DEFINE c == S.task[t]
             q == RequestOf(c, i)
  <1>1. Sent(S, t, i, X) /\ SentOn(S, t, i, X)
    BY SentFacts, SentClients
  <1>2. c.scope \in Scopes /\ SameUsers(S.ad, X.ad) /\ "main" \in Clients /\ "main" \notin Scopes
        /\ "inspector" \in Clients
    BY <1>1, AdaptersAssumption DEF Sent, Clients
  <1>3. ClientsInOrder(S)
    BY DEF Sending, Sound
  <1>4. ClientsInOrder(X)
    <2>1. ASSUME NEW p \in Clients
          PROVE  /\ X.rest[p].httpx = "closed" => ~X.rest[p].accepting /\ X.rest[p].active = {}
                 /\ kind # "session" /\ X.rest[p].closed => X.rest[p].transport = "closed"
      <3>1. CASE IsFresh(c, i) /\ p = c.scope
        BY <1>1, <3>1 DEF SentOn, IsFresh
      <3>2. CASE ~(IsFresh(c, i) /\ p = c.scope)
        <4>1. ClientAlike(S.rest[p], X.rest[p]) /\ (p # q.client => X.rest[p].active = S.rest[p].active)
          BY <1>1, <2>1, <3>2 DEF SentOn
        <4>2. p = q.client => X.rest[p].accepting
          BY <1>1 DEF SentOn
        <4>3. /\ S.rest[p].httpx = "closed" => ~S.rest[p].accepting /\ S.rest[p].active = {}
              /\ kind # "session" /\ S.rest[p].closed => S.rest[p].transport = "closed"
          BY <1>3, <2>1 DEF ClientsInOrder
        <4> QED
          BY <4>1, <4>2, <4>3 DEF ClientAlike
      <3> QED
        BY <3>1, <3>2
    <2> QED
      BY <2>1 DEF ClientsInOrder
  <1>5. \A p \in Clients : (kind = "session" => p \in S.ad.users \cup {"main"}) => ClientAlike(S.rest[p], X.rest[p])
    <2>1. ASSUME NEW p \in Clients, kind = "session" => p \in S.ad.users \cup {"main"}
          PROVE  ~(IsFresh(c, i) /\ p = c.scope)
      <3>1. IsFresh(c, i) => c.scope \notin S.ad.users
        <4>1. HAVE IsFresh(c, i)
        <4>2. c.scope \in S.ad.users <=> i > SessionIdentity
          BY <4>1 DEF Sending, Ready, IsFresh
        <4> QED
          BY <4>1, <4>2 DEF IsFresh, SessionIdentity
      <3> QED
        BY <1>2, <2>1, <3>1 DEF IsFresh
    <2> QED
      BY <1>1, <2>1 DEF SentOn
  <1>6. X.rest["main"].closed = S.rest["main"].closed
    BY <1>2, <1>5 DEF ClientAlike
  <1>7. ASSUME NEW C, ClosesInOrder(S, C) PROVE ClosesInOrder(X, C)
    <2>1. X.ad.users = S.ad.users
      BY <1>2 DEF SameUsers
    <2>2. kind # "session" => \A j \in DOMAIN OwnClients : X.rest[OwnClients[j]].transport = S.rest[OwnClients[j]].transport
      <3>1. \A j \in DOMAIN OwnClients : OwnClients[j] \in {"main", "inspector"}
        BY DEF OwnClients
      <3> QED
        BY <1>2, <1>5, <3>1 DEF ClientAlike
    <2>3. kind # "session" => X.rest["main"].transport = S.rest["main"].transport
      BY <1>2, <1>5 DEF ClientAlike
    <2>4. \A k \in Closers : C[k].at \in {"drain", "aclose"} =>
              X.rest[C[k].todo].accepting = S.rest[C[k].todo].accepting
      BY <1>5, <1>7 DEF ClosesInOrder, CloseFits, ClientAlike
    <2> QED
      BY <1>7, <2>1, <2>2, <2>3, <2>4 DEF ClosesInOrder, CloseFits
  <1> QED
    BY <1>4, <1>6, <1>7

\* A request that is admitted keeps all in order.
LEMMA AdmitSafe ==
    ASSUME NEW S, NEW t, NEW i, NEW X, Sending(S, t, i, X)
    PROVE  Sound(X, Waiting(X)) /\ \A C : ClosesInOrder(S, C) => ClosesInOrder(X, C)
  <1>1. Sent(S, t, i, X) /\ t \in Tasks
    BY SentFacts DEF Sending
  <1>2. CallsMade(X)
    <2>1. CallsMade(S)
      BY DEF Sending, Sound
    <2>2. Made(X.task[t]) /\ X.task[t].at = "wait" /\ X.task[t].step \in 1..Len(Script(X.task[t].op, X.task[t].scope))
      BY <1>1 DEF Sent, Same
    <2> QED
      BY <1>1, <2>1, <2>2 DEF CallsMade, Sent
  <1>3. /\ ClientsInOrder(X) /\ X.rest["main"].closed = S.rest["main"].closed
        /\ \A C : ClosesInOrder(S, C) => ClosesInOrder(X, C)
    BY SentInOrder
  <1>4. AllUnderway(X, Waiting(X)) /\ Using(X, Waiting(X))
    BY SentUnderway, SentUsing
  <1>5. Tidy(X)
    BY <1>3, SentTidy
  <1>6. Sound(X, Waiting(X))
    BY <1>1, <1>2, <1>3, <1>4, <1>5 DEF Sound, Sent
  <1> QED
    BY <1>3, <1>6
-----------------------------------------------------------------------------
(* Changes that concern no call in W.                                      *)

ClientKept(p, r, W) ==
    /\ r.accepting => p.accepting
    /\ r.active \subseteq p.active /\ \A u \in W : u \in p.active => u \in r.active
    /\ r.httpx = "closed" => p.httpx = "closed" \/ (~r.accepting /\ r.active = {})
    /\ kind # "session" => /\ p.transport = "closed" => r.transport = "closed"
                           /\ p.closed => r.closed
                           /\ r.closed => p.closed \/ r.transport = "closed"

ClientsKept(S, X, W) == \A p \in Clients : ClientKept(S.rest[p], X.rest[p], W)

MarksKept(S, X) ==
    LET a == S.ad  b == X.ad IN
    /\ a.attempted \subseteq b.attempted /\ a.probed \subseteq b.probed
    /\ a.allocAttempted \subseteq b.allocAttempted
    /\ kind # "session" /\ ~X.rest["main"].closed =>
          /\ b.attempted = a.attempted /\ b.probed = a.probed
          /\ kind # "mem0" => b.allocAttempted = a.allocAttempted

BatchesKept(a, b) ==
    /\ b.batch = a.batch /\ b.next = a.next /\ b.completed = a.completed
    /\ \A s \in b.ready : s \in a.ready \/ \A d \in Plan : Settled(a, s, d)

UsersKept(a, b) ==
    /\ a.users \subseteq b.users
    /\ kind = "session" => b.allocated \cup b.planned \cup b.ready \subseteq b.users

CallKept(S, X, u) ==
    LET c == S.task[u]  a == S.ad  b == X.ad IN
    /\ X.task[u] = c
    /\ HoldsLock(a, u, c) => HoldsLock(b, u, c)
    /\ c.op = "allocate" /\ kind \in {"hindsight", "openviking"} =>
          (c.scope \in b.allocAttempted <=> c.scope \in a.allocAttempted)
    /\ c.op = "allocate" /\ kind = "session" => (c.scope \in b.users <=> c.scope \in a.users)

Harmless(S, X, W) ==
    /\ ClientsKept(S, X, W) /\ MarksKept(S, X) /\ BatchesKept(S.ad, X.ad) /\ UsersKept(S.ad, X.ad)
    /\ X.wire.sent = S.wire.sent /\ X.wire.twice = S.wire.twice
    /\ \A u \in W : CallKept(S, X, u)

\* Of the calls in W all that was so is still so.
LEMMA HarmlessUnderway ==
    ASSUME NEW S, NEW X, NEW W, Harmless(S, X, W), AllUnderway(S, W)
    PROVE  AllUnderway(X, W)
  <1>1. ASSUME NEW u \in W PROVE Underway(X, u, X.task[u])
    <2> DEFINE c == S.task[u]
    <2>1. Underway(S, u, c) /\ CallKept(S, X, u) /\ X.task[u] = c
      BY <1>1 DEF AllUnderway, Harmless, CallKept
    <2>2. \A s, d : Settled(X.ad, s, d) <=> Settled(S.ad, s, d)
      BY SMTT(30) DEF Harmless, BatchesKept, Settled
    <2>3. c.op = "ingest" => Ingesting(X, c)
      <3>1. HAVE c.op = "ingest"
      <3>2. Ingesting(S, c)
        BY <2>1, <3>1 DEF Underway
      <3>3. InTurn(X.ad, c)
        BY <2>2, <3>2 DEF Ingesting, InTurn, Harmless, BatchesKept
      <3>4. Key(c) \in X.ad.attempted /\ c.attempt = X.ad.batch[c.scope][c.dispatch]
        BY <3>2 DEF Ingesting, Harmless, BatchesKept, MarksKept
      <3>5. X.wire.sent = S.wire.sent
        BY DEF Harmless
      <3> QED
        BY <3>2, <3>3, <3>4, <3>5 DEF Ingesting
    <2>4. HoldsLock(X.ad, u, c)
      BY <2>1 DEF Underway, CallKept
    <2>5. c.op = "allocate" /\ kind \in {"hindsight", "openviking"} =>
              (c.scope \in X.ad.allocAttempted <=> c.step >= MarkedStep("allocate"))
      BY <2>1 DEF Underway, CallKept
    <2>6. c.op = "ready" => \A d \in Plan : Settled(X.ad, c.scope, d)
      BY <2>1, <2>2 DEF Underway
    <2> QED
      BY <2>1, <2>3, <2>4, <2>5, <2>6 DEF Underway
  <1>2. \A t, u \in W : X.task[t].op = "ingest" /\ X.task[u].op = "ingest"
                        /\ Key(X.task[t]) = Key(X.task[u]) => t = u
    BY DEF AllUnderway, Harmless, CallKept
  <1> QED
    BY <1>1, <1>2 DEF AllUnderway

\* What is recorded of the marks and the batches stays true.
LEMMA HarmlessTidy ==
    ASSUME NEW S, NEW X, NEW W, Harmless(S, X, W), Tidy(S)
    PROVE  Tidy(X)
  <1>1. X.wire.sent = S.wire.sent /\ X.wire.twice = S.wire.twice
    BY DEF Harmless
  <1>2. MarksKept(S, X) /\ BatchesKept(S.ad, X.ad)
    BY DEF Harmless
  <1>3. SentIsMarked(X)
    BY <1>1, <1>2 DEF Tidy, SentIsMarked, MarksKept
  <1>4. MarkedIsSent(X)
    <2>1. kind # "session" /\ ~X.rest["main"].closed => ~S.rest["main"].closed
      BY DEF Harmless, ClientsKept, ClientKept, Clients
    <2>2. MarkedIsSent(S)
      BY DEF Tidy
    <2>3. SUFFICES ASSUME kind # "session", ~X.rest["main"].closed
                   PROVE  /\ \A k \in X.ad.attempted : <<"ingest", k[1], k[2], k[3], 1>> \in X.wire.sent
                          /\ \A s \in X.ad.probed : <<"probe", s, 0, 0, 1>> \in X.wire.sent
                          /\ kind # "mem0" => \A s \in X.ad.allocAttempted :
                                \E j \in 2..3 : <<"allocate", s, 0, 0, j>> \in X.wire.sent
      BY DEF MarkedIsSent
    <2>4. X.ad.attempted = S.ad.attempted /\ X.ad.probed = S.ad.probed
          /\ (kind # "mem0" => X.ad.allocAttempted = S.ad.allocAttempted)
      BY <1>2, <2>3 DEF MarksKept
    <2> QED
      BY <1>1, <2>1, <2>2, <2>3, <2>4 DEF MarkedIsSent
  <1>5. NoneTwice(X)
    BY <1>1 DEF Tidy, NoneTwice
  <1>6. Batches(X)
    <2>1. \A s, d : Settled(X.ad, s, d) <=> Settled(S.ad, s, d)
      BY <1>2 DEF BatchesKept, Settled
    <2>2. Batches(S)
      BY DEF Tidy
    <2> QED
      BY <1>2, <2>1, <2>2 DEF Batches, BatchesKept, MarksKept
  <1> QED
    BY <1>3, <1>4, <1>5, <1>6 DEF Tidy

\* The clients stay in order, and the closes see no difference.
LEMMA HarmlessClients ==
    ASSUME NEW S, NEW X, NEW W, Harmless(S, X, W), Using(S, W), ClientsInOrder(S),
           \A u \in W : ClientOf(S.task[u]) \in Clients
    PROVE  Using(X, W) /\ ClientsInOrder(X) /\ \A C : ClosesInOrder(S, C) => ClosesInOrder(X, C)
  <1>1. ClientsInOrder(X)
    <2>1. ASSUME NEW p \in Clients
          PROVE  /\ X.rest[p].httpx = "closed" => ~X.rest[p].accepting /\ X.rest[p].active = {}
                 /\ kind # "session" /\ X.rest[p].closed => X.rest[p].transport = "closed"
      <3>1. ClientKept(S.rest[p], X.rest[p], W)
        BY <2>1 DEF Harmless, ClientsKept
      <3>2. /\ S.rest[p].httpx = "closed" => ~S.rest[p].accepting /\ S.rest[p].active = {}
            /\ kind # "session" /\ S.rest[p].closed => S.rest[p].transport = "closed"
        BY <2>1 DEF ClientsInOrder
      <3> QED
        BY <3>1, <3>2 DEF ClientKept
    <2> QED
      BY <2>1 DEF ClientsInOrder
  <1>2. Using(X, W)
    <2>1. ASSUME NEW u \in W PROVE u \in X.rest[ClientOf(X.task[u])].active
      <3>1. X.task[u] = S.task[u] /\ u \in S.rest[ClientOf(S.task[u])].active
        BY <2>1 DEF Harmless, CallKept, Using
      <3>2. ClientKept(S.rest[ClientOf(S.task[u])], X.rest[ClientOf(S.task[u])], W)
        BY <2>1 DEF Harmless, ClientsKept
      <3> QED
        BY <2>1, <3>1, <3>2 DEF ClientKept
    <2>2. \A u \in W : CallKept(S, X, u)
      BY DEF Harmless
    <2>3. UsersKept(S.ad, X.ad)
      BY DEF Harmless
    <2>4. ASSUME kind = "session"
          PROVE  /\ \A u \in W : X.task[u].op \notin {"resolve", "allocate"} => X.task[u].scope \in X.ad.users
                 /\ \A u \in W : X.task[u].op = "allocate" =>
                       (X.task[u].scope \in X.ad.users <=> X.task[u].step > SessionIdentity)
                 /\ \A u, v \in W : X.task[u].op = "allocate" /\ X.task[v].op = "allocate"
                                    /\ X.task[u].scope = X.task[v].scope => u = v
                 /\ X.ad.allocated \cup X.ad.planned \cup X.ad.ready \subseteq X.ad.users
      BY <2>2, <2>3, <2>4 DEF Using, CallKept, UsersKept
    <2> QED
      BY <2>1, <2>4 DEF Using
  <1>3. ASSUME NEW C, ClosesInOrder(S, C) PROVE ClosesInOrder(X, C)
    <2>1. S.ad.users \subseteq X.ad.users
      BY DEF Harmless, UsersKept
    <2>2. \A p \in Clients : /\ ~S.rest[p].accepting => ~X.rest[p].accepting
                             /\ kind # "session" /\ S.rest[p].transport = "closed" => X.rest[p].transport = "closed"
      BY DEF Harmless, ClientsKept, ClientKept
    <2>3. \A j \in DOMAIN OwnClients : OwnClients[j] \in Clients
      BY DEF OwnClients, Clients
    <2>4. "main" \in Clients
      BY DEF Clients
    <2> QED
      BY <1>3, <2>1, <2>2, <2>3, <2>4 DEF ClosesInOrder, CloseFits
  <1> QED
    BY <1>1, <1>2, <1>3

\* A change that concerns none of them keeps all in order.
LEMMA HarmlessSafe ==
    ASSUME NEW S, NEW X \in Systems, NEW W \in SUBSET Waiting(S), kind \in Kinds, Sound(S, W),
           Harmless(S, X, W), CallsMade(X)
    PROVE  Sound(X, W) /\ \A C : ClosesInOrder(S, C) => ClosesInOrder(X, C)
  <1>1. \A u \in W : ClientOf(S.task[u]) \in Clients
    <2>1. \A u \in W : Made(S.task[u]) /\ S.task[u].step \in 1..Len(Script(S.task[u].op, S.task[u].scope))
      BY DEF Sound, CallsMade, Waiting
    <2> QED
      BY <2>1, ClientFits
  <1>2. Using(X, W) /\ ClientsInOrder(X) /\ \A C : ClosesInOrder(S, C) => ClosesInOrder(X, C)
    BY <1>1, HarmlessClients DEF Sound
  <1>3. AllUnderway(X, W) /\ Tidy(X)
    BY HarmlessUnderway, HarmlessTidy DEF Sound
  <1> QED
    BY <1>2, <1>3 DEF Sound

\* What is so of the calls in W is so of fewer.
LEMMA SoundOfFewer ==
    ASSUME NEW S, NEW V, NEW W, Sound(S, V), W \subseteq V
    PROVE  Sound(S, W)
  BY DEF Sound, AllUnderway, Using

\* X is as it should be after S.
Fine(S, X) == Sound(X, Waiting(X)) /\ \A C : ClosesInOrder(S, C) => ClosesInOrder(X, C)

\* A call that is over leaves the others alone.
LEMMA LeaveSafe ==
    ASSUME NEW Y, NEW t \in Tasks, NEW X, kind \in Kinds, Sound(Y, Waiting(Y) \ {t}),
           Made(Y.task[t]), HoldsLock(Y.ad, t, Y.task[t]), Leaves(Y, t, Y.ad, Y.rest, X)
    PROVE  Fine(Y, X)
  <1> DEFINE W == Waiting(Y) \ {t}
             c == Y.task[t]
  <1>1. Y \in Systems /\ X \in Systems /\ Y.ad \in Ads /\ Y.task \in [Tasks -> Callings]
    BY SystemFields DEF Sound, Leaves, Callers
  <1>2. X.rest = Y.rest /\ X.ad = LockSet(Y.ad, c, NoOne) /\ X.task = [Y.task EXCEPT ![t] = Idle] /\ X.wire = Y.wire
    BY DEF Leaves
  <1>3. SameMarks(Y.ad, X.ad) /\ SameBatches(Y.ad, X.ad) /\ SameUsers(Y.ad, X.ad)
    BY <1>1, <1>2, LockSetFields
  <1>4. X.task[t] = Idle /\ \A u \in Tasks \ {t} : X.task[u] = Y.task[u]
    BY <1>1, <1>2
  <1>5. Waiting(X) = W
    BY <1>4, IdleCall DEF Waiting
  <1>6. CallsMade(X)
    BY <1>4, IdleCall DEF CallsMade, Sound
  <1>7. ASSUME NEW u \in W PROVE CallKept(Y, X, u)
    <2>1. u \in Tasks /\ u # t /\ Y.task[u].at = "wait"
      BY <1>7 DEF Waiting
    <2>2. Made(Y.task[u])
      BY <2>1 DEF Sound, CallsMade
    <2>3. HoldsLock(Y.ad, u, Y.task[u]) => HoldsLock(X.ad, u, Y.task[u])
      BY <1>1, <1>2, <2>1, <2>2, LocksKept
    <2>4. X.task[u] = Y.task[u]
      BY <1>4, <2>1
    <2> QED
      BY <1>3, <2>3, <2>4 DEF CallKept, SameMarks, SameUsers
  <1>8. Harmless(Y, X, W)
    <2>1. ClientsKept(Y, X, W)
      BY <1>2 DEF ClientsKept, ClientKept
    <2>2. MarksKept(Y, X)
      BY <1>3 DEF MarksKept, SameMarks
    <2>3. BatchesKept(Y.ad, X.ad)
      BY <1>3 DEF BatchesKept, SameBatches
    <2>4. UsersKept(Y.ad, X.ad)
      BY <1>3 DEF UsersKept, SameUsers, SameBatches, Sound, Using
    <2> QED
      BY <1>2, <1>7, <2>1, <2>2, <2>3, <2>4 DEF Harmless
  <1>9. W \in SUBSET Waiting(Y)
    OBVIOUS
  <1>10. Sound(X, W) /\ \A C : ClosesInOrder(Y, C) => ClosesInOrder(X, C)
    <2> HIDE DEF W
    <2>1. Sound(Y, W)
      BY DEF W
    <2> QED
      BY <1>1, <1>6, <1>8, <1>9, <2>1, HarmlessSafe
  <1> QED
    BY <1>5, <1>10 DEF Fine

\* S with another record of the adapter and other clients.
With(S, b, r) == [S EXCEPT !.ad = b, !.rest = r]

Becomes(S, b, r, Y) ==
    Y \in Systems /\ Y.ad = b /\ Y.rest = r /\ Y.task = S.task /\ Y.wire = S.wire

\* It is a state.
LEMMA WithIs ==
    ASSUME NEW S \in Systems, NEW b \in Ads, NEW r \in Rests
    PROVE  Becomes(S, b, r, With(S, b, r)) /\ Waiting(With(S, b, r)) = Waiting(S)
  <1> DEFINE Y == With(S, b, r)
  <1>1. Becomes(S, b, r, Y)
    BY DEF With, Systems, Becomes
  <1> HIDE DEF Y
  <1>2. Waiting(Y) = Waiting(S)
    BY <1>1 DEF Becomes, Waiting
  <1> QED
    BY <1>1, <1>2 DEF Y

\* To leave with b and r is to come to have them, and to leave.
LEMMA LeaveWith ==
    ASSUME NEW S \in Systems, NEW t \in Tasks, NEW b \in Ads, NEW r \in Rests, NEW X, kind \in Kinds,
           Leaves(S, t, b, r, X), Made(S.task[t]), HoldsLock(b, t, S.task[t]),
           Sound(With(S, b, r), Waiting(S) \ {t}),
           \A C : ClosesInOrder(S, C) => ClosesInOrder(With(S, b, r), C)
    PROVE  Fine(S, X)
  <1> DEFINE Y == With(S, b, r)
  <1>1. Becomes(S, b, r, Y) /\ Waiting(Y) = Waiting(S)
    BY WithIs
  <1>2. Sound(Y, Waiting(Y) \ {t}) /\ \A C : ClosesInOrder(S, C) => ClosesInOrder(Y, C)
    BY <1>1
  <1> HIDE DEF Y
  <1>3. Leaves(Y, t, Y.ad, Y.rest, X) /\ Made(Y.task[t]) /\ HoldsLock(Y.ad, t, Y.task[t])
    BY <1>1 DEF Becomes, Leaves
  <1>4. Fine(Y, X)
    BY <1>2, <1>3, LeaveSafe
  <1> QED
    BY <1>2, <1>4 DEF Fine

\* What a refused call has left behind: no mark, but where it is of no use.
LEMMA RefusingFields ==
    ASSUME NEW S, NEW t \in Tasks, NEW i, kind \in Kinds, Sound(S, Waiting(S) \ {t}), Ready(S, t, i),
           VerdictOn(S, t, i) # "admitted"
    PROVE  LET b == Refusing(S, t, i)
               c == S.task[t]
           IN  /\ b \in Ads /\ SameLocks(S.ad, b) /\ SameBatches(S.ad, b) /\ SameUsers(S.ad, b)
               /\ S.ad.attempted \subseteq b.attempted /\ S.ad.probed \subseteq b.probed
               /\ S.ad.allocAttempted \subseteq b.allocAttempted
               /\ c.op # "allocate" => b.allocAttempted = S.ad.allocAttempted
               /\ kind # "session" /\ ~S.rest["main"].closed => SameMarks(S.ad, b)
  <1> DEFINE c == S.task[t]
             e == AtStep(c, i)
             m == MarkedBy(S, t, i)
             b == Refusing(S, t, i)
             q == RequestOf(c, i)
             v == VerdictOn(S, t, i)
  <1>0. S \in Systems /\ Made(c) /\ i \in 1..Len(Script(c.op, c.scope)) /\ c.op \in Ops /\ c.scope \in Scopes
        /\ (c.op = "probe" => kind = "openviking") /\ kind \in {"mem0", "hindsight", "openviking", "session"}
    BY AdaptersAssumption DEF Sound, Ready, Made
  <1>1. RequestFits(c.op, c.scope, i, q) /\ LengthFits(c.op, Len(Script(c.op, c.scope)))
    BY <1>0, ScriptFacts DEF RequestOf
  <1>2. i \in Nat \ {0}
    BY <1>0, <1>1 DEF LengthFits
  <1>3. /\ m \in Ads /\ SameLocks(S.ad, m) /\ SameBatches(S.ad, m) /\ SameUsers(S.ad, m)
        /\ IF i = MarkedStep(c.op) THEN MarkIs(S.ad, m, c) ELSE SameMarks(S.ad, m)
    BY <1>0, <1>2, MarkedByFields
  <1>4. Made(e) /\ Same(c, e)
    BY <1>0, <1>2, StepCall
  <1>5. CASE i # MarkedStep(c.op)
    <2>1. b = m /\ SameMarks(S.ad, m)
      BY <1>3, <1>5 DEF Refusing
    <2> QED
      BY <1>3, <2>1 DEF SameMarks
  <1>6. CASE i = MarkedStep(c.op) /\ (v # "before_dispatch" \/ kind = "session")
    <2>1. b = m
      BY <1>6 DEF Refusing, Unmark
    <2>2. MarkIs(S.ad, m, c)
      BY <1>3, <1>6
    <2>3. kind # "session" => S.rest["main"].closed
      <3>1. HAVE kind # "session"
      <3>2. c.op \in {"ingest", "probe", "allocate"}
        BY <1>0, <1>2, <1>6, MarkedOps
      <3>3. q.write /\ q.client = "main"
        <4>1. q.write
          BY SMTT(60), <1>0, <1>1, <1>6, <3>1, <3>2 DEF RequestFits, MarkedStep
        <4>2. kind # "session" => (q.write => q.client = "main")
          BY <1>1 DEF RequestFits
        <4> QED
          BY SMTT(30), <3>1, <4>1, <4>2
      <3>4. OpenedBy(S, t, i) = S.rest
        BY <3>1 DEF OpenedBy, IsFresh
      <3>5. v = Admission(S.rest["main"], TRUE)
        <4>1. q.write = TRUE
          BY <1>1, <3>3 DEF RequestFits
        <4> QED
          BY <3>3, <3>4, <4>1 DEF VerdictOn
      <3> QED
        BY <1>6, <3>1, <3>5 DEF Admission, Refusal
    <2> QED
      BY <1>3, <2>1, <2>2, <2>3, MarksGrow DEF MarkIs
  <1>7. CASE i = MarkedStep(c.op) /\ v = "before_dispatch" /\ kind # "session"
    <2>1. c.op \in {"ingest", "probe", "allocate"} /\ (c.op \in {"ingest", "probe"} => i = 1)
      BY <1>0, <1>2, <1>7, MarkedOps
    <2>2. e.op \in {"ingest", "probe", "allocate"}
      BY <1>4, <2>1 DEF Same
    <2>3. b = Unmark(m, e)
      BY <1>7 DEF Refusing
    <2>4. b \in Ads /\ UnmarkIs(m, b, e) /\ SameLocks(m, b) /\ SameBatches(m, b) /\ SameUsers(m, b)
      BY <1>3, <1>4, <1>7, <2>2, <2>3, UnmarkFields
    <2>5. UnmarkIs(m, b, c)
      BY <1>4, <2>4 DEF UnmarkIs, Same
    <2>6. MarkIs(S.ad, m, c)
      BY SMTT(30), <1>3, <1>7
    <2>7. c.op = "ingest" => Key(c) \notin S.ad.attempted
      BY <1>2, <2>1 DEF Ready
    <2>8. c.op = "probe" => c.scope \notin S.ad.probed
      BY DEF Ready
    <2>9. c.op = "allocate" => c.scope \notin S.ad.allocAttempted
      <3>1. HAVE c.op = "allocate"
      <3>2. kind \in {"hindsight", "openviking"} /\ i = MarkedStep("allocate")
        BY <1>0, <1>2, <1>7, <3>1 DEF MarkedStep
      <3>3. c.scope \in S.ad.allocAttempted <=> i > MarkedStep("allocate")
        BY <3>1, <3>2 DEF Ready
      <3> QED
        BY <1>2, <3>2, <3>3
    <2>10. b.attempted = S.ad.attempted
      BY <2>5, <2>6, <2>7 DEF MarkIs, UnmarkIs
    <2>11. b.probed = S.ad.probed
      BY <2>5, <2>6, <2>8 DEF MarkIs, UnmarkIs
    <2>12. b.allocAttempted = S.ad.allocAttempted
      BY <2>5, <2>6, <2>9 DEF MarkIs, UnmarkIs
    <2>13. SameLocks(S.ad, b) /\ SameBatches(S.ad, b) /\ SameUsers(S.ad, b)
      BY <1>3, <2>4 DEF SameLocks, SameBatches, SameUsers
    <2> QED
      BY <2>4, <2>10, <2>11, <2>12, <2>13 DEF SameMarks
  <1> QED
    BY <1>5, <1>6, <1>7

\* A call that is refused leaves all in order.
LEMMA RefuseSafe ==
    ASSUME NEW S, NEW t \in Tasks, NEW i, NEW X, kind \in Kinds, Sound(S, Waiting(S) \ {t}), Ready(S, t, i),
           VerdictOn(S, t, i) # "admitted", Leaves(S, t, Refusing(S, t, i), S.rest, X)
    PROVE  Fine(S, X)
  <1> DEFINE b == Refusing(S, t, i)
             c == S.task[t]
             W == Waiting(S) \ {t}
             Y == With(S, b, S.rest)
  <1>1. /\ b \in Ads /\ SameLocks(S.ad, b) /\ SameBatches(S.ad, b) /\ SameUsers(S.ad, b)
        /\ S.ad.attempted \subseteq b.attempted /\ S.ad.probed \subseteq b.probed
        /\ S.ad.allocAttempted \subseteq b.allocAttempted
        /\ c.op # "allocate" => b.allocAttempted = S.ad.allocAttempted
        /\ kind # "session" /\ ~S.rest["main"].closed => SameMarks(S.ad, b)
    BY RefusingFields
  <1>2. S \in Systems /\ S.rest \in Rests /\ Sound(S, W) /\ Made(c) /\ HoldsLock(S.ad, t, c) /\ W \in SUBSET Waiting(S)
    BY SystemFields DEF Sound, Ready
  <1>3. Leaves(S, t, b, S.rest, X)
    OBVIOUS
  <1> HIDE DEF b
  <1>4. Becomes(S, b, S.rest, Y)
    BY <1>1, <1>2, WithIs
  <1> HIDE DEF Y
  <1>5. \A u \in W : CallKept(S, Y, u)
    <2>1. ASSUME NEW u \in W, S.task[u].op = "allocate", kind \in {"hindsight", "openviking"}
          PROVE  c.op # "allocate"
      <3>1. HoldsLock(S.ad, u, S.task[u]) /\ u # t
        BY <1>2, <2>1 DEF Sound, AllUnderway, Underway
      <3>2. LockOf(S.task[u]) = "alloc" /\ (c.op = "allocate" => LockOf(c) = "alloc")
        BY <2>1 DEF LockOf
      <3> QED
        BY <1>2, <3>1, <3>2, LocksExclude
    <2> QED
      BY <1>1, <1>4, <2>1 DEF CallKept, Becomes, SameLocks, SameUsers, HoldsLock
  <1>6. Harmless(S, Y, W)
    <2>1. ClientsKept(S, Y, W)
      BY <1>4 DEF ClientsKept, ClientKept, Becomes
    <2>2. MarksKept(S, Y)
      BY <1>1, <1>4 DEF MarksKept, SameMarks, Becomes
    <2>3. BatchesKept(S.ad, Y.ad)
      BY <1>1, <1>4 DEF BatchesKept, SameBatches, Becomes
    <2>4. UsersKept(S.ad, Y.ad)
      BY <1>1, <1>2, <1>4 DEF UsersKept, SameUsers, SameBatches, Sound, Using, Becomes
    <2> QED
      BY <1>4, <1>5, <2>1, <2>2, <2>3, <2>4 DEF Harmless, Becomes
  <1>7. CallsMade(Y)
    BY <1>2, <1>4 DEF CallsMade, Sound, Becomes
  <1>8. Sound(Y, W) /\ \A C : ClosesInOrder(S, C) => ClosesInOrder(Y, C)
    <2> HIDE DEF W
    <2> QED
      BY <1>2, <1>4, <1>6, <1>7, HarmlessSafe DEF Becomes
  <1>9. HoldsLock(b, t, c)
    BY <1>1, <1>2 DEF SameLocks, HoldsLock
  <1> QED
    BY <1>1, <1>2, <1>3, <1>8, <1>9, LeaveWith DEF Y

\* A call that may send its next request does no harm.
LEMMA SendSafe ==
    ASSUME NEW S, NEW t \in Tasks, NEW i, kind \in Kinds, Sound(S, Waiting(S) \ {t}), Ready(S, t, i)
    PROVE  Fine(S, Send(S, t, i))
  <1> DEFINE X == Send(S, t, i)
  <1>1. S \in Systems /\ Made(S.task[t]) /\ i \in 1..Len(Script(S.task[t].op, S.task[t].scope))
    BY DEF Sound, Ready
  <1>2. /\ VerdictOn(S, t, i) = "admitted" => Admits(S, t, i, X)
        /\ VerdictOn(S, t, i) # "admitted" => Leaves(S, t, Refusing(S, t, i), S.rest, X)
    BY <1>1, SendIs
  <1> HIDE DEF X
  <1>3. CASE VerdictOn(S, t, i) = "admitted"
    <2>1. Sending(S, t, i, X)
      BY <1>2, <1>3 DEF Sending
    <2> QED
      BY <2>1, AdmitSafe DEF Fine, X
  <1>4. CASE VerdictOn(S, t, i) # "admitted"
    BY <1>2, <1>4, RefuseSafe DEF X
  <1> QED
    BY <1>3, <1>4
-----------------------------------------------------------------------------
(* A batch is accepted, or settled as failed.                              *)

Moves(a, b, c, settled) ==
    /\ SameMarks(a, b) /\ SameLocks(a, b) /\ SameUsers(a, b) /\ b.ready = a.ready
    /\ \A s \in Scopes, d \in Plan : s # c.scope \/ d # c.dispatch =>
          /\ b.batch[s][d] = a.batch[s][d]
          /\ <<s, d>> \in b.completed <=> <<s, d>> \in a.completed
    /\ <<c.scope, c.dispatch>> \in b.completed => b.batch[c.scope][c.dispatch] = 0
    /\ settled \in BOOLEAN /\ (Settled(b, c.scope, c.dispatch) <=> settled)
    /\ \A s \in Scopes : b.next[s] = IF s = c.scope /\ kind = "mem0" /\ settled
                                     THEN a.next[s] + 1 ELSE a.next[s]

\* The ingestion of t is under way, and no other call of W is the same.
Alone(S, t, W) ==
    LET c == S.task[t] IN
    /\ t \in Tasks /\ W \subseteq Waiting(S) \ {t}
    /\ Made(c) /\ c.op = "ingest" /\ Ingesting(S, c) /\ HoldsLock(S.ad, t, c)
    /\ \A u \in W : S.task[u].op = "ingest" => Key(S.task[u]) # Key(c)

MovedOn(a, b, c, settled) ==
    /\ ~Settled(a, c.scope, c.dispatch) /\ c.scope \in Scopes /\ c.dispatch \in Plan
    /\ \A s \in Scopes, d \in Plan :
          Settled(b, s, d) <=> \/ Settled(a, s, d)
                               \/ s = c.scope /\ d = c.dispatch /\ settled

\* The batch had not been settled; what else was settled stays so.
LEMMA MovesSettled ==
    ASSUME NEW S, NEW t, NEW W, NEW b, NEW settled, Sound(S, W), Alone(S, t, W),
           Moves(S.ad, b, S.task[t], settled)
    PROVE  MovedOn(S.ad, b, S.task[t], settled)
  <1> DEFINE c == S.task[t]
  <1>1. c.scope \in Scopes /\ c.dispatch \in Plan /\ c.attempt \in 1..MaxBatchAttempt
    BY DEF Alone, Made
  <1>2. c.attempt = S.ad.batch[c.scope][c.dispatch]
    BY DEF Alone, Ingesting
  <1>3. <<c.scope, c.dispatch>> \in S.ad.completed => S.ad.batch[c.scope][c.dispatch] = 0
    <2>1. Batches(S)
      BY DEF Sound, Tidy
    <2> QED
      BY SMTT(30), <1>1, <2>1 DEF Batches
  <1>4. ~Settled(S.ad, c.scope, c.dispatch)
    BY <1>1, <1>2, <1>3, AdaptersAssumption DEF Settled
  <1>5. ASSUME NEW s \in Scopes, NEW d \in Plan, s # c.scope \/ d # c.dispatch
        PROVE  Settled(b, s, d) <=> Settled(S.ad, s, d)
    BY <1>5 DEF Moves, Settled
  <1>6. Settled(b, c.scope, c.dispatch) <=> settled
    BY DEF Moves
  <1> QED
    BY <1>1, <1>4, <1>5, <1>6 DEF MovedOn

\* Another call that is ingesting is at another batch, of another scope where the
\* sources go in turn.
LEMMA OtherBatch ==
    ASSUME NEW S, NEW t, NEW W, kind \in Kinds, Sound(S, W), Alone(S, t, W),
           NEW u \in W, S.task[u].op = "ingest"
    PROVE  LET c == S.task[t]
               e == S.task[u]
           IN  /\ e.scope \in Scopes /\ e.dispatch \in Plan
               /\ e.scope # c.scope \/ e.dispatch # c.dispatch
               /\ kind \in {"mem0", "session"} => e.scope # c.scope
  <1> DEFINE c == S.task[t]
             e == S.task[u]
  <1>1. u \in Tasks /\ u # t /\ Made(e)
    BY DEF Alone, Sound, CallsMade, Waiting
  <1>2. e.scope \in Scopes /\ e.dispatch \in Plan /\ c.scope \in Scopes /\ c.dispatch \in Plan
    BY <1>1 DEF Made, Alone
  <1>3. HoldsLock(S.ad, u, e) /\ Ingesting(S, e)
    BY DEF Sound, AllUnderway, Underway
  <1>4. HoldsLock(S.ad, t, c) /\ Ingesting(S, c) /\ c.op = "ingest" /\ Key(e) # Key(c)
    BY SMTT(30) DEF Alone
  <1>5. e.scope # c.scope \/ e.dispatch # c.dispatch
    BY <1>3, <1>4 DEF Ingesting, Key
  <1>6. kind = "mem0" => e.scope # c.scope
    <2>1. HAVE kind = "mem0"
    <2>2. LockOf(c) = "plan" /\ LockOf(e) = "plan"
      BY <1>4, <2>1 DEF LockOf
    <2> QED
      BY <1>1, <1>3, <1>4, <2>2, LocksExclude
  <1>7. kind = "session" => e.scope # c.scope
    <2> HIDE DEF c, e
    <2>1. SUFFICES ASSUME kind = "session", e.scope = c.scope PROVE FALSE
      BY SMTT(30)
    <2> USE DEF c, e
    <2>2. /\ \A d \in Plan : Settled(S.ad, c.scope, d) <=> d < c.dispatch
          /\ \A d \in Plan : Settled(S.ad, c.scope, d) <=> d < e.dispatch
      BY <1>3, <1>4, <2>1 DEF Ingesting, InTurn
    <2>3. c.dispatch < e.dispatch \/ e.dispatch < c.dispatch
      BY <1>2, <1>5, <2>1, PlanFacts
    <2>4. ~(c.dispatch < c.dispatch) /\ ~(e.dispatch < e.dispatch)
      BY <1>2, PlanFacts
    <2> HIDE DEF c, e
    <2> QED
      BY <1>2, <2>2, <2>3, <2>4
  <1> QED
    BY <1>2, <1>5, <1>6, <1>7

\* The other calls are where they were.
LEMMA MovesUnderway ==
    ASSUME NEW S, NEW t, NEW W, NEW X, NEW settled, kind \in Kinds, Sound(S, W), Alone(S, t, W),
           Moves(S.ad, X.ad, S.task[t], settled), X.task = S.task, X.wire = S.wire
    PROVE  AllUnderway(X, W)
  <1> DEFINE c == S.task[t]
  <1>0. /\ c.scope \in Scopes /\ c.dispatch \in Plan
        /\ \A s \in Scopes, d \in Plan :
              Settled(X.ad, s, d) <=> \/ Settled(S.ad, s, d)
                                      \/ s = c.scope /\ d = c.dispatch /\ settled
    <2>1. MovedOn(S.ad, X.ad, c, settled)
      BY MovesSettled
    <2> QED
      BY <2>1 DEF MovedOn
  <1>1. ASSUME NEW u \in W PROVE Underway(X, u, X.task[u])
    <2> DEFINE e == S.task[u]
    <2>0. Underway(S, u, e) /\ X.task[u] = e
      BY <1>1 DEF Sound, AllUnderway
    <2>1. Made(e)
      BY <1>1 DEF Sound, CallsMade, Alone, Waiting
    <2>2. HoldsLock(X.ad, u, e)
      BY SMTT(30), <2>0 DEF Underway, HoldsLock, Moves, SameLocks
    <2>3. e.op = "ingest" => Ingesting(X, e)
      <3>1. HAVE e.op = "ingest"
      <3>2. /\ e.scope \in Scopes /\ e.dispatch \in Plan
            /\ e.scope # c.scope \/ e.dispatch # c.dispatch
            /\ kind \in {"mem0", "session"} => e.scope # c.scope
        BY <1>1, <3>1, OtherBatch
      <3>3. Ingesting(S, e)
        BY <2>0, <3>1 DEF Underway
      <3>4. Key(e) \in X.ad.attempted
        <4>1. X.ad.attempted = S.ad.attempted
          BY SMTT(30) DEF Moves, SameMarks
        <4> QED
          BY <3>3, <4>1 DEF Ingesting
      <3>5. e.attempt = X.ad.batch[e.scope][e.dispatch]
        BY <3>2, <3>3 DEF Ingesting, Moves
      <3>6. InTurn(X.ad, e)
        <4>1. kind = "mem0" => e.dispatch = X.ad.next[e.scope]
          BY <3>2, <3>3 DEF Ingesting, InTurn, Moves
        <4>2. kind = "session" => \A d \in Plan : Settled(X.ad, e.scope, d) <=> d < e.dispatch
          BY <1>0, <3>2, <3>3 DEF Ingesting, InTurn
        <4> QED
          BY <4>1, <4>2 DEF InTurn
      <3> QED
        BY <3>3, <3>4, <3>5, <3>6 DEF Ingesting
    <2>4. e.op = "allocate" /\ kind \in {"hindsight", "openviking"} =>
              (e.scope \in X.ad.allocAttempted <=> e.step >= MarkedStep("allocate"))
      BY <2>0 DEF Underway, Moves, SameMarks
    <2>5. e.op = "ready" => \A d \in Plan : Settled(X.ad, e.scope, d)
      BY <1>0, <2>0, <2>1 DEF Underway, Made
    <2> QED
      BY <2>0, <2>2, <2>3, <2>4, <2>5 DEF Underway
  <1> QED
    BY <1>1 DEF AllUnderway, Sound

\* The batches of a plan are still settled from the first on.
LEMMA MovesBatches ==
    ASSUME NEW S, NEW t, NEW W, NEW X, NEW settled, kind \in Kinds, Sound(S, W), Alone(S, t, W),
           Moves(S.ad, X.ad, S.task[t], settled), X \in Systems
    PROVE  Batches(X)
  <1> DEFINE c == S.task[t]
  <1>0. /\ c.scope \in Scopes /\ c.dispatch \in Plan
        /\ \A s \in Scopes, d \in Plan :
              Settled(X.ad, s, d) <=> \/ Settled(S.ad, s, d)
                                      \/ s = c.scope /\ d = c.dispatch /\ settled
    <2>1. MovedOn(S.ad, X.ad, c, settled)
      BY MovesSettled
    <2> QED
      BY <2>1 DEF MovedOn
  <1>1. Batches(S)
    BY DEF Sound, Tidy
  <1>2. S.ad \in Ads /\ Ingesting(S, c) /\ InTurn(S.ad, c)
    BY SystemFields DEF Sound, Alone, Ingesting
  <1>3. \A s \in Scopes, d \in Plan : <<s, d>> \in X.ad.completed => X.ad.batch[s][d] = 0
    BY <1>1 DEF Batches, Moves
  <1>4. kind = "openviking" => \A s \in Scopes, d \in Plan :
            (\A k \in X.ad.attempted : k[1] # s) => X.ad.batch[s][d] = 1
    <2>1. SUFFICES ASSUME kind = "openviking", NEW s \in Scopes, NEW d \in Plan,
                          \A k \in X.ad.attempted : k[1] # s
                   PROVE  X.ad.batch[s][d] = 1
      OBVIOUS
    <2>2. X.ad.attempted = S.ad.attempted
      BY DEF Moves, SameMarks
    <2>3. s # c.scope
      <3>1. Key(c) \in X.ad.attempted
        BY <1>2, <2>2 DEF Ingesting
      <3>2. Key(c)[1] = c.scope
        BY DEF Key
      <3> QED
        BY <2>1, <3>1, <3>2
    <2>4. X.ad.batch[s][d] = S.ad.batch[s][d]
      BY <2>1, <2>3 DEF Moves
    <2>5. S.ad.batch[s][d] = 1
      BY <1>1, <2>1, <2>2 DEF Batches
    <2> QED
      BY <2>4, <2>5
  <1>5. kind = "mem0" => \A s \in Scopes, d \in Plan : d < X.ad.next[s] => Settled(X.ad, s, d)
    <2>1. SUFFICES ASSUME kind = "mem0", NEW s \in Scopes, NEW d \in Plan, d < X.ad.next[s]
                   PROVE  Settled(X.ad, s, d)
      OBVIOUS
    <2>2. d \in Nat /\ S.ad.next[s] \in Nat
      BY <1>2, PlanFacts DEF Ads, Turns
    <2>3. CASE s = c.scope /\ settled
      <3>1. X.ad.next[s] = S.ad.next[s] + 1 /\ S.ad.next[s] = c.dispatch
        BY <1>0, <1>2, <2>1, <2>3 DEF Moves, InTurn
      <3>2. d < S.ad.next[s] \/ d = c.dispatch
        BY <2>1, <2>2, <3>1
      <3> QED
        BY <1>0, <1>1, <2>1, <2>3, <3>2 DEF Batches
    <2>4. CASE ~(s = c.scope /\ settled)
      <3>1. X.ad.next[s] = S.ad.next[s]
        BY <2>4 DEF Moves
      <3> QED
        BY <1>0, <1>1, <2>1, <3>1 DEF Batches
    <2> QED
      BY <2>3, <2>4
  <1>6. kind = "session" => \A s \in Scopes : \E n \in Plan \cup {Sources + 1} :
            \A d \in Plan : Settled(X.ad, s, d) <=> d < n
    <2>1. SUFFICES ASSUME kind = "session", NEW s \in Scopes
                   PROVE  \E n \in Plan \cup {Sources + 1} : \A d \in Plan : Settled(X.ad, s, d) <=> d < n
      OBVIOUS
    <2>2. CASE s # c.scope \/ ~settled
      <3>1. \A d \in Plan : Settled(X.ad, s, d) <=> Settled(S.ad, s, d)
        BY <1>0, <2>2
      <3> QED
        BY <1>1, <2>1, <3>1 DEF Batches
    <2>3. CASE s = c.scope /\ settled
      <3>1. Plan = 1..Sources /\ c.dispatch \in Nat
        BY <1>0, <2>1, PlanFacts
      <3>2. c.dispatch + 1 \in Plan \cup {Sources + 1}
        BY <1>0, <3>1, AdaptersAssumption
      <3>3. \A d \in Plan : Settled(X.ad, s, d) <=> d < c.dispatch \/ d = c.dispatch
        BY <1>0, <1>2, <2>1, <2>3 DEF InTurn
      <3>4. \A d \in Plan : d < c.dispatch + 1 <=> d < c.dispatch \/ d = c.dispatch
        BY <3>1
      <3>5. \A d \in Plan : Settled(X.ad, s, d) <=> d < c.dispatch + 1
        BY <3>3, <3>4
      <3> QED
        BY <3>2, <3>5
    <2> QED
      BY <2>2, <2>3
  <1>7. \A s \in X.ad.ready, d \in Plan : Settled(X.ad, s, d)
    <2>1. X.ad.ready = S.ad.ready /\ S.ad.ready \subseteq Scopes
      BY <1>2 DEF Moves, Ads, ScopeSets
    <2> QED
      BY <1>0, <1>1, <2>1 DEF Batches
  <1> QED
    BY <1>3, <1>4, <1>5, <1>6, <1>7 DEF Batches

\* A batch that ends keeps all in order.
LEMMA MovesSafe ==
    ASSUME NEW S, NEW t, NEW W, NEW X, NEW b, NEW settled, kind \in Kinds, Sound(S, W), Alone(S, t, W),
           Moves(S.ad, b, S.task[t], settled), Becomes(S, b, S.rest, X)
    PROVE  Sound(X, W) /\ \A C : ClosesInOrder(S, C) => ClosesInOrder(X, C)
  <1>1. X \in Systems /\ X.ad = b /\ X.rest = S.rest /\ X.task = S.task /\ X.wire = S.wire
    BY DEF Becomes
  <1>2. Moves(S.ad, X.ad, S.task[t], settled) /\ SameMarks(S.ad, X.ad) /\ SameUsers(S.ad, X.ad)
        /\ X.ad.ready = S.ad.ready
    BY <1>1 DEF Moves
  <1>3. AllUnderway(X, W)
    BY <1>1, <1>2, MovesUnderway
  <1>4. Batches(X)
    BY <1>1, <1>2, MovesBatches
  <1>5. Tidy(X)
    BY <1>1, <1>2, <1>4 DEF Sound, Tidy, SentIsMarked, MarkedIsSent, NoneTwice, SameMarks
  <1>6. Using(X, W)
    BY <1>1, <1>2 DEF Sound, Using, SameUsers
  <1>7. ClientsInOrder(X) /\ CallsMade(X)
    BY <1>1 DEF Sound, ClientsInOrder, CallsMade
  <1>8. ASSUME NEW C, ClosesInOrder(S, C) PROVE ClosesInOrder(X, C)
    BY <1>1, <1>2, <1>8 DEF ClosesInOrder, CloseFits, SameUsers
  <1> QED
    BY <1>1, <1>3, <1>5, <1>6, <1>7, <1>8 DEF Sound
-----------------------------------------------------------------------------
(* A request ends.                                                         *)

\* What a call has between an answer and its next step.
Held(S, t) ==
    LET c == S.task[t]
        W == Waiting(S) \ {t}
    IN  /\ t \in Tasks /\ Made(c) /\ c.step \in 1..Len(Script(c.op, c.scope)) /\ Underway(S, t, c)
        /\ c.op = "ingest" => \A u \in W : S.task[u].op = "ingest" => Key(S.task[u]) # Key(c)
        /\ kind = "session" =>
              /\ c.op \notin {"resolve", "allocate"} => c.scope \in S.ad.users
              /\ c.op = "allocate" =>
                    /\ c.scope \in S.ad.users <=> c.step > SessionIdentity
                    /\ \A u \in W : S.task[u].op = "allocate" => S.task[u].scope # c.scope

\* A call that waits has it.
LEMMA HeldNow ==
    ASSUME NEW S, Sound(S, Waiting(S)), NEW t \in Waiting(S)
    PROVE  Held(S, t)
  <1> DEFINE c == S.task[t]
             W == Waiting(S) \ {t}
  <1>1. t \in Tasks /\ c.at = "wait"
    BY DEF Waiting
  <1>2. Made(c) /\ c.step \in 1..Len(Script(c.op, c.scope))
    BY <1>1 DEF Sound, CallsMade
  <1>3. Underway(S, t, c)
    BY DEF Sound, AllUnderway
  <1>4. c.op = "ingest" => \A u \in W : S.task[u].op = "ingest" => Key(S.task[u]) # Key(c)
    BY DEF Sound, AllUnderway
  <1>5. kind = "session" =>
              /\ c.op \notin {"resolve", "allocate"} => c.scope \in S.ad.users
              /\ c.op = "allocate" =>
                    /\ c.scope \in S.ad.users <=> c.step > SessionIdentity
                    /\ \A u \in W : S.task[u].op = "allocate" => S.task[u].scope # c.scope
    <2>1. Using(S, Waiting(S))
      BY DEF Sound
    <2> HIDE DEF c
    <2> QED
      BY <2>1 DEF Using, c
  <1> HIDE DEF c, W
  <1> QED
    BY <1>1, <1>2, <1>3, <1>4, <1>5 DEF Held, c, W

\* The call keeps it as long as what it depends on stays.
LEMMA HeldStill ==
    ASSUME NEW S, NEW X, NEW t, Held(S, t), X.task = S.task, X.ad = S.ad, X.wire.sent = S.wire.sent
    PROVE  Held(X, t)
  <1>1. Waiting(X) = Waiting(S)
    BY DEF Waiting
  <1>2. Underway(X, t, S.task[t])
    BY DEF Held, Underway, Ingesting
  <1> QED
    BY <1>1, <1>2 DEF Held

\* The client lets go of the request of t; what the provider holds may change.
LetsGo(S, t, p, R) ==
    /\ R \in Systems /\ R.ad = S.ad /\ R.task = S.task
    /\ R.rest = [S.rest EXCEPT ![p] = Released(S.rest[p], t)]
    /\ R.wire.sent = S.wire.sent /\ R.wire.twice = S.wire.twice

\* Then t is no longer among those of which the invariant speaks.
LEMMA ReleaseSafe ==
    ASSUME NEW S, NEW t \in Waiting(S), NEW p \in Clients, NEW R, kind \in Kinds, Sound(S, Waiting(S)),
           LetsGo(S, t, p, R)
    PROVE  /\ Sound(R, Waiting(R) \ {t}) /\ Held(R, t) /\ Waiting(R) = Waiting(S)
           /\ \A C : ClosesInOrder(S, C) => ClosesInOrder(R, C)
  <1> DEFINE W == Waiting(S) \ {t}
  <1>1. S \in Systems /\ S.rest \in [Clients -> Transports] /\ R \in Systems
    BY SystemFields DEF Sound, LetsGo, Rests
  <1>2. /\ R.ad = S.ad /\ R.task = S.task /\ R.wire.sent = S.wire.sent /\ R.wire.twice = S.wire.twice
        /\ R.rest = [S.rest EXCEPT ![p] = Released(S.rest[p], t)]
    BY DEF LetsGo
  <1>3. Waiting(R) = Waiting(S)
    BY <1>2 DEF Waiting
  <1>4. Held(R, t)
    BY <1>2, HeldNow, HeldStill
  <1>5. ClientsKept(S, R, W)
    <2>1. ASSUME NEW x \in Clients PROVE ClientKept(S.rest[x], R.rest[x], W)
      <3>1. CASE x # p
        <4>1. R.rest[x] = S.rest[x]
          BY <1>1, <1>2, <3>1
        <4> QED
          BY <4>1 DEF ClientKept
      <3>2. CASE x = p
        <4>1. R.rest[x] = [S.rest[x] EXCEPT !.active = S.rest[x].active \ {t}] /\ S.rest[x] \in Transports
          BY <1>1, <1>2, <3>2 DEF Released
        <4>2. /\ ClientAlike(S.rest[x], R.rest[x])
              /\ R.rest[x].active = S.rest[x].active \ {t}
          BY <4>1 DEF ClientAlike, Transports
        <4> QED
          BY <4>2 DEF ClientKept, ClientAlike
      <3> QED
        BY <3>1, <3>2
    <2> QED
      BY <2>1 DEF ClientsKept
  <1>6. Harmless(S, R, W)
    <2>1. MarksKept(S, R)
      BY <1>2 DEF MarksKept
    <2>2. BatchesKept(S.ad, R.ad)
      BY <1>2 DEF BatchesKept
    <2>3. UsersKept(S.ad, R.ad)
      BY <1>2 DEF UsersKept, Sound, Using
    <2>4. \A u \in W : CallKept(S, R, u)
      BY <1>2 DEF CallKept
    <2> QED
      BY <1>2, <1>5, <2>1, <2>2, <2>3, <2>4 DEF Harmless
  <1>7. Sound(S, W) /\ W \in SUBSET Waiting(S)
    <2>1. W \subseteq Waiting(S)
      OBVIOUS
    <2> HIDE DEF W
    <2> QED
      BY <2>1, SoundOfFewer
  <1>8. CallsMade(R)
    BY <1>2 DEF Sound, CallsMade
  <1> HIDE DEF W
  <1>9. Sound(R, W) /\ \A C : ClosesInOrder(S, C) => ClosesInOrder(R, C)
    BY SMTT(30), <1>1, <1>6, <1>7, <1>8, HarmlessSafe
  <1> QED
    BY <1>3, <1>4, <1>9 DEF W

\* Request i may follow the one at which c is.
Follows(c, i) ==
    /\ i \in 1..Len(Script(c.op, c.scope))
    /\ \/ i = c.step + 1
       \/ c.op = "allocate" /\ kind = "session"
       \/ i = c.step /\ c.op = "ingest" /\ kind = "session" /\ i = SessionPoll

\* B is R with perhaps another user.
Binds(R, t, i, B) ==
    LET c == R.task[t] IN
    /\ B.task = R.task /\ B.wire.sent = R.wire.sent
    /\ SameLocks(R.ad, B.ad) /\ SameMarks(R.ad, B.ad) /\ SameBatches(R.ad, B.ad)
    /\ R.ad.users \subseteq B.ad.users
    /\ kind = "session" /\ c.op = "allocate" => (c.scope \in B.ad.users <=> i > SessionIdentity)

\* What t has of its ingestion lets the next request be sent.
LEMMA NextIngest ==
    ASSUME NEW S \in Systems, NEW t, NEW i, kind \in Kinds, Held(S, t), Follows(S.task[t], i),
           S.task[t].op = "ingest"
    PROVE  LET c == S.task[t] IN
           /\ Key(c) \in S.ad.attempted /\ i > 1
           /\ c.attempt = S.ad.batch[c.scope][c.dispatch]
           /\ \A w \in S.wire.sent : w[1] = "ingest" /\ <<w[2], w[3], w[4]>> = Key(c) =>
                 w[5] <= i /\ (Script(c.op, c.scope)[i].write => w[5] < i)
           /\ InTurn(S.ad, c)
           /\ \A u \in Waiting(S) \ {t} : S.task[u].op = "ingest" => Key(S.task[u]) # Key(c)
  <1> DEFINE c == S.task[t]
             W == Waiting(S) \ {t}
  <1>0. /\ i \in 1..Len(Script(c.op, c.scope))
        /\ i = c.step + 1 \/ (i = c.step /\ kind = "session" /\ i = SessionPoll)
    BY DEF Follows
  <1>1. Made(c) /\ c.step \in 1..Len(Script(c.op, c.scope)) /\ Underway(S, t, c)
        /\ c.op \in Ops /\ c.scope \in Scopes /\ (c.op = "probe" => kind = "openviking")
    BY DEF Held, Made
  <1>2. LengthFits(c.op, Len(Script(c.op, c.scope))) /\ RequestFits(c.op, c.scope, i, Script(c.op, c.scope)[i])
    BY <1>0, <1>1, ScriptFacts
  <1>3. Len(Script(c.op, c.scope)) \in Nat
    BY <1>2 DEF LengthFits
  <1>4. i \in Nat \ {0} /\ c.step \in Nat \ {0}
    <2> HIDE DEF c
    <2> QED
      BY <1>0, <1>1, <1>3
  <1>5. Ingesting(S, c)
    BY <1>1 DEF Underway
  <1>6. i > 1
    BY <1>0, <1>4 DEF SessionPoll
  <1>7. c.step <= i /\ (Script(c.op, c.scope)[i].write => c.step < i)
    <2>1. CASE i = c.step + 1
      BY <1>4, <2>1
    <2>2. CASE i = c.step /\ kind = "session" /\ i = SessionPoll
      <3>1. ~Script(c.op, c.scope)[i].write
        BY <1>2, <2>2 DEF RequestFits, SessionPoll
      <3> QED
        BY <1>4, <2>2, <3>1
    <2> QED
      BY <1>0, <2>1, <2>2
  <1>8. ASSUME NEW w \in S.wire.sent, w[1] = "ingest", <<w[2], w[3], w[4]>> = Key(c)
        PROVE  w[5] <= i /\ (Script(c.op, c.scope)[i].write => w[5] < i)
    <2>1. w[5] <= c.step
      BY <1>5, <1>8 DEF Ingesting
    <2>2. w[5] \in Nat
      <3>1. S.wire.sent \subseteq Ops \X Scopes \X Nat \X Nat \X Nat
        BY SystemFields DEF SendingSets
      <3> QED
        BY <1>8, <3>1
    <2> QED
      BY <1>4, <1>7, <2>1, <2>2
  <1>9. \A u \in W : S.task[u].op = "ingest" => Key(S.task[u]) # Key(c)
    BY DEF Held
  <1> QED
    BY <1>5, <1>6, <1>8, <1>9 DEF Ingesting

\* So does what it has of anything else.
LEMMA NextReady ==
    ASSUME NEW R \in Systems, NEW t, NEW i, NEW B, kind \in Kinds, Held(R, t), Follows(R.task[t], i), Binds(R, t, i, B)
    PROVE  Ready(B, t, i)
  <1> DEFINE c == R.task[t]
             W == Waiting(R) \ {t}
  <1>0. i \in 1..Len(Script(c.op, c.scope))
    BY DEF Follows
  <1>1. Made(c) /\ c.step \in 1..Len(Script(c.op, c.scope)) /\ Underway(R, t, c)
        /\ c.op \in Ops /\ c.scope \in Scopes /\ (c.op = "probe" => kind = "openviking")
    BY DEF Held, Made
  <1>2. LengthFits(c.op, Len(Script(c.op, c.scope)))
    BY <1>1, ScriptFacts
  <1>3. Len(Script(c.op, c.scope)) \in Nat
    BY <1>2 DEF LengthFits
  <1>4. i \in Nat \ {0} /\ c.step \in Nat \ {0}
    <2> HIDE DEF c
    <2> QED
      BY <1>0, <1>1, <1>3
  <1>5. B.task[t] = c /\ Waiting(B) = Waiting(R) /\ B.task = R.task /\ B.wire.sent = R.wire.sent
    BY DEF Binds, Waiting
  <1>6. SameLocks(R.ad, B.ad) /\ SameMarks(R.ad, B.ad) /\ SameBatches(R.ad, B.ad) /\ R.ad.users \subseteq B.ad.users
    BY DEF Binds
  <1>7. \A s, d : Settled(B.ad, s, d) <=> Settled(R.ad, s, d)
    BY <1>6 DEF SameBatches, Settled
  <1>8. HoldsLock(B.ad, t, c)
    BY <1>1, <1>6 DEF Underway, HoldsLock, SameLocks
  <1>9. c.op = "ingest" =>
              /\ Key(c) \in B.ad.attempted <=> i > 1
              /\ c.attempt = B.ad.batch[c.scope][c.dispatch]
              /\ \A w \in B.wire.sent : w[1] = "ingest" /\ <<w[2], w[3], w[4]>> = Key(c) =>
                    w[5] <= i /\ (Script(c.op, c.scope)[i].write => w[5] < i)
              /\ InTurn(B.ad, c)
              /\ \A u \in W : B.task[u].op = "ingest" => Key(B.task[u]) # Key(c)
    <2>1. HAVE c.op = "ingest"
    <2>2. /\ Key(c) \in R.ad.attempted /\ i > 1
          /\ c.attempt = R.ad.batch[c.scope][c.dispatch]
          /\ \A w \in R.wire.sent : w[1] = "ingest" /\ <<w[2], w[3], w[4]>> = Key(c) =>
                w[5] <= i /\ (Script(c.op, c.scope)[i].write => w[5] < i)
          /\ InTurn(R.ad, c)
          /\ \A u \in W : R.task[u].op = "ingest" => Key(R.task[u]) # Key(c)
      BY <2>1, NextIngest
    <2>3. InTurn(B.ad, c)
      BY <1>6, <1>7, <2>2 DEF InTurn, SameBatches
    <2> HIDE DEF c, W
    <2> QED
      BY SMTT(30), <1>5, <1>6, <2>2, <2>3 DEF SameMarks, SameBatches
  <1>10. c.op = "allocate" /\ kind \in {"hindsight", "openviking"} =>
              (c.scope \in B.ad.allocAttempted <=> i > MarkedStep("allocate"))
    <2>1. HAVE c.op = "allocate" /\ kind \in {"hindsight", "openviking"}
    <2>2. c.scope \in R.ad.allocAttempted <=> c.step >= MarkedStep("allocate")
      BY <1>1, <2>1 DEF Underway
    <2>3. i = c.step + 1 /\ MarkedStep("allocate") \in Nat
      BY <2>1 DEF Follows, MarkedStep
    <2>4. i > MarkedStep("allocate") <=> c.step >= MarkedStep("allocate")
      BY <1>4, <2>3
    <2> QED
      BY <1>6, <2>2, <2>4 DEF SameMarks
  <1>11. c.op # "probe"
    <2>1. SUFFICES ASSUME c.op = "probe" PROVE FALSE
      OBVIOUS
    <2>2. Len(Script(c.op, c.scope)) = 1 /\ i = c.step + 1
      BY <1>2, <2>1 DEF LengthFits, Follows
    <2> HIDE DEF c
    <2> QED
      BY <1>0, <1>1, <1>4, <2>2
  <1>12. c.op = "ready" => \A d \in Plan : Settled(B.ad, c.scope, d)
    BY <1>1, <1>7 DEF Underway
  <1>13. kind = "session" =>
              /\ c.op \notin {"resolve", "allocate"} => c.scope \in B.ad.users
              /\ c.op = "allocate" =>
                    /\ c.scope \in B.ad.users <=> i > SessionIdentity
                    /\ \A u \in W : B.task[u].op = "allocate" => B.task[u].scope # c.scope
    <2>1. HAVE kind = "session"
    <2>2. c.op \notin {"resolve", "allocate"} => c.scope \in R.ad.users
      BY <2>1 DEF Held
    <2>3. c.op = "allocate" => \A u \in W : R.task[u].op = "allocate" => R.task[u].scope # c.scope
      BY <2>1 DEF Held
    <2>4. c.op = "allocate" => (c.scope \in B.ad.users <=> i > SessionIdentity)
      BY <2>1 DEF Binds
    <2> HIDE DEF c, W
    <2> QED
      BY <1>5, <1>6, <2>2, <2>3, <2>4
  <1> HIDE DEF c, W
  <1>14. Ready(B, t, i) <=>
            /\ Made(c) /\ i \in 1..Len(Script(c.op, c.scope))
            /\ HoldsLock(B.ad, t, c)
            /\ c.op = "ingest" =>
              /\ Key(c) \in B.ad.attempted <=> i > 1
              /\ c.attempt = B.ad.batch[c.scope][c.dispatch]
              /\ \A w \in B.wire.sent : w[1] = "ingest" /\ <<w[2], w[3], w[4]>> = Key(c) =>
                    w[5] <= i /\ (Script(c.op, c.scope)[i].write => w[5] < i)
              /\ InTurn(B.ad, c)
              /\ \A u \in W : B.task[u].op = "ingest" => Key(B.task[u]) # Key(c)
            /\ c.op = "allocate" /\ kind \in {"hindsight", "openviking"} =>
              (c.scope \in B.ad.allocAttempted <=> i > MarkedStep("allocate"))
            /\ c.op = "probe" => c.scope \notin B.ad.probed
            /\ c.op = "ready" => \A d \in Plan : Settled(B.ad, c.scope, d)
            /\ kind = "session" =>
              /\ c.op \notin {"resolve", "allocate"} => c.scope \in B.ad.users
              /\ c.op = "allocate" =>
                    /\ c.scope \in B.ad.users <=> i > SessionIdentity
                    /\ \A u \in W : B.task[u].op = "allocate" => B.task[u].scope # c.scope
    BY <1>5 DEF Ready, W
  <1> QED
    BY <1>0, <1>1, <1>8, <1>9, <1>10, <1>11, <1>12, <1>13, <1>14
\* A batch attempt that is settled as failed: the batch is at the next one.
LEMMA SettledMoves ==
    ASSUME NEW S, NEW t, NEW W, kind \in Kinds, Sound(S, W), Alone(S, t, W), kind # "openviking"
    PROVE  LET c == S.task[t]
               b == AfterSettled(S.ad, c)
           IN  b \in Ads /\ Moves(S.ad, b, c, c.attempt = MaxBatchAttempt)
  <1> DEFINE c == S.task[t]
             a == S.ad
             row == [a.batch[c.scope] EXCEPT ![c.dispatch] = c.attempt + 1]
             tab == [a.batch EXCEPT ![c.scope] = row]
             n == IF kind = "mem0" /\ c.attempt = MaxBatchAttempt THEN a.next[c.scope] + 1 ELSE a.next[c.scope]
             turn == [a.next EXCEPT ![c.scope] = n]
             b == AfterSettled(a, c)
  <1>1. c.scope \in Scopes /\ c.dispatch \in Plan /\ c.attempt \in 1..MaxBatchAttempt /\ a \in Ads
    BY SystemFields DEF Alone, Made, Sound
  <1>2. a.batch \in [Scopes -> [Plan -> 0..(MaxBatchAttempt + 1)]] /\ a.next \in [Scopes -> Nat]
    BY <1>1 DEF Ads, BatchTables, Turns
  <1>3. c.attempt \in Nat /\ c.attempt + 1 \in 0..(MaxBatchAttempt + 1) /\ c.attempt # 0
        /\ (c.attempt + 1 = MaxBatchAttempt + 1 <=> c.attempt = MaxBatchAttempt)
    BY <1>1, AdaptersAssumption
  <1>4. row \in [Plan -> 0..(MaxBatchAttempt + 1)] /\ row[c.dispatch] = c.attempt + 1
        /\ \A d \in Plan \ {c.dispatch} : row[d] = a.batch[c.scope][d]
    BY <1>1, <1>2, <1>3
  <1> HIDE DEF row
  <1>5. tab \in BatchTables /\ tab[c.scope] = row /\ \A s \in Scopes \ {c.scope} : tab[s] = a.batch[s]
    BY <1>1, <1>2, <1>4 DEF BatchTables
  <1>6. n \in Nat
    BY <1>1, <1>2
  <1> HIDE DEF n
  <1>7. turn \in Turns /\ turn[c.scope] = n /\ \A s \in Scopes \ {c.scope} : turn[s] = a.next[s]
    BY <1>1, <1>2, <1>6 DEF Turns
  <1>8. b = [a EXCEPT !.batch = tab, !.next = turn]
    BY DEF AfterSettled, row, n
  <1> HIDE DEF tab, turn, b
  <1>9. /\ b \in Ads /\ b.batch = tab /\ b.next = turn /\ b.completed = a.completed /\ b.ready = a.ready
        /\ SameMarks(a, b) /\ SameLocks(a, b) /\ SameUsers(a, b)
    BY <1>1, <1>5, <1>7, <1>8 DEF Ads, SameMarks, SameLocks, SameUsers
  <1>10. <<c.scope, c.dispatch>> \notin a.completed
    <2>1. Batches(S) /\ c.attempt = a.batch[c.scope][c.dispatch]
      BY DEF Sound, Tidy, Alone, Ingesting
    <2> QED
      BY <1>1, <1>3, <2>1 DEF Batches
  <1>11. \A s \in Scopes, d \in Plan : s # c.scope \/ d # c.dispatch => b.batch[s][d] = a.batch[s][d]
    BY <1>4, <1>5, <1>9
  <1>12. Settled(b, c.scope, c.dispatch) <=> c.attempt = MaxBatchAttempt
    BY <1>3, <1>4, <1>5, <1>9, <1>10 DEF Settled
  <1>13. \A s \in Scopes : b.next[s] = IF s = c.scope /\ kind = "mem0" /\ c.attempt = MaxBatchAttempt
                                       THEN a.next[s] + 1 ELSE a.next[s]
    BY <1>7, <1>9 DEF n
  <1> HIDE DEF a, c
  <1>14. Moves(a, b, c, c.attempt = MaxBatchAttempt)
    BY <1>9, <1>10, <1>11, <1>12, <1>13 DEF Moves
  <1> QED
    BY <1>9, <1>14 DEF a, b, c

\* A batch that is accepted is completed, and at no attempt.
CompletedBatch(a, c) ==
    [a EXCEPT !.completed = @ \cup {<<c.scope, c.dispatch>>},
              !.batch[c.scope][c.dispatch] = 0,
              !.next[c.scope] = IF kind = "mem0" THEN @ + 1 ELSE @]

\* It moves its plan on.
LEMMA CompletedMoves ==
    ASSUME NEW S, NEW t, NEW W, kind \in Kinds, Sound(S, W), Alone(S, t, W)
    PROVE  LET c == S.task[t]
               b == CompletedBatch(S.ad, c)
           IN  b \in Ads /\ Moves(S.ad, b, c, TRUE)
  <1> DEFINE c == S.task[t]
             a == S.ad
             row == [a.batch[c.scope] EXCEPT ![c.dispatch] = 0]
             tab == [a.batch EXCEPT ![c.scope] = row]
             n == IF kind = "mem0" THEN a.next[c.scope] + 1 ELSE a.next[c.scope]
             turn == [a.next EXCEPT ![c.scope] = n]
             done == a.completed \cup {<<c.scope, c.dispatch>>}
             b == CompletedBatch(a, c)
  <1>1. c.scope \in Scopes /\ c.dispatch \in Plan /\ a \in Ads
    BY SystemFields DEF Alone, Made, Sound
  <1>2. a.batch \in [Scopes -> [Plan -> 0..(MaxBatchAttempt + 1)]] /\ a.next \in [Scopes -> Nat]
    BY <1>1 DEF Ads, BatchTables, Turns
  <1>3. 0 \in 0..(MaxBatchAttempt + 1)
    BY AdaptersAssumption
  <1>4. row \in [Plan -> 0..(MaxBatchAttempt + 1)] /\ row[c.dispatch] = 0
        /\ \A d \in Plan \ {c.dispatch} : row[d] = a.batch[c.scope][d]
    BY <1>1, <1>2, <1>3
  <1> HIDE DEF row
  <1>5. tab \in BatchTables /\ tab[c.scope] = row /\ \A s \in Scopes \ {c.scope} : tab[s] = a.batch[s]
    BY <1>1, <1>2, <1>4 DEF BatchTables
  <1>6. n \in Nat
    BY <1>1, <1>2
  <1> HIDE DEF n
  <1>7. turn \in Turns /\ turn[c.scope] = n /\ \A s \in Scopes \ {c.scope} : turn[s] = a.next[s]
    BY <1>1, <1>2, <1>6 DEF Turns
  <1>8. done \in BatchSets /\ <<c.scope, c.dispatch>> \in done
        /\ \A s \in Scopes, d \in Plan : s # c.scope \/ d # c.dispatch => (<<s, d>> \in done <=> <<s, d>> \in a.completed)
    BY <1>1 DEF Ads, BatchSets
  <1>9. b = [a EXCEPT !.completed = done, !.batch = tab, !.next = turn]
    BY DEF CompletedBatch, row, n
  <1> HIDE DEF tab, turn, done, b
  <1>10. /\ b \in Ads /\ b.batch = tab /\ b.next = turn /\ b.completed = done /\ b.ready = a.ready
         /\ SameMarks(a, b) /\ SameLocks(a, b) /\ SameUsers(a, b)
    BY <1>1, <1>5, <1>7, <1>8, <1>9 DEF Ads, SameMarks, SameLocks, SameUsers
  <1>11. \A s \in Scopes, d \in Plan : s # c.scope \/ d # c.dispatch =>
            b.batch[s][d] = a.batch[s][d] /\ (<<s, d>> \in b.completed <=> <<s, d>> \in a.completed)
    BY <1>4, <1>5, <1>8, <1>10
  <1>12. Settled(b, c.scope, c.dispatch) /\ b.batch[c.scope][c.dispatch] = 0
    BY <1>4, <1>5, <1>8, <1>10 DEF Settled
  <1>13. \A s \in Scopes : b.next[s] = IF s = c.scope /\ kind = "mem0" /\ TRUE
                                       THEN a.next[s] + 1 ELSE a.next[s]
    BY <1>7, <1>10 DEF n
  <1> HIDE DEF a, c
  <1>14. Moves(a, b, c, TRUE)
    BY <1>10, <1>11, <1>12, <1>13 DEF Moves
  <1> QED
    BY <1>10, <1>14 DEF a, b, c

\* A call that has all it needs is alone with its batch.
LEMMA HeldAlone ==
    ASSUME NEW S, NEW t, Held(S, t), S.task[t].op = "ingest"
    PROVE  Alone(S, t, Waiting(S) \ {t})
  BY DEF Held, Alone, Underway

\* A call whose request ended badly leaves all in order.
LEMMA FailSafe ==
    ASSUME NEW S, NEW t \in Tasks, NEW outcome, kind \in Kinds, Sound(S, Waiting(S) \ {t}), Held(S, t),
           outcome # "before_dispatch"
    PROVE  Fine(S, Fail(S, t, outcome))
  <1> DEFINE c == S.task[t]
             W == Waiting(S) \ {t}
             b == FailingAd(S, t, outcome)
             r == FailingRest(S, t)
             Y == With(S, b, r)
             X == Fail(S, t, outcome)
  <1>1. /\ S \in Systems /\ S.ad \in Ads /\ S.rest \in [Clients -> Transports] /\ Made(c) /\ HoldsLock(S.ad, t, c)
        /\ c.scope \in Scopes /\ c.scope \in Clients /\ Sound(S, W) /\ W \in SUBSET Waiting(S)
    BY SystemFields DEF Sound, Held, Underway, Made, Rests, Clients
  <1>2. CASE outcome = "settled" /\ CountsAsSettled(c)
    <2>1. c.op = "ingest" /\ kind # "openviking"
      BY <1>2 DEF CountsAsSettled
    <2>2. b = AfterSettled(S.ad, c) /\ r = S.rest
      BY <1>2, <2>1 DEF FailingAd, FailingRest, IsFresh
    <2>3. Alone(S, t, W)
      BY <2>1, HeldAlone
    <2>4. b \in Ads /\ Moves(S.ad, b, c, c.attempt = MaxBatchAttempt)
      BY <1>1, <2>1, <2>2, <2>3, SettledMoves
    <2>5. r \in Rests
      BY <1>1, <2>2 DEF Rests
    <2>6. Leaves(S, t, b, r, X)
      BY <1>1, <2>4, <2>5, FailIs
    <2> HIDE DEF b, r, X, W
    <2>7. Becomes(S, b, S.rest, Y)
      BY <1>1, <2>2, <2>4, <2>5, WithIs
    <2>8. Sound(Y, W) /\ \A C : ClosesInOrder(S, C) => ClosesInOrder(Y, C)
      <3> DEFINE settled == c.attempt = MaxBatchAttempt
      <3>1. Moves(S.ad, b, c, settled)
        BY <2>4
      <3> HIDE DEF settled, Y
      <3> QED
        BY <1>1, <2>3, <2>7, <3>1, MovesSafe
    <2>9. HoldsLock(b, t, c)
      BY <1>1, <2>4 DEF Moves, SameLocks, HoldsLock
    <2> QED
      BY <1>1, <2>4, <2>5, <2>6, <2>8, <2>9, LeaveWith DEF W, X
  <1>3. CASE ~(outcome = "settled" /\ CountsAsSettled(c))
    <2>1. b = S.ad
      BY <1>3 DEF FailingAd
    <2>2. r \in Rests /\ ClientsKept(S, [S EXCEPT !.rest = r], W) /\ (kind # "session" => r = S.rest)
      <3>1. CASE IsFresh(c, c.step)
        <4> DEFINE p == S.rest[c.scope]
                   z == CloseEnds(StopAccepting(p))
        <4>1. p \in Transports
          BY <1>1
        <4>2. z \in Transports /\ z.active = p.active /\ z.httpx = p.httpx /\ ~z.accepting
          BY <4>1, AdaptersAssumption DEF CloseEnds, StopAccepting, Transports
        <4>3. r = [S.rest EXCEPT ![c.scope] = z] /\ kind = "session"
          BY <3>1 DEF FailingRest, IsFresh
        <4> HIDE DEF z, r
        <4>4. r \in [Clients -> Transports] /\ r[c.scope] = z /\ \A x \in Clients \ {c.scope} : r[x] = S.rest[x]
          BY <1>1, <4>2, <4>3
        <4>5. \A x \in Clients : ClientKept(S.rest[x], r[x], W)
          <5>1. ClientKept(p, z, W)
            BY <4>2, <4>3 DEF ClientKept
          <5>2. \A x \in Clients : ClientKept(S.rest[x], S.rest[x], W)
            BY DEF ClientKept
          <5> QED
            BY SMTT(30), <4>4, <5>1, <5>2
        <4>6. [S EXCEPT !.rest = r].rest = r
          BY <1>1 DEF Systems
        <4> QED
          BY <4>3, <4>4, <4>5, <4>6 DEF Rests, ClientsKept
      <3>2. CASE ~IsFresh(c, c.step)
        <4>1. r = S.rest
          BY <3>2 DEF FailingRest
        <4>2. \A x \in Clients : ClientKept(S.rest[x], S.rest[x], W)
          BY DEF ClientKept
        <4> HIDE DEF r
        <4>3. [S EXCEPT !.rest = r].rest = r
          BY <1>1 DEF Systems
        <4> QED
          BY <1>1, <4>1, <4>2, <4>3 DEF Rests, ClientsKept
      <3> QED
        BY <3>1, <3>2
    <2>3. Leaves(S, t, b, r, X)
      BY <1>1, <2>1, <2>2, FailIs
    <2> HIDE DEF b, r, X, W
    <2>4. Becomes(S, b, r, Y)
      BY <1>1, <2>1, <2>2, WithIs
    <2> HIDE DEF Y
    <2>5. Harmless(S, Y, W)
      <3>1. ClientsKept(S, Y, W)
        <4>1. [S EXCEPT !.rest = r].rest = r
          BY <1>1 DEF Systems
        <4> QED
          BY <2>2, <2>4, <4>1 DEF ClientsKept, Becomes
      <3>2. MarksKept(S, Y) /\ BatchesKept(S.ad, Y.ad) /\ UsersKept(S.ad, Y.ad)
        BY <1>1, <2>1, <2>4 DEF Becomes, MarksKept, BatchesKept, UsersKept, Sound, Using
      <3>3. \A u \in W : CallKept(S, Y, u)
        BY <2>1, <2>4 DEF Becomes, CallKept
      <3> QED
        BY <2>4, <3>1, <3>2, <3>3 DEF Harmless, Becomes
    <2>6. CallsMade(Y)
      BY <1>1, <2>4 DEF Becomes, Sound, CallsMade
    <2>7. Sound(Y, W) /\ \A C : ClosesInOrder(S, C) => ClosesInOrder(Y, C)
      BY <1>1, <2>4, <2>5, <2>6, HarmlessSafe DEF Becomes
    <2> QED
      BY <1>1, <2>1, <2>2, <2>3, <2>7, LeaveWith DEF W, X, Y
  <1> QED
    BY <1>2, <1>3
\* What the adapter keeps of a call that ended well.
CompletedAd(S, t) ==
    LET c == S.task[t] s == c.scope IN
    CASE c.op = "resolve"  -> [S.ad EXCEPT !.resolved = TRUE]
      [] c.op = "allocate" -> [S.ad EXCEPT !.allocated = @ \cup {s}, !.known = @ \cup {s},
                                           !.allocAttempted = @ \cup {s}]
      [] c.op = "ingest"   -> CompletedBatch(S.ad, c)
      [] c.op = "ready"    -> [S.ad EXCEPT !.ready = @ \cup {s}]
      [] OTHER             -> S.ad

\* Completing is leaving with it.
LEMMA CompleteIs ==
    ASSUME NEW S \in Systems, NEW t \in Tasks, Made(S.task[t]), CompletedAd(S, t) \in Ads
    PROVE  Leaves(S, t, CompletedAd(S, t), S.rest, Complete(S, t))
  <1> DEFINE b == CompletedAd(S, t)
             r == S.rest
  <1>1. Complete(S, t) = Return([S EXCEPT !.ad = b], t)
    BY DEF Complete, CompletedAd, CompletedBatch
  <1>2. b \in Ads /\ r \in Rests
    BY SystemFields
  <1> HIDE DEF b
  <1>3. [S EXCEPT !.ad = b] = [S EXCEPT !.ad = b, !.rest = S.rest]
    BY DEF Systems
  <1> HIDE DEF r
  <1>4. Leaves(S, t, b, r, Return([S EXCEPT !.ad = b, !.rest = r], t))
    BY <1>2, ReturnIs
  <1> QED
    BY <1>1, <1>3, <1>4 DEF b, r

Completes(S, t, b) ==
    LET c == S.task[t]
        a == S.ad
    IN  /\ b \in Ads /\ SameLocks(a, b)
        /\ b.attempted = a.attempted /\ b.probed = a.probed
        /\ b.allocAttempted = IF c.op = "allocate" THEN a.allocAttempted \cup {c.scope} ELSE a.allocAttempted
        /\ b.batch = a.batch /\ b.next = a.next /\ b.completed = a.completed
        /\ b.ready = IF c.op = "ready" THEN a.ready \cup {c.scope} ELSE a.ready
        /\ b.allocated = IF c.op = "allocate" THEN a.allocated \cup {c.scope} ELSE a.allocated
        /\ b.users = a.users /\ b.planned = a.planned

\* It adds the scope to what is allocated or to what is ready.
LEMMA CompletesFields ==
    ASSUME NEW S \in Systems, NEW t \in Tasks, Made(S.task[t]), S.task[t].op # "ingest"
    PROVE  Completes(S, t, CompletedAd(S, t))
  <1> DEFINE c == S.task[t]
             a == S.ad
             s == c.scope
             b == CompletedAd(S, t)
  <1>1. a \in Ads /\ s \in Scopes
    BY SystemFields DEF Made
  <1>2. CASE c.op = "resolve"
    <2>1. b = [a EXCEPT !.resolved = TRUE]
      BY <1>2 DEF CompletedAd
    <2> HIDE DEF b
    <2>2. b \in Ads
      BY <1>1, <2>1 DEF Ads
    <2>3. SameLocks(a, b)
          /\ b.attempted = a.attempted /\ b.probed = a.probed /\ b.allocAttempted = a.allocAttempted
          /\ b.batch = a.batch /\ b.next = a.next /\ b.completed = a.completed /\ b.ready = a.ready
          /\ b.users = a.users /\ b.planned = a.planned /\ b.allocated = a.allocated
      BY <1>1, <2>1 DEF Ads, SameLocks
    <2> QED
      BY <1>2, <2>2, <2>3 DEF Completes, b
  <1>3. CASE c.op = "allocate"
    <2> DEFINE x == a.allocated \cup {s}
               y == a.known \cup {s}
               z == a.allocAttempted \cup {s}
    <2>1. x \in ScopeSets /\ y \in ScopeSets /\ z \in ScopeSets
      BY <1>1 DEF Ads, ScopeSets
    <2>2. b = [a EXCEPT !.allocated = x, !.known = y, !.allocAttempted = z]
      BY <1>3 DEF CompletedAd
    <2>3. z = S.ad.allocAttempted \cup {c.scope} /\ x = S.ad.allocated \cup {c.scope}
      OBVIOUS
    <2> HIDE DEF x, y, z
    <2> HIDE DEF b
    <2>4. b \in Ads
      BY <1>1, <2>1, <2>2 DEF Ads
    <2>5. b.allocated = x /\ b.allocAttempted = z /\ SameLocks(a, b)
          /\ b.attempted = a.attempted /\ b.probed = a.probed
          /\ b.batch = a.batch /\ b.next = a.next /\ b.completed = a.completed
          /\ b.users = a.users /\ b.planned = a.planned /\ b.ready = a.ready
      BY <1>1, <2>2 DEF Ads, SameLocks
    <2> QED
      BY <1>3, <2>3, <2>4, <2>5 DEF Completes, b
  <1>4. CASE c.op = "ready"
    <2> DEFINE x == a.ready \cup {s}
    <2>1. x \in ScopeSets
      BY <1>1 DEF Ads, ScopeSets
    <2>2. b = [a EXCEPT !.ready = x]
      BY <1>4 DEF CompletedAd
    <2>3. x = S.ad.ready \cup {c.scope}
      OBVIOUS
    <2> HIDE DEF x
    <2> HIDE DEF b
    <2>4. b \in Ads
      BY <1>1, <2>1, <2>2 DEF Ads
    <2>5. b.ready = x /\ SameLocks(a, b)
          /\ b.attempted = a.attempted /\ b.probed = a.probed /\ b.allocAttempted = a.allocAttempted
          /\ b.batch = a.batch /\ b.next = a.next /\ b.completed = a.completed
          /\ b.users = a.users /\ b.planned = a.planned /\ b.allocated = a.allocated
      BY <1>1, <2>2 DEF Ads, SameLocks
    <2> QED
      BY <1>4, <2>3, <2>4, <2>5 DEF Completes, b
  <1>5. CASE c.op \notin {"resolve", "allocate", "ready"}
    <2>1. b = a
      BY <1>5 DEF CompletedAd
    <2> QED
      BY <1>1, <1>5, <2>1 DEF Completes, SameLocks
  <1> QED
    BY <1>2, <1>3, <1>4, <1>5

\* A call that ends well leaves all in order.
LEMMA CompleteSafe ==
    ASSUME NEW S, NEW t \in Tasks, kind \in Kinds, Sound(S, Waiting(S) \ {t}), Held(S, t),
           S.task[t].step = Len(Script(S.task[t].op, S.task[t].scope))
    PROVE  Fine(S, Complete(S, t))
  <1> DEFINE c == S.task[t]
             W == Waiting(S) \ {t}
             b == CompletedAd(S, t)
             Y == With(S, b, S.rest)
             X == Complete(S, t)
  <1>1. /\ S \in Systems /\ S.ad \in Ads /\ S.rest \in Rests /\ Made(c) /\ HoldsLock(S.ad, t, c)
        /\ Underway(S, t, c)
        /\ c.scope \in Scopes /\ c.op \in Ops /\ (c.op = "probe" => kind = "openviking")
        /\ Sound(S, W) /\ W \in SUBSET Waiting(S)
    BY SystemFields DEF Sound, Held, Underway, Made
  <1>2. b \in Ads /\ HoldsLock(b, t, c) /\ Sound(Y, W) /\ \A C : ClosesInOrder(S, C) => ClosesInOrder(Y, C)
    <2>1. CASE c.op = "ingest"
      <3>1. Alone(S, t, W)
        BY <2>1, HeldAlone
      <3>2. b = CompletedBatch(S.ad, c)
        BY <2>1 DEF CompletedAd
      <3>3. b \in Ads /\ Moves(S.ad, b, c, TRUE)
        BY <1>1, <3>1, <3>2, CompletedMoves
      <3>4. HoldsLock(b, t, c)
        BY <1>1, <3>3 DEF Moves, SameLocks, HoldsLock
      <3> HIDE DEF b, W
      <3>5. Becomes(S, b, S.rest, Y)
        BY <1>1, <3>3, WithIs
      <3> HIDE DEF Y
      <3>6. Sound(Y, W) /\ \A C : ClosesInOrder(S, C) => ClosesInOrder(Y, C)
        BY <1>1, <3>1, <3>3, <3>5, MovesSafe
      <3> QED
        BY <3>3, <3>4, <3>6
    <2>2. CASE c.op # "ingest"
      <3>1. Completes(S, t, b)
        BY <1>1, <2>2, CompletesFields
      <3>2. b \in Ads
        BY <3>1 DEF Completes
      <3>3. HoldsLock(b, t, c)
        BY <1>1, <3>1 DEF Completes, SameLocks, HoldsLock
      <3>4. Becomes(S, b, S.rest, Y)
        BY <1>1, <3>2, WithIs
      <3> HIDE DEF b, Y
      <3>5. c.op = "allocate" /\ kind \in {"hindsight", "openviking"} => b.allocAttempted = S.ad.allocAttempted
        <4>1. HAVE c.op = "allocate" /\ kind \in {"hindsight", "openviking"}
        <4>2. c.step >= MarkedStep("allocate")
          <5>1. LengthFits(c.op, c.step)
            BY <1>1, ScriptFacts
          <5> HIDE DEF c
          <5> QED
            BY <4>1, <5>1 DEF LengthFits, MarkedStep
        <4>3. c.scope \in S.ad.allocAttempted
          BY <1>1, <4>1, <4>2 DEF Underway
        <4> QED
          BY <3>1, <4>1, <4>3 DEF Completes
      <3>6. c.op = "allocate" /\ kind = "session" => c.scope \in S.ad.users
        <4>1. HAVE c.op = "allocate" /\ kind = "session"
        <4>2. c.step > SessionIdentity
          <5>1. LengthFits(c.op, c.step)
            BY <1>1, ScriptFacts
          <5> HIDE DEF c
          <5> QED
            BY <4>1, <5>1 DEF LengthFits, SessionIdentity
        <4> QED
          BY <4>1, <4>2 DEF Held
      <3>7. c.op = "ready" /\ kind = "session" => c.scope \in S.ad.users
        BY DEF Held
      <3>8. c.op = "ready" => \A d \in Plan : Settled(S.ad, c.scope, d)
        BY <1>1 DEF Underway
      <3>9. kind \in {"mem0", "hindsight", "openviking", "session"}
        BY AdaptersAssumption
      <3>10. MarksKept(S, Y)
        BY <3>1, <3>4, <3>5, <3>9 DEF Completes, MarksKept, Becomes
      <3>11. BatchesKept(S.ad, Y.ad)
        BY <3>1, <3>4, <3>8 DEF Completes, BatchesKept, Becomes
      <3>12. UsersKept(S.ad, Y.ad)
        <4>1. kind = "session" => S.ad.allocated \cup S.ad.planned \cup S.ad.ready \subseteq S.ad.users
          BY <1>1 DEF Sound, Using
        <4> QED
          BY <3>1, <3>4, <3>6, <3>7, <4>1 DEF Completes, UsersKept, Becomes
      <3>13. ClientsKept(S, Y, W)
        BY <3>4 DEF ClientsKept, ClientKept, Becomes
      <3>14. \A u \in W : CallKept(S, Y, u)
        <4>1. Y.task = S.task /\ Y.ad = b /\ b.users = S.ad.users /\ SameLocks(S.ad, b)
          BY <3>1, <3>4 DEF Becomes, Completes
        <4>2. kind \in {"hindsight", "openviking"} => b.allocAttempted = S.ad.allocAttempted
          BY <3>1, <3>5 DEF Completes
        <4> QED
          BY <4>1, <4>2 DEF CallKept, SameLocks, HoldsLock
      <3>15. Harmless(S, Y, W)
        BY <3>4, <3>10, <3>11, <3>12, <3>13, <3>14 DEF Harmless, Becomes
      <3>16. CallsMade(Y)
        BY <1>1, <3>4 DEF Becomes, Sound, CallsMade
      <3> HIDE DEF W
      <3>17. Sound(Y, W) /\ \A C : ClosesInOrder(S, C) => ClosesInOrder(Y, C)
        BY <1>1, <3>4, <3>15, <3>16, HarmlessSafe DEF Becomes
      <3> QED
        BY <3>2, <3>3, <3>17
    <2> QED
      BY <2>1, <2>2
  <1>3. Leaves(S, t, b, S.rest, X)
    BY <1>1, <1>2, CompleteIs
  <1> HIDE DEF b, X
  <1> QED
    BY <1>1, <1>2, <1>3, LeaveWith DEF X
Bound(R, c, B) ==
    /\ B \in Systems /\ B.rest = R.rest /\ B.task = R.task /\ B.wire = R.wire
    /\ SameLocks(R.ad, B.ad) /\ SameMarks(R.ad, B.ad) /\ SameBatches(R.ad, B.ad)
    /\ B.ad.allocated = R.ad.allocated /\ B.ad.planned = R.ad.planned
    /\ B.ad.users = IF IsFresh(c, c.step) THEN R.ad.users \cup {c.scope} ELSE R.ad.users

\* What an answer is worth: the first inventory, the user of a session.
LEMMA BoundIs ==
    ASSUME NEW R \in Systems, NEW c, Made(c)
    PROVE  Bound(R, c, BindUser(Baseline(R, c), c))
  <1> DEFINE M == Baseline(R, c)
             B == BindUser(M, c)
  <1>1. R.ad \in Ads /\ R.wire.banks \in ScopeSets /\ c.scope \in Scopes
    BY SystemFields DEF Made
  <1>2. /\ M \in Systems /\ M.rest = R.rest /\ M.task = R.task /\ M.wire = R.wire
        /\ SameLocks(R.ad, M.ad) /\ SameMarks(R.ad, M.ad) /\ SameBatches(R.ad, M.ad)
        /\ M.ad.allocated = R.ad.allocated /\ M.ad.planned = R.ad.planned /\ M.ad.users = R.ad.users
    <2>1. CASE M = R
      BY <2>1 DEF SameLocks, SameMarks, SameBatches
    <2>2. CASE M # R
      <3> DEFINE k == R.ad.known \cup R.wire.banks
                 b == [R.ad EXCEPT !.baseline = TRUE, !.known = k]
      <3>1. M = [R EXCEPT !.ad = b]
        BY <2>2 DEF Baseline, Systems
      <3>2. k \in ScopeSets
        BY <1>1 DEF Ads, ScopeSets
      <3> HIDE DEF k
      <3>3. /\ b \in Ads /\ SameLocks(R.ad, b) /\ SameMarks(R.ad, b) /\ SameBatches(R.ad, b)
            /\ b.allocated = R.ad.allocated /\ b.planned = R.ad.planned /\ b.users = R.ad.users
        BY <1>1, <3>2 DEF Ads, SameLocks, SameMarks, SameBatches
      <3> HIDE DEF b, M
      <3>4. M \in Systems /\ M.rest = R.rest /\ M.task = R.task /\ M.wire = R.wire /\ M.ad = b
        BY <3>1, <3>3 DEF Systems
      <3> QED
        BY <3>3, <3>4
    <2> QED
      BY <2>1, <2>2
  <1> HIDE DEF M
  <1>3. M.ad \in Ads
    BY <1>2, SystemFields
  <1>4. /\ B \in Systems /\ B.rest = M.rest /\ B.task = M.task /\ B.wire = M.wire
        /\ SameLocks(M.ad, B.ad) /\ SameMarks(M.ad, B.ad) /\ SameBatches(M.ad, B.ad)
        /\ B.ad.allocated = M.ad.allocated /\ B.ad.planned = M.ad.planned
        /\ B.ad.users = IF IsFresh(c, c.step) THEN M.ad.users \cup {c.scope} ELSE M.ad.users
    <2>1. CASE ~IsFresh(c, c.step)
      <3>1. B = M
        BY <2>1 DEF BindUser, IsFresh
      <3> QED
        BY <1>2, <2>1, <3>1 DEF SameLocks, SameMarks, SameBatches
    <2>2. CASE IsFresh(c, c.step)
      <3> DEFINE k == M.ad.users \cup {c.scope}
                 b == [M.ad EXCEPT !.users = k]
      <3>1. B = [M EXCEPT !.ad = b]
        BY <1>2, <2>2 DEF BindUser, IsFresh, Systems
      <3>2. k \in ScopeSets
        BY <1>1, <1>3 DEF Ads, ScopeSets
      <3>3. k = M.ad.users \cup {c.scope}
        OBVIOUS
      <3> HIDE DEF k
      <3>4. /\ b \in Ads /\ SameLocks(M.ad, b) /\ SameMarks(M.ad, b) /\ SameBatches(M.ad, b)
            /\ b.allocated = M.ad.allocated /\ b.planned = M.ad.planned /\ b.users = k
        BY <1>3, <3>2 DEF Ads, SameLocks, SameMarks, SameBatches
      <3> HIDE DEF b, B
      <3>5. B \in Systems /\ B.rest = M.rest /\ B.task = M.task /\ B.wire = M.wire /\ B.ad = b
        BY <1>2, <3>1, <3>4 DEF Systems
      <3> QED
        BY <2>2, <3>3, <3>4, <3>5
    <2> QED
      BY <2>1, <2>2
  <1> HIDE DEF B
  <1>5. SameLocks(R.ad, B.ad) /\ SameMarks(R.ad, B.ad) /\ SameBatches(R.ad, B.ad)
    BY <1>2, <1>4 DEF SameLocks, SameMarks, SameBatches
  <1>6. Bound(R, c, B)
    BY <1>2, <1>4, <1>5 DEF Bound
  <1> QED
    BY <1>6 DEF B, M

\* The user that is bound is no other call's.
LEMMA BindSafe ==
    ASSUME NEW R, NEW t \in Tasks, NEW B, kind \in Kinds, Sound(R, Waiting(R) \ {t}), Held(R, t),
           Bound(R, R.task[t], B)
    PROVE  /\ Sound(B, Waiting(B) \ {t}) /\ Waiting(B) = Waiting(R)
           /\ \A C : ClosesInOrder(R, C) => ClosesInOrder(B, C)
  <1> DEFINE c == R.task[t]
             W == Waiting(R) \ {t}
  <1>1. /\ B \in Systems /\ B.rest = R.rest /\ B.task = R.task /\ B.wire = R.wire
        /\ SameLocks(R.ad, B.ad) /\ SameMarks(R.ad, B.ad) /\ SameBatches(R.ad, B.ad)
        /\ B.ad.allocated = R.ad.allocated /\ B.ad.planned = R.ad.planned
        /\ B.ad.users = IF IsFresh(c, c.step) THEN R.ad.users \cup {c.scope} ELSE R.ad.users
    BY DEF Bound
  <1>2. Waiting(B) = Waiting(R)
    BY <1>1 DEF Waiting
  <1>3. \A u \in W : CallKept(R, B, u)
    <2>1. ASSUME NEW u \in W, R.task[u].op = "allocate", kind = "session"
          PROVE  R.task[u].scope \in B.ad.users <=> R.task[u].scope \in R.ad.users
      <3>1. IsFresh(c, c.step) => R.task[u].scope # c.scope
        BY <2>1 DEF Held, IsFresh
      <3> QED
        BY <1>1, <3>1
    <2> QED
      BY <1>1, <2>1 DEF CallKept, SameLocks, SameMarks, HoldsLock
  <1>4. Harmless(R, B, W)
    <2>1. ClientsKept(R, B, W)
      BY <1>1 DEF ClientsKept, ClientKept
    <2>2. MarksKept(R, B) /\ BatchesKept(R.ad, B.ad)
      BY <1>1 DEF MarksKept, BatchesKept, SameMarks, SameBatches
    <2>3. UsersKept(R.ad, B.ad)
      <3>1. kind = "session" => R.ad.allocated \cup R.ad.planned \cup R.ad.ready \subseteq R.ad.users
        BY DEF Sound, Using
      <3>2. B.ad.ready = R.ad.ready
        BY <1>1 DEF SameBatches
      <3> HIDE DEF c
      <3> QED
        BY <1>1, <3>1, <3>2 DEF UsersKept
    <2> QED
      BY <1>1, <1>3, <2>1, <2>2, <2>3 DEF Harmless
  <1>5. CallsMade(B) /\ W \in SUBSET Waiting(R) /\ Sound(R, W)
    BY <1>1 DEF Sound, CallsMade
  <1> HIDE DEF W
  <1>6. Sound(B, W) /\ \A C : ClosesInOrder(R, C) => ClosesInOrder(B, C)
    BY <1>1, <1>4, <1>5, HarmlessSafe
  <1> QED
    BY <1>2, <1>6 DEF W

\* What a call comes to that has its answer, R being the state then.
Answered(R, t, outcome) ==
    LET c == R.task[t]
        B == BindUser(Baseline(R, c), c)
    IN  IF outcome # "ok" THEN Fail(R, t, outcome)
        ELSE IF Rejects(R, c) THEN Fail(R, t, "failure")
        ELSE IF c.step = Len(Script(c.op, c.scope)) THEN Complete(B, t)
        ELSE Send(B, t, NextStep(R, c))

\* It leaves all in order.
LEMMA AnsweredSafe ==
    ASSUME NEW R, NEW t \in Tasks, NEW outcome, kind \in Kinds, Sound(R, Waiting(R) \ {t}), Held(R, t),
           outcome # "before_dispatch"
    PROVE  Fine(R, Answered(R, t, outcome))
  <1> DEFINE c == R.task[t]
             B == BindUser(Baseline(R, c), c)
             n == NextStep(R, c)
             len == Len(Script(c.op, c.scope))
  <1>1. /\ R \in Systems /\ Made(c) /\ c.step \in 1..len /\ c.scope \in Scopes /\ c.op \in Ops
        /\ (c.op = "probe" => kind = "openviking")
    BY DEF Sound, Held, Made
  <1>2. CASE outcome # "ok"
    BY <1>2, FailSafe DEF Answered
  <1>3. CASE outcome = "ok" /\ Rejects(R, c)
    BY <1>3, FailSafe DEF Answered
  <1>4. CASE outcome = "ok" /\ ~Rejects(R, c)
    <2>1. Bound(R, c, B)
      BY <1>1, BoundIs
    <2>2. LengthFits(c.op, len)
      BY <1>1, ScriptFacts
    <2>3. len \in Nat /\ c.step \in Nat \ {0} /\ c.step <= len
      <3>1. len \in Nat
        BY <2>2 DEF LengthFits
      <3> HIDE DEF len
      <3> QED
        BY <1>1, <3>1
    <2> HIDE DEF len
    <2>4. /\ Sound(B, Waiting(B) \ {t}) /\ Waiting(B) = Waiting(R)
          /\ \A C : ClosesInOrder(R, C) => ClosesInOrder(B, C)
      BY <2>1, BindSafe
    <2>5. CASE c.step = len
      <3>1. Answered(R, t, outcome) = Complete(B, t)
        BY <1>4, <2>5 DEF Answered, len
      <3>2. ~IsFresh(c, c.step)
        BY <2>2, <2>5 DEF LengthFits, IsFresh, SessionIdentity
      <3>3. B.task = R.task /\ B.wire = R.wire /\ B.rest = R.rest /\ Waiting(B) = Waiting(R)
            /\ SameLocks(R.ad, B.ad) /\ SameMarks(R.ad, B.ad) /\ SameBatches(R.ad, B.ad) /\ B.ad.users = R.ad.users
        BY <2>1, <2>4, <3>2 DEF Bound
      <3> HIDE DEF B
      <3>4. Held(B, t)
        <4>1. \A s, d : Settled(B.ad, s, d) <=> Settled(R.ad, s, d)
          BY <3>3 DEF SameBatches, Settled
        <4>2. Underway(R, t, c)
          BY SMTT(30) DEF Held
        <4>3. c.op = "ingest" => Ingesting(B, c)
          BY <3>3, <4>1, <4>2 DEF Underway, Ingesting, InTurn, SameMarks, SameBatches
        <4>4. Underway(B, t, c)
          BY <3>3, <4>1, <4>2, <4>3 DEF Underway, HoldsLock, SameLocks, SameMarks
        <4> QED
          BY <3>3, <4>4 DEF Held
      <3>5. Fine(B, Complete(B, t))
        <4>1. B.task[t].step = Len(Script(B.task[t].op, B.task[t].scope))
          BY <2>5, <3>3 DEF len
        <4> QED
          BY <2>4, <3>4, <4>1, CompleteSafe
      <3> QED
        BY <2>4, <3>1, <3>5 DEF Fine
    <2>6. CASE c.step # len
      <3>1. Answered(R, t, outcome) = Send(B, t, n)
        BY <1>4, <2>6 DEF Answered, len
      <3>2. n = c.step + 1 \/ (n = SessionIdentity /\ kind = "session" /\ c.op = "allocate" /\ c.step = SessionKnownUser)
        BY DEF NextStep
      <3>3. n \in 1..len
        <4>1. n = SessionIdentity /\ kind = "session" /\ c.op = "allocate" => n \in 1..len
          BY <2>2 DEF LengthFits, SessionIdentity
        <4> HIDE DEF n, c
        <4> QED
          BY <2>3, <2>6, <3>2, <4>1
      <3>4. Follows(c, n)
        BY <3>2, <3>3 DEF Follows, len
      <3>5. kind = "session" /\ c.op = "allocate" => (c.scope \in B.ad.users <=> n > SessionIdentity)
        <4>1. HAVE kind = "session" /\ c.op = "allocate"
        <4>2. c.scope \in R.ad.users <=> c.step > SessionIdentity
          BY <4>1 DEF Held
        <4>3. len = 4
          BY <2>2, <4>1 DEF LengthFits
        <4>4. B.ad.users = IF c.step = SessionIdentity THEN R.ad.users \cup {c.scope} ELSE R.ad.users
          BY <2>1, <4>1 DEF Bound, IsFresh
        <4> HIDE DEF c, n, B
        <4> QED
          BY <2>3, <2>6, <3>2, <4>2, <4>3, <4>4 DEF SessionIdentity, SessionKnownUser
      <3>6. Binds(R, t, n, B)
        BY <2>1, <3>5 DEF Bound, Binds
      <3>7. Ready(B, t, n)
        BY <1>1, <3>4, <3>6, NextReady
      <3>8. Fine(B, Send(B, t, n))
        BY <2>4, <3>7, SendSafe
      <3> HIDE DEF B, n
      <3> QED
        BY <2>4, <3>1, <3>8 DEF Fine
    <2> QED
      BY <2>5, <2>6
  <1> QED
    BY <1>2, <1>3, <1>4
-----------------------------------------------------------------------------
(* A call begins.                                                          *)

Retasked(S, t, d, X) ==
    /\ X \in Systems /\ X.rest = S.rest /\ X.ad = S.ad /\ X.wire = S.wire
    /\ X.task = [S.task EXCEPT ![t] = d]

\* A caller without a request on the wire may be put anywhere before one.
LEMMA RetaskSafe ==
    ASSUME NEW S, NEW t \in Tasks, NEW d \in Callings, kind \in Kinds, Sound(S, Waiting(S)),
           S.task[t].at # "wait", d.at # "wait", d.at = "lock" => Made(d) /\ LockOf(d) # "none"
    PROVE  /\ Retasked(S, t, d, [S EXCEPT !.task[t] = d]) /\ Fine(S, [S EXCEPT !.task[t] = d])
           /\ Waiting([S EXCEPT !.task[t] = d]) = Waiting(S)
  <1> DEFINE k == [S.task EXCEPT ![t] = d]
             X == [S EXCEPT !.task[t] = d]
             W == Waiting(S)
  <1>1. S \in Systems /\ S.task \in [Tasks -> Callings]
    BY SystemFields DEF Sound, Callers
  <1>2. k \in Callers /\ k[t] = d /\ \A u \in Tasks \ {t} : k[u] = S.task[u]
    BY <1>1 DEF Callers
  <1>3. X = [S EXCEPT !.task = k]
    OBVIOUS
  <1>4. k = [S.task EXCEPT ![t] = d]
    OBVIOUS
  <1> HIDE DEF k, X
  <1>5. X \in Systems /\ X.rest = S.rest /\ X.ad = S.ad /\ X.wire = S.wire /\ X.task = k
    BY <1>1, <1>2, <1>3 DEF Systems
  <1>6. Waiting(X) = W
    BY <1>2, <1>5 DEF Waiting
  <1>7. CallsMade(X)
    BY <1>2, <1>5 DEF CallsMade, Sound
  <1>8. Harmless(S, X, W)
    <2>1. ClientsKept(S, X, W)
      BY <1>5 DEF ClientsKept, ClientKept
    <2>2. MarksKept(S, X) /\ BatchesKept(S.ad, X.ad)
      BY <1>5 DEF MarksKept, BatchesKept
    <2>3. UsersKept(S.ad, X.ad)
      BY <1>5 DEF UsersKept, Sound, Using
    <2>4. \A u \in W : CallKept(S, X, u)
      <3>1. \A u \in W : X.task[u] = S.task[u]
        BY <1>2, <1>5 DEF Waiting
      <3> QED
        BY <1>5, <3>1 DEF CallKept
    <2> QED
      BY <1>5, <2>1, <2>2, <2>3, <2>4 DEF Harmless
  <1>9. Sound(X, W) /\ \A C : ClosesInOrder(S, C) => ClosesInOrder(X, C)
    <2>1. W \in SUBSET Waiting(S) /\ Sound(S, W)
      OBVIOUS
    <2> HIDE DEF W
    <2> QED
      BY <1>5, <1>7, <1>8, <2>1, HarmlessSafe
  <1>10. Retasked(S, t, d, X)
    BY <1>4, <1>5 DEF Retasked
  <1> QED
    BY <1>6, <1>9, <1>10 DEF Fine, X

\* What must be so of a call that begins.
MayStart(S, t) ==
    LET c == S.task[t]
        W == Waiting(S) \ {t}
    IN  /\ t \in Tasks /\ Made(c) /\ LockFree(S.ad, c) /\ MayBegin(S.ad, c)
        /\ c.op = "ready" => \A d \in Plan : Settled(S.ad, c.scope, d)
        /\ kind = "session" =>
              /\ c.op \notin {"resolve", "allocate"} => c.scope \in S.ad.users
              /\ c.op = "allocate" =>
                    /\ c.scope \notin S.ad.users
                    /\ \A u \in W : S.task[u].op = "allocate" => S.task[u].scope # c.scope

\* The sessions that are settled are counted from the first on.
LEMMA SessionTurn ==
    ASSUME NEW S, NEW c, kind = "session", kind \in Kinds, Batches(S), Made(c), c.op = "ingest", SessionMayIngest(S.ad, c)
    PROVE  \A d \in Plan : Settled(S.ad, c.scope, d) <=> d < c.dispatch
  <1> DEFINE D == {d \in Plan : Settled(S.ad, c.scope, d)}
  <1>1. c.scope \in Scopes /\ Plan = 1..Sources /\ Sources \in Nat
    BY PlanFacts, AdaptersAssumption DEF Made
  <1>2. PICK n \in Plan \cup {Sources + 1} : \A d \in Plan : Settled(S.ad, c.scope, d) <=> d < n
    BY <1>1 DEF Batches
  <1>3. n \in Nat \ {0} /\ n - 1 \in Nat /\ n <= Sources + 1
    BY <1>1, <1>2
  <1>4. D = 1..(n - 1)
    <2>1. D = {d \in 1..Sources : d < n}
      BY <1>1, <1>2
    <2> HIDE DEF D
    <2> QED
      BY <1>1, <1>3, <2>1
  <1>5. Cardinality(1..(n - 1)) = n - 1
    <2>1. Cardinality(1..(n - 1)) = IF 1 > n - 1 THEN 0 ELSE (n - 1) - 1 + 1
      BY <1>3, FS_Interval
    <2> QED
      BY <1>3, <2>1
  <1>6. c.dispatch = Cardinality(D) + 1
    BY DEF SessionMayIngest
  <1> HIDE DEF D
  <1>7. c.dispatch = n
    BY <1>3, <1>4, <1>5, <1>6
  <1> QED
    BY <1>2, <1>7

\* An ingestion that is let in has not been tried, and its turn has come.
LEMMA IngestMayBegin ==
    ASSUME NEW S, NEW c, kind \in Kinds, S \in Systems, Tidy(S), Made(c), c.op = "ingest", MayIngest(S.ad, c)
    PROVE  /\ Key(c) \notin S.ad.attempted
           /\ c.attempt = S.ad.batch[c.scope][c.dispatch]
           /\ InTurn(S.ad, c)
           /\ \A w \in S.wire.sent : ~(w[1] = "ingest" /\ <<w[2], w[3], w[4]>> = Key(c))
  <1>1. c.scope \in Scopes /\ c.dispatch \in Plan /\ Batches(S) /\ SentIsMarked(S)
    BY DEF Made, Tidy
  <1>2. Key(c) \notin S.ad.attempted /\ c.attempt = S.ad.batch[c.scope][c.dispatch] /\ InTurn(S.ad, c)
    <2>1. CASE kind = "mem0"
      BY <2>1 DEF MayIngest, Mem0MayIngest, InTurn
    <2>2. CASE kind = "hindsight"
      BY <2>2 DEF MayIngest, HindsightMayIngest, InTurn
    <2>3. CASE kind = "openviking"
      <3>1. \A k \in S.ad.attempted : k[1] # c.scope
        BY <2>3 DEF MayIngest, OpenVikingMayIngest
      <3>2. Key(c)[1] = c.scope
        BY DEF Key
      <3>3. S.ad.batch[c.scope][c.dispatch] = 1 /\ c.attempt = 1
        BY <1>1, <2>3, <3>1 DEF Batches, Made
      <3> QED
        BY <2>3, <3>1, <3>2, <3>3 DEF InTurn
    <2>4. CASE kind = "session"
      <3>1. SessionMayIngest(S.ad, c)
        BY <2>4 DEF MayIngest
      <3>2. \A d \in Plan : Settled(S.ad, c.scope, d) <=> d < c.dispatch
        BY <1>1, <2>4, <3>1, SessionTurn
      <3> QED
        BY <2>4, <3>1, <3>2 DEF SessionMayIngest, InTurn
    <2> QED
      BY <2>1, <2>2, <2>3, <2>4, AdaptersAssumption
  <1>3. ASSUME NEW w \in S.wire.sent, w[1] = "ingest" PROVE <<w[2], w[3], w[4]>> \in S.ad.attempted
    BY <1>1, <1>3 DEF SentIsMarked
  <1> QED
    BY <1>2, <1>3

\* With its lock, a call that may begin may send its first request.
LEMMA LockedReady ==
    ASSUME NEW S, NEW t, NEW Y, kind \in Kinds, Sound(S, Waiting(S) \ {t}), MayStart(S, t),
           Becomes(S, LockSet(S.ad, S.task[t], t), S.rest, Y)
    PROVE  Ready(Y, t, 1)
  <1> DEFINE c == S.task[t]
             W == Waiting(S) \ {t}
  <1>1. /\ S \in Systems /\ S.ad \in Ads /\ t \in Tasks /\ Made(c) /\ c.op \in Ops /\ c.scope \in Scopes
        /\ (c.op = "probe" => kind = "openviking") /\ MayBegin(S.ad, c) /\ Tidy(S) /\ AllUnderway(S, W)
    BY SystemFields DEF Sound, MayStart, Made
  <1>2. /\ Y.ad = LockSet(S.ad, c, t) /\ Y.task = S.task /\ Y.wire = S.wire /\ Waiting(Y) = Waiting(S)
    BY DEF Becomes, Waiting
  <1>3. HoldsLock(Y.ad, t, c)
    BY <1>1, <1>2, LockTaken
  <1>4. SameMarks(S.ad, Y.ad) /\ SameBatches(S.ad, Y.ad) /\ SameUsers(S.ad, Y.ad)
    BY <1>1, <1>2, LockSetFields
  <1>5. \A s, d : Settled(Y.ad, s, d) <=> Settled(S.ad, s, d)
    BY <1>4 DEF SameBatches, Settled
  <1>6. 1 \in 1..Len(Script(c.op, c.scope))
    <2>1. Len(Script(c.op, c.scope)) \in Nat \ {0}
      BY <1>1, ScriptFacts DEF LengthFits
    <2> QED
      BY <2>1
  <1>7. c.op = "ingest" =>
              /\ Key(c) \in Y.ad.attempted <=> 1 > 1
              /\ c.attempt = Y.ad.batch[c.scope][c.dispatch]
              /\ \A w \in Y.wire.sent : w[1] = "ingest" /\ <<w[2], w[3], w[4]>> = Key(c) =>
                    w[5] <= 1 /\ (Script(c.op, c.scope)[1].write => w[5] < 1)
              /\ InTurn(Y.ad, c)
              /\ \A u \in W : Y.task[u].op = "ingest" => Key(Y.task[u]) # Key(c)
    <2>1. HAVE c.op = "ingest"
    <2>2. MayIngest(S.ad, c)
      BY <1>1, <2>1 DEF MayBegin
    <2>3. /\ Key(c) \notin S.ad.attempted
          /\ c.attempt = S.ad.batch[c.scope][c.dispatch]
          /\ InTurn(S.ad, c)
          /\ \A w \in S.wire.sent : ~(w[1] = "ingest" /\ <<w[2], w[3], w[4]>> = Key(c))
      BY <1>1, <2>1, <2>2, IngestMayBegin
    <2>4. InTurn(Y.ad, c)
      BY <1>4, <1>5, <2>3 DEF InTurn, SameBatches
    <2>5. \A u \in W : S.task[u].op = "ingest" => Key(S.task[u]) # Key(c)
      <3>1. \A u \in W : S.task[u].op = "ingest" => Key(S.task[u]) \in S.ad.attempted
        BY <1>1 DEF AllUnderway, Underway, Ingesting
      <3> HIDE DEF c, W
      <3> QED
        BY <2>3, <3>1
    <2> HIDE DEF c, W
    <2> QED
      BY SMTT(30), <1>2, <1>4, <2>3, <2>4, <2>5 DEF SameMarks, SameBatches
  <1>8. c.op = "allocate" /\ kind \in {"hindsight", "openviking"} =>
              (c.scope \in Y.ad.allocAttempted <=> 1 > MarkedStep("allocate"))
    <2>1. HAVE c.op = "allocate" /\ kind \in {"hindsight", "openviking"}
    <2>2. c.scope \notin S.ad.allocAttempted
      BY <1>1, <2>1 DEF MayBegin, MayAllocate
    <2>3. ~(1 > MarkedStep("allocate"))
      BY <2>1 DEF MarkedStep
    <2> QED
      BY <1>4, <2>2, <2>3 DEF SameMarks
  <1>9. c.op = "probe" => c.scope \notin Y.ad.probed
    BY <1>1, <1>4 DEF MayBegin, SameMarks
  <1>10. c.op = "ready" => \A d \in Plan : Settled(Y.ad, c.scope, d)
    BY <1>5 DEF MayStart
  <1>11. kind = "session" =>
              /\ c.op \notin {"resolve", "allocate"} => c.scope \in Y.ad.users
              /\ c.op = "allocate" =>
                    /\ c.scope \in Y.ad.users <=> 1 > SessionIdentity
                    /\ \A u \in W : Y.task[u].op = "allocate" => Y.task[u].scope # c.scope
    <2>1. Y.ad.users = S.ad.users /\ ~(1 > SessionIdentity)
      BY <1>4 DEF SameUsers, SessionIdentity
    <2>2. kind = "session" =>
              /\ c.op \notin {"resolve", "allocate"} => c.scope \in S.ad.users
              /\ c.op = "allocate" =>
                    /\ c.scope \notin S.ad.users
                    /\ \A u \in W : S.task[u].op = "allocate" => S.task[u].scope # c.scope
      BY DEF MayStart
    <2> HIDE DEF c, W
    <2> QED
      BY <1>2, <2>1, <2>2
  <1> HIDE DEF c, W
  <1>12. Y.task[t] = c /\ Waiting(Y) \ {t} = W
    BY <1>2 DEF c, W
  <1> QED
    BY <1>1, <1>3, <1>6, <1>7, <1>8, <1>9, <1>10, <1>11, <1>12 DEF Ready

\* A call that may begin leaves all in order.
LEMMA BeginSafe ==
    ASSUME NEW S, NEW t, kind \in Kinds, Sound(S, Waiting(S) \ {t}), MayStart(S, t)
    PROVE  Fine(S, Begin(S, t))
  <1> DEFINE c == S.task[t]
             b == LockSet(S.ad, c, t)
             W == Waiting(S) \ {t}
             Y == With(S, b, S.rest)
  <1>1. S \in Systems /\ S.ad \in Ads /\ S.rest \in Rests /\ t \in Tasks /\ Made(c) /\ LockFree(S.ad, c)
    BY SystemFields DEF Sound, MayStart
  <1>2. b \in Ads /\ SameMarks(S.ad, b) /\ SameBatches(S.ad, b) /\ SameUsers(S.ad, b)
    BY <1>1, LockSetFields
  <1>3. Becomes(S, b, S.rest, Y) /\ Waiting(Y) = Waiting(S)
    BY <1>1, <1>2, WithIs
  <1>4. Begin(S, t) = Send(Y, t, 1)
    <2>1. [S EXCEPT !.ad = b] = Y
      <3> HIDE DEF b
      <3> QED
        BY <1>1 DEF With, Systems
    <2> QED
      BY <2>1 DEF Begin
  <1>5. ASSUME NEW u \in W PROVE CallKept(S, Y, u)
    <2>1. u \in Tasks /\ u # t /\ S.task[u].at = "wait"
      BY <1>5 DEF Waiting
    <2>2. Made(S.task[u])
      BY <2>1 DEF Sound, CallsMade
    <2>3. HoldsLock(S.ad, u, S.task[u]) => HoldsLock(b, u, S.task[u])
      BY <1>1, <2>1, <2>2, LocksKept
    <2> HIDE DEF b, Y
    <2> QED
      BY <1>2, <1>3, <2>3 DEF CallKept, SameMarks, SameUsers, Becomes
  <1>6. Ready(Y, t, 1)
    BY <1>3, LockedReady
  <1> HIDE DEF b, Y
  <1>7. Harmless(S, Y, W)
    <2>1. ClientsKept(S, Y, W)
      BY <1>3 DEF ClientsKept, ClientKept, Becomes
    <2>2. MarksKept(S, Y) /\ BatchesKept(S.ad, Y.ad)
      BY <1>2, <1>3 DEF MarksKept, BatchesKept, SameMarks, SameBatches, Becomes
    <2>3. UsersKept(S.ad, Y.ad)
      <3>1. kind = "session" => S.ad.allocated \cup S.ad.planned \cup S.ad.ready \subseteq S.ad.users
        BY DEF Sound, Using
      <3> QED
        BY <1>2, <1>3, <3>1 DEF UsersKept, SameUsers, SameBatches, Becomes
    <2> QED
      BY <1>3, <1>5, <2>1, <2>2, <2>3 DEF Harmless, Becomes
  <1>8. CallsMade(Y) /\ W \in SUBSET Waiting(S) /\ Sound(S, W)
    BY <1>3 DEF Sound, CallsMade, Becomes
  <1>9. Sound(Y, Waiting(Y) \ {t}) /\ \A C : ClosesInOrder(S, C) => ClosesInOrder(Y, C)
    <2>1. Y \in Systems /\ Waiting(Y) \ {t} = W
      BY <1>3 DEF Becomes
    <2> HIDE DEF W
    <2> QED
      BY <1>7, <1>8, <2>1, HarmlessSafe
  <1>10. Fine(Y, Send(Y, t, 1))
    BY <1>1, <1>6, <1>9, SendSafe
  <1> QED
    BY <1>4, <1>9, <1>10 DEF Fine
-----------------------------------------------------------------------------
(* The actions.  Which adapter it is never changes, so that what is said of *)
(* a state means the same before and after a step.                         *)

\* Nothing said of a state depends on the other variables.
LEMMA KindStays ==
    ASSUME kind' = kind
    PROVE  /\ \A S, W : Sound(S, W)' <=> Sound(S, W)
           /\ \A S, C : ClosesInOrder(S, C)' <=> ClosesInOrder(S, C)
           /\ \A S : Waiting(S)' = Waiting(S)
  <1>1. Plan' = Plan
    BY DEF Plan, Mem0Plan, HindsightPlan, OpenVikingPlan, SessionPlan
  <1>2. \A op, s : Script(op, s)' = Script(op, s)
    BY DEF Script
  <1>3. \A c : LockOf(c)' = LockOf(c)
    BY DEF LockOf
  <1>4. \A op : MarkedStep(op)' = MarkedStep(op)
    BY DEF MarkedStep
  <1>5. OwnClients' = OwnClients
    BY DEF OwnClients
  <1>6. \A S : Waiting(S)' = Waiting(S)
    BY DEF Waiting
  <1>7. \A c : Made(c)' <=> Made(c)
    BY <1>1 DEF Made
  <1>8. Systems' = Systems
    <2>1. KeySets' = KeySets /\ BatchSets' = BatchSets /\ BatchTables' = BatchTables
      BY <1>1 DEF KeySets, Keys, BatchSets, BatchTables
    <2>2. Ads' = Ads
      BY <2>1 DEF Ads
    <2> QED
      BY <2>2 DEF Systems
  <1>9. \A S : CallsMade(S)' <=> CallsMade(S)
    BY <1>2, <1>3, <1>7 DEF CallsMade
  <1>10. \A a, t, c : HoldsLock(a, t, c)' <=> HoldsLock(a, t, c)
    BY <1>3 DEF HoldsLock
  <1>11. \A a, s, d : Settled(a, s, d)' <=> Settled(a, s, d)
    BY DEF Settled
  <1>12. \A a, c : InTurn(a, c)' <=> InTurn(a, c)
    BY <1>1, <1>11 DEF InTurn
  <1>13. \A S, c : Ingesting(S, c)' <=> Ingesting(S, c)
    BY <1>12 DEF Ingesting
  <1>14. \A S, t, c : Underway(S, t, c)' <=> Underway(S, t, c)
    BY <1>1, <1>4, <1>10, <1>11, <1>13 DEF Underway
  <1>15. \A S, W : AllUnderway(S, W)' <=> AllUnderway(S, W)
    BY <1>14 DEF AllUnderway
  <1>16. \A S : Tidy(S)' <=> Tidy(S)
    <2>1. \A S : SentIsMarked(S)' <=> SentIsMarked(S)
      BY DEF SentIsMarked
    <2>2. \A S : MarkedIsSent(S)' <=> MarkedIsSent(S)
      BY DEF MarkedIsSent
    <2>3. \A S : NoneTwice(S)' <=> NoneTwice(S)
      BY DEF NoneTwice
    <2>4. \A S : Batches(S)' <=> Batches(S)
      BY <1>1, <1>11 DEF Batches
    <2> QED
      BY <2>1, <2>2, <2>3, <2>4 DEF Tidy
  <1>17. \A c : ClientOf(c)' = ClientOf(c)
    BY <1>2 DEF ClientOf
  <1>18. \A S, W : Using(S, W)' <=> Using(S, W)
    BY <1>17 DEF Using
  <1>19. \A S : ClientsInOrder(S)' <=> ClientsInOrder(S)
    BY DEF ClientsInOrder
  <1>20. \A S, C : ClosesInOrder(S, C)' <=> ClosesInOrder(S, C)
    BY <1>5 DEF ClosesInOrder, CloseFits
  <1>21. \A S, W : Sound(S, W)' <=> Sound(S, W)
    BY <1>8, <1>9, <1>15, <1>16, <1>18, <1>19 DEF Sound
  <1> QED
    BY <1>6, <1>20, <1>21

\* The next state is the one it becomes.
LEMMA BecomeNow ==
    ASSUME NEW X \in Systems, Become(X)
    PROVE  Now' = X
  <1>1. rest' = X.rest /\ ad' = X.ad /\ task' = X.task /\ wire' = X.wire
    BY DEF Become
  <1>2. X = [rest |-> X.rest, ad |-> X.ad, task |-> X.task, wire |-> X.wire]
    BY DEF Systems
  <1> QED
    BY <1>1, <1>2 DEF Now

\* A step of the callers keeps the invariant if the state it leads to is in order.
LEMMA FineStep ==
    ASSUME AdaptersInv, NEW X, Become(X), Fine(Now, X), kind' = kind, closer' = closer
    PROVE  AdaptersInv'
  <1>1. X \in Systems
    BY DEF Fine, Sound
  <1>2. Now' = X
    BY <1>1, BecomeNow
  <1>3. Sound(X, Waiting(X)) /\ ClosesInOrder(X, closer)
    BY DEF Fine, AdaptersInv
  <1>4. Sound(Now, Waiting(Now))'
    BY <1>2, <1>3, KindStays
  <1>5. ClosesInOrder(Now, closer)'
    BY <1>2, <1>3, KindStays
  <1> QED
    BY <1>4, <1>5 DEF AdaptersInv

\* What follows a state that is in order after another follows that one too.
LEMMA FineAfter ==
    ASSUME NEW S, NEW X, NEW Y, Fine(S, X), Fine(X, Y)
    PROVE  Fine(S, Y)
  BY DEF Fine

\* A call is made with arguments it may be made with.
LEMMA CallMade ==
    ASSUME NEW c \in Calls, kind \in Kinds, c.op = "probe" => kind = "openviking"
    PROVE  Made(c) /\ c.at = "idle"
  <1>1. Plan \subseteq Nat \ {0} /\ MaxBatchAttempt \in Nat \ {0}
    BY PlanFacts, AdaptersAssumption
  <1>2. CASE c.op # "ingest"
    <2>1. c \in [op : Ops \ {"ingest"}, scope : Scopes, dispatch : {0}, attempt : {0}, at : {"idle"}, step : {0}]
      BY <1>2 DEF Calls
    <2> QED
      BY <1>2, <2>1 DEF Made, Callings
  <1>3. CASE c.op = "ingest"
    <2>1. c \in [op : {"ingest"}, scope : Scopes, dispatch : Plan,
                 attempt : 1..(IF kind = "openviking" THEN 1 ELSE MaxBatchAttempt),
                 at : {"idle"}, step : {0}]
      BY <1>3 DEF Calls
    <2>2. c.attempt \in 1..MaxBatchAttempt /\ (kind = "openviking" => c.attempt = 1)
      BY <1>1, <2>1
    <2>3. c.dispatch \in Plan /\ c.dispatch \in Nat /\ c.attempt \in Nat /\ c.scope \in Scopes /\ c.at = "idle"
      <3>1. c.dispatch \in Plan /\ c.scope \in Scopes /\ c.at = "idle"
        BY <2>1
      <3>2. c.dispatch \in Nat
        BY <1>1, <3>1
      <3>3. c.attempt \in Nat
        BY <1>1, <2>2
      <3> QED
        BY <3>1, <3>2, <3>3
    <2>4. c \in Callings
      BY <1>3, <2>1, <2>3 DEF Callings, Ops
    <2> QED
      BY <1>3, <2>2, <2>3, <2>4 DEF Made, Ops
  <1> QED
    BY <1>2, <1>3

\* The parts of the invariant, of the state as a record.
LEMMA NowSound ==
    ASSUME AdaptersInv
    PROVE  /\ kind \in Kinds /\ Sound(Now, Waiting(Now)) /\ Now \in Systems /\ ClosesInOrder(Now, closer)
           /\ Now.rest = rest /\ Now.ad = ad /\ Now.task = task /\ Now.wire = wire
           /\ task \in [Tasks -> Callings] /\ rest \in Rests /\ ad \in Ads /\ wire \in Wires
  <1>1. Now.rest = rest /\ Now.ad = ad /\ Now.task = task /\ Now.wire = wire
    BY DEF Now
  <1>2. kind \in Kinds /\ Sound(Now, Waiting(Now)) /\ Now \in Systems /\ ClosesInOrder(Now, closer)
    BY DEF AdaptersInv, Sound
  <1> QED
    BY <1>1, <1>2, SystemFields DEF Callers

\* A caller begins a call, or waits for its lock.
LEMMA CallStep ==
    ASSUME AdaptersInv, NEW t \in Tasks, NEW c \in Calls, Call(t, c)
    PROVE  AdaptersInv'
  <1>1. /\ kind \in Kinds /\ Sound(Now, Waiting(Now)) /\ Now \in Systems
        /\ Now.ad = ad /\ Now.task = task /\ Now.wire = wire /\ task \in [Tasks -> Callings]
    BY NowSound
  <1>2. /\ task[t].at = "idle" /\ MayCall(ad, c)
        /\ kind = "session" /\ c.op = "allocate" =>
              /\ c.scope \notin ad.users
              /\ \A u \in Tasks : task[u].op = "allocate" => task[u].scope # c.scope
        /\ kind' = kind /\ closer' = closer
    BY DEF Call
  <1>3. c.op = "probe" => kind = "openviking"
    BY <1>2 DEF MayCall
  <1>4. Made(c) /\ c.at = "idle"
    BY <1>1, <1>3, CallMade
  <1>5. CASE LockFree(ad, c)
    <2> DEFINE X == [Now EXCEPT !.task[t] = c]
    <2>1. MayBegin(ad, c) /\ Become(Begin(X, t))
      BY <1>5 DEF Call
    <2>2. c \in Callings /\ Now.task[t].at # "wait" /\ c.at # "wait" /\ c.at # "lock"
      BY <1>1, <1>2, <1>4 DEF Made
    <2>3. Retasked(Now, t, c, X) /\ Fine(Now, X) /\ Waiting(X) = Waiting(Now)
      BY <1>1, <2>2, RetaskSafe
    <2> HIDE DEF X
    <2>4. X.task[t] = c /\ X.ad = ad /\ \A u \in Tasks \ {t} : X.task[u] = task[u]
      BY <1>1, <2>3 DEF Retasked
    <2>5. Sound(X, Waiting(X) \ {t})
      BY <2>3, SoundOfFewer DEF Fine
    <2>6. c.op = "ready" => \A d \in Plan : Settled(ad, c.scope, d)
      BY <1>2 DEF MayCall
    <2>7. kind = "session" /\ c.op \notin {"resolve", "allocate"} => c.scope \in ad.users
      <3>1. HAVE kind = "session" /\ c.op \notin {"resolve", "allocate"}
      <3>2. ad.allocated \cup ad.planned \cup ad.ready \subseteq ad.users
        BY <1>1, <3>1 DEF Sound, Using
      <3>3. c.op \in {"ingest", "ready", "project", "retrieve"}
        BY <1>3, <1>4, <3>1 DEF Made, Ops
      <3>4. c.scope \in ad.allocated \cup ad.planned \cup ad.ready
        BY <1>2, <3>1, <3>3 DEF MayCall
      <3> QED
        BY <3>2, <3>4
    <2>8. \A u \in Waiting(X) \ {t} : u \in Tasks \ {t}
      BY DEF Waiting
    <2>9. MayStart(X, t)
      BY <1>2, <1>4, <1>5, <2>1, <2>4, <2>6, <2>7, <2>8 DEF MayStart
    <2>10. Fine(X, Begin(X, t))
      BY <1>1, <2>5, <2>9, BeginSafe
    <2>11. Fine(Now, Begin(X, t))
      BY <2>3, <2>10, FineAfter
    <2> QED
      BY <1>2, <2>1, <2>11, FineStep
  <1>6. CASE ~LockFree(ad, c)
    <2> DEFINE d == [c EXCEPT !.at = "lock"]
    <2>1. Become([Now EXCEPT !.task[t] = d])
      BY <1>6 DEF Call
    <2>2. Made(d) /\ Same(c, d) /\ d.at = "lock"
      BY <1>4, WaitCall
    <2>3. LockOf(c) # "none"
      BY <1>6 DEF LockFree
    <2> HIDE DEF d
    <2>4. d \in Callings /\ LockOf(d) # "none" /\ Now.task[t].at # "wait"
      BY <1>1, <1>2, <2>2, <2>3 DEF Made, Same
    <2>5. Fine(Now, [Now EXCEPT !.task[t] = d])
      BY <1>1, <2>2, <2>4, RetaskSafe
    <2> QED
      BY <1>2, <2>1, <2>5, FineStep
  <1> QED
    BY <1>5, <1>6

\* A call that waited for its lock is checked again before it begins.
LEMMA TurnStep ==
    ASSUME AdaptersInv, NEW t \in Tasks, Turn(t)
    PROVE  AdaptersInv'
  <1> DEFINE c == task[t]
  <1>1. /\ kind \in Kinds /\ Sound(Now, Waiting(Now)) /\ Now \in Systems
        /\ Now.ad = ad /\ Now.task = task
    BY NowSound
  <1>2. /\ c.at = "lock" /\ LockFree(ad, c) /\ kind' = kind /\ closer' = closer
        /\ Become(IF MayBegin(ad, c) THEN Begin(Now, t) ELSE [Now EXCEPT !.task[t] = Idle])
    BY DEF Turn
  <1>3. Made(c) /\ LockOf(c) # "none"
    BY <1>1, <1>2 DEF Sound, CallsMade
  <1>4. CASE MayBegin(ad, c)
    <2>1. kind # "session" /\ c.op # "ready"
      BY <1>3 DEF LockOf, Made
    <2>2. MayStart(Now, t)
      BY <1>1, <1>2, <1>3, <1>4, <2>1 DEF MayStart
    <2>3. Sound(Now, Waiting(Now) \ {t})
      BY <1>1, SoundOfFewer
    <2>4. Fine(Now, Begin(Now, t))
      BY <1>1, <2>2, <2>3, BeginSafe
    <2>5. Become(Begin(Now, t))
      BY <1>2, <1>4
    <2> QED
      BY <1>2, <2>4, <2>5, FineStep
  <1>5. CASE ~MayBegin(ad, c)
    <2>1. Fine(Now, [Now EXCEPT !.task[t] = Idle])
      BY <1>1, <1>2, IdleCall, RetaskSafe
    <2>2. Become([Now EXCEPT !.task[t] = Idle])
      BY <1>2, <1>5
    <2> QED
      BY <1>2, <2>1, <2>2, FineStep
  <1> QED
    BY <1>4, <1>5

\* A call that waits for its lock has left nothing behind.
LEMMA CancelStep ==
    ASSUME AdaptersInv, NEW t \in Tasks, CancelWaiting(t)
    PROVE  AdaptersInv'
  <1>1. /\ kind \in Kinds /\ Sound(Now, Waiting(Now)) /\ Now.task = task
    BY NowSound
  <1>2. task[t].at = "lock" /\ kind' = kind /\ closer' = closer /\ Become([Now EXCEPT !.task[t] = Idle])
    BY DEF CancelWaiting
  <1>3. Fine(Now, [Now EXCEPT !.task[t] = Idle])
    BY <1>1, <1>2, IdleCall, RetaskSafe
  <1> QED
    BY <1>2, <1>3, FineStep

\* How a request that was sent ends is not that it was never sent.
LEMMA OutcomeWasSent ==
    ASSUME NEW write, NEW ending \in Endings
    PROVE  RequestOutcome(write, ending) # "before_dispatch"
  BY DEF RequestOutcome, Endings

\* A call gets its answer.
LEMMA AnswerStep ==
    ASSUME AdaptersInv, NEW t \in Tasks, Answer(t)
    PROVE  AdaptersInv'
  <1> DEFINE c == task[t]
             q == Script(c.op, c.scope)[c.step]
             p == q.client
  <1>1. /\ kind \in Kinds /\ Sound(Now, Waiting(Now)) /\ Now \in Systems
        /\ Now.rest = rest /\ Now.ad = ad /\ Now.task = task /\ Now.wire = wire
        /\ rest \in Rests /\ wire \in Wires
    BY NowSound
  <1>2. c.at = "wait" /\ t \in Waiting(Now)
    BY <1>1 DEF Answer, Waiting
  <1>3. Made(c) /\ c.step \in 1..Len(Script(c.op, c.scope))
    BY <1>1, <1>2 DEF Sound, CallsMade
  <1>4. RequestFits(c.op, c.scope, c.step, q)
    BY <1>1, <1>3, ScriptFacts DEF Made
  <1>5. p \in Clients /\ c.scope \in Scopes
    BY <1>3, <1>4 DEF RequestFits, Made
  <1>6. PICK ending \in Endings, applied \in BOOLEAN : Respond(t, RequestOutcome(q.write, ending), applied)
    BY DEF Answer
  <1> DEFINE outcome == RequestOutcome(q.write, ending)
             R == [Now EXCEPT !.rest[p] = Released(@, t),
                              !.wire.banks = IF c.op = "allocate" /\ q.write /\ applied
                                             THEN @ \cup {c.scope} ELSE @]
             r == [rest EXCEPT ![p] = Released(rest[p], t)]
             e == [wire EXCEPT !.banks = IF c.op = "allocate" /\ q.write /\ applied
                                         THEN wire.banks \cup {c.scope} ELSE wire.banks]
  <1>7. Become(Answered(R, t, outcome)) /\ kind' = kind /\ closer' = closer
    <2>1. R.task = task
      BY <1>1
    <2>2. /\ Become(IF outcome # "ok" THEN Fail(R, t, outcome)
                  ELSE IF Rejects(R, c) THEN Fail(R, t, "failure")
                  ELSE IF c.step = Len(Script(c.op, c.scope)) THEN Complete(BindUser(Baseline(R, c), c), t)
                  ELSE Send(BindUser(Baseline(R, c), c), t, NextStep(R, c)))
          /\ kind' = kind /\ closer' = closer
      BY <1>6 DEF Respond
    <2> HIDE DEF R, outcome
    <2> QED
      BY <2>1, <2>2 DEF Answered
  <1>8. outcome # "before_dispatch"
    BY OutcomeWasSent
  <1> HIDE DEF outcome, q, p
  <1>9. r \in Rests
    <2>1. rest[p] \in Transports
      BY <1>1, <1>5, SystemFields
    <2>2. Released(rest[p], t) \in Transports
      BY <2>1 DEF Released, Transports, TaskSets
    <2> QED
      BY <1>1, <1>5, <2>2 DEF Rests
  <1>10. e \in Wires /\ e.sent = wire.sent /\ e.twice = wire.twice
    <2>1. wire.banks \cup {c.scope} \in ScopeSets
      BY <1>1, <1>5, SystemFields DEF ScopeSets
    <2> QED
      BY <1>1, <2>1 DEF Wires
  <1>11. R = [Now EXCEPT !.rest = r, !.wire = e]
    BY <1>1
  <1>12. r = [rest EXCEPT ![p] = Released(rest[p], t)]
    OBVIOUS
  <1> HIDE DEF R, r, e
  <1>13. LetsGo(Now, t, p, R)
    BY <1>1, <1>9, <1>10, <1>11, <1>12 DEF LetsGo, Systems
  <1>14. /\ Sound(R, Waiting(R) \ {t}) /\ Held(R, t)
         /\ \A C : ClosesInOrder(Now, C) => ClosesInOrder(R, C)
    BY <1>1, <1>2, <1>5, <1>13, ReleaseSafe
  <1>15. Fine(R, Answered(R, t, outcome))
    BY <1>1, <1>8, <1>14, AnsweredSafe
  <1>16. Fine(Now, Answered(R, t, outcome))
    BY <1>14, <1>15 DEF Fine
  <1> QED
    BY <1>7, <1>16, FineStep

\* The session adapter polls the task of a commit again.
LEMMA PollStep ==
    ASSUME AdaptersInv, NEW t \in Tasks, PollAgain(t)
    PROVE  AdaptersInv'
  <1> DEFINE c == task[t]
             s == c.scope
             r == [rest EXCEPT ![s] = Released(rest[s], t)]
             R == [Now EXCEPT !.rest[s] = Released(@, t)]
  <1>1. /\ kind \in Kinds /\ Sound(Now, Waiting(Now)) /\ Now \in Systems
        /\ Now.rest = rest /\ Now.ad = ad /\ Now.task = task /\ Now.wire = wire
        /\ rest \in Rests
    BY NowSound
  <1>2. /\ kind = "session" /\ c.op = "ingest" /\ c.at = "wait" /\ c.step = SessionPoll
        /\ Become(Send(R, t, SessionPoll)) /\ kind' = kind /\ closer' = closer
    BY DEF PollAgain
  <1>3. t \in Waiting(Now)
    BY <1>1, <1>2 DEF Waiting
  <1>4. Made(c) /\ c.step \in 1..Len(Script(c.op, c.scope))
    BY <1>1, <1>2 DEF Sound, CallsMade
  <1>5. s \in Scopes /\ s \in Clients
    BY <1>4 DEF Made, Clients
  <1> HIDE DEF s
  <1>6. r \in Rests
    <2>1. rest[s] \in Transports
      BY <1>1, <1>5, SystemFields
    <2>2. Released(rest[s], t) \in Transports
      BY <2>1 DEF Released, Transports, TaskSets
    <2> QED
      BY <1>1, <1>5, <2>2 DEF Rests
  <1>7. R = [Now EXCEPT !.rest = r]
    BY <1>1
  <1>8. r = [rest EXCEPT ![s] = Released(rest[s], t)]
    OBVIOUS
  <1> HIDE DEF R, r
  <1>9. LetsGo(Now, t, s, R)
    BY <1>1, <1>6, <1>7, <1>8 DEF LetsGo, Systems
  <1>10. /\ Sound(R, Waiting(R) \ {t}) /\ Held(R, t)
         /\ \A C : ClosesInOrder(Now, C) => ClosesInOrder(R, C)
    BY <1>1, <1>3, <1>5, <1>9, ReleaseSafe
  <1>11. R \in Systems /\ R.task = task
    BY <1>1, <1>9 DEF LetsGo
  <1>12. Follows(R.task[t], SessionPoll)
    BY <1>2, <1>4, <1>11 DEF Follows
  <1>13. Binds(R, t, SessionPoll, R)
    BY <1>2, <1>11 DEF Binds, SameLocks, SameMarks, SameBatches
  <1>14. Ready(R, t, SessionPoll)
    BY <1>1, <1>10, <1>11, <1>12, <1>13, NextReady
  <1>15. Fine(R, Send(R, t, SessionPoll))
    BY <1>1, <1>10, <1>14, SendSafe
  <1>16. Fine(Now, Send(R, t, SessionPoll))
    BY <1>10, <1>15 DEF Fine
  <1> QED
    BY <1>2, <1>16, FineStep

\* A change of the adapter and its clients that is harmless keeps what is so of
\* the callers; a close has to be looked at beside.
LEMMA HarmlessNow ==
    ASSUME AdaptersInv, kind' = kind, task' = task, wire' = wire, rest' \in Rests, ad' \in Ads,
           NEW C, \A p \in Clients : ClientKept(rest[p], rest'[p], Waiting(Now)),
           SameLocks(ad, ad'), SameMarks(ad, ad'), SameBatches(ad, ad'), ad'.users = ad.users,
           kind = "session" => ad'.allocated \cup ad'.planned \subseteq ad.users
    PROVE  /\ Sound(Now, Waiting(Now))' /\ (ClosesInOrder(Now, C) => ClosesInOrder(Now', C))
           /\ Now' \in Systems /\ Now'.rest = rest' /\ Now'.ad = ad'
  <1> DEFINE X == [rest |-> rest', ad |-> ad', task |-> task, wire |-> wire]
             W == Waiting(Now)
  <1>1. /\ kind \in Kinds /\ Sound(Now, W) /\ Now \in Systems
        /\ Now.rest = rest /\ Now.ad = ad /\ Now.task = task /\ Now.wire = wire
        /\ rest \in Rests /\ wire \in Wires /\ task \in Callers
    BY NowSound DEF Callers
  <1>2. X \in Systems /\ X.rest = rest' /\ X.ad = ad' /\ X.task = task /\ X.wire = wire
    BY <1>1 DEF Systems
  <1>3. Now' = X
    BY DEF Now
  <1> HIDE DEF X
  <1>4. ClientsKept(Now, X, W)
    BY <1>1, <1>2 DEF ClientsKept
  <1>5. MarksKept(Now, X) /\ BatchesKept(Now.ad, X.ad)
    BY <1>1, <1>2 DEF MarksKept, BatchesKept, SameMarks, SameBatches
  <1>6. UsersKept(Now.ad, X.ad)
    <2>1. kind = "session" => ad.ready \subseteq ad.users
      BY <1>1 DEF Sound, Using
    <2> QED
      BY <1>1, <1>2, <2>1 DEF UsersKept, SameBatches
  <1>7. \A u \in W : CallKept(Now, X, u)
    BY <1>1, <1>2 DEF CallKept, HoldsLock, SameLocks, SameMarks
  <1>8. Harmless(Now, X, W)
    BY <1>1, <1>2, <1>4, <1>5, <1>6, <1>7 DEF Harmless
  <1>9. CallsMade(X) /\ Waiting(X) = W
    BY <1>1, <1>2 DEF Sound, CallsMade, Waiting
  <1>10. Sound(X, W) /\ (ClosesInOrder(Now, C) => ClosesInOrder(X, C))
    <2>1. W \in SUBSET Waiting(Now)
      OBVIOUS
    <2> HIDE DEF W
    <2> QED
      BY <1>1, <1>2, <1>8, <1>9, <2>1, HarmlessSafe
  <1>11. Sound(Now, Waiting(Now))'
    BY <1>3, <1>9, <1>10, KindStays
  <1> QED
    BY <1>2, <1>3, <1>10, <1>11

\* A plan is made for a scope that is allocated.
LEMMA PlanStep ==
    ASSUME AdaptersInv, NEW s \in Scopes, PlanIngestion(s)
    PROVE  AdaptersInv'
  <1>1. /\ kind \in Kinds /\ Sound(Now, Waiting(Now)) /\ Now.ad = ad /\ rest \in Rests /\ ad \in Ads
        /\ ClosesInOrder(Now, closer)
    BY NowSound
  <1>2. /\ s \in ad.allocated /\ ad' = [ad EXCEPT !.planned = @ \cup {s}]
        /\ kind' = kind /\ rest' = rest /\ task' = task /\ closer' = closer /\ wire' = wire
    BY DEF PlanIngestion
  <1>3. /\ ad' \in Ads /\ SameLocks(ad, ad') /\ SameMarks(ad, ad') /\ SameBatches(ad, ad')
        /\ ad'.users = ad.users /\ ad'.allocated = ad.allocated /\ ad'.planned = ad.planned \cup {s}
    <2>1. ad.planned \cup {s} \in ScopeSets
      BY <1>1 DEF Ads, ScopeSets
    <2> QED
      BY <1>1, <1>2, <2>1 DEF Ads, SameLocks, SameMarks, SameBatches
  <1>4. \A p \in Clients : ClientKept(rest[p], rest'[p], Waiting(Now))
    BY <1>2 DEF ClientKept
  <1>5. kind = "session" => ad'.allocated \cup ad'.planned \subseteq ad.users
    BY <1>1, <1>2, <1>3 DEF Sound, Using
  <1>6. rest' \in Rests
    BY <1>1, <1>2
  <1>7. Sound(Now, Waiting(Now))' /\ (ClosesInOrder(Now, closer) => ClosesInOrder(Now', closer))
    BY <1>2, <1>3, <1>4, <1>5, <1>6, HarmlessNow
  <1>8. ClosesInOrder(Now, closer)'
    BY <1>1, <1>2, <1>7, KindStays
  <1> QED
    BY <1>1, <1>2, <1>7, <1>8 DEF AdaptersInv
-----------------------------------------------------------------------------
(* The closes.                                                             *)

\* The clients r are the present ones, perhaps further closed.
RestKept(r) == r \in Rests /\ \A p \in Clients : ClientKept(rest[p], r[p], Waiting(Now))

\* The adapter b is the present one but for what a close changes of it.
AdKept(b) ==
    b \in Ads /\ SameLocks(ad, b) /\ SameMarks(ad, b) /\ SameBatches(ad, b) /\ SameUsers(ad, b)

\* A close that goes on keeps the invariant if it fits where it has come to.
LEMMA CloserStep ==
    ASSUME AdaptersInv, kind' = kind, task' = task, wire' = wire, RestKept(rest'), AdKept(ad'),
           NEW k \in Closers, NEW d \in Closings, closer' = [closer EXCEPT ![k] = d], CloseFits(Now', d)
    PROVE  AdaptersInv'
  <1>1. kind \in Kinds /\ Sound(Now, Waiting(Now)) /\ ClosesInOrder(Now, closer) /\ Now.ad = ad
    BY NowSound
  <1>2. kind = "session" => ad'.allocated \cup ad'.planned \subseteq ad.users
    BY <1>1 DEF Sound, Using, AdKept, SameUsers
  <1>3. Sound(Now, Waiting(Now))' /\ (ClosesInOrder(Now, closer) => ClosesInOrder(Now', closer))
    BY <1>2, HarmlessNow DEF RestKept, AdKept, SameUsers
  <1>4. ClosesInOrder(Now', closer')
    <2>1. closer \in [Closers -> Closings] /\ \A j \in Closers : CloseFits(Now', closer[j])
      BY <1>1, <1>3 DEF ClosesInOrder
    <2>2. closer' \in [Closers -> Closings] /\ \A j \in Closers : closer'[j] = IF j = k THEN d ELSE closer[j]
      BY <2>1
    <2> QED
      BY <2>1, <2>2 DEF ClosesInOrder
  <1>5. ClosesInOrder(Now, closer)'
    BY <1>4, KindStays
  <1> QED
    BY <1>1, <1>3, <1>5 DEF AdaptersInv

\* The record of the next state.
LEMMA NextFields == Now'.rest = rest' /\ Now'.ad = ad'
  BY DEF Now

\* The present clients are kept, and so are those of which one is further closed.
LEMMA RestNow ==
    ASSUME AdaptersInv
    PROVE  RestKept(rest)
  BY NowSound DEF RestKept, ClientKept

\* What a close does to one client leaves the others.
LEMMA RestWith ==
    ASSUME NEW r, RestKept(r), NEW p \in Clients, NEW x \in Transports, ClientKept(r[p], x, Waiting(Now))
    PROVE  RestKept([r EXCEPT ![p] = x])
  <1> DEFINE q == [r EXCEPT ![p] = x]
  <1>1. r \in [Clients -> Transports] /\ \A c \in Clients : ClientKept(rest[c], r[c], Waiting(Now))
    BY DEF RestKept, Rests
  <1>2. q \in Rests /\ q[p] = x /\ \A c \in Clients \ {p} : q[c] = r[c]
    BY <1>1 DEF Rests
  <1> HIDE DEF q
  <1>3. ClientKept(rest[p], x, Waiting(Now))
    BY <1>1 DEF ClientKept
  <1>4. \A c \in Clients : ClientKept(rest[c], q[c], Waiting(Now))
    BY <1>1, <1>2, <1>3
  <1> QED
    BY <1>2, <1>4 DEF RestKept, q

\* A client that stops accepting is kept.
LEMMA Stopped ==
    ASSUME NEW x \in Transports, NEW W
    PROVE  /\ StopAccepting(x) \in Transports /\ ClientKept(x, StopAccepting(x), W)
           /\ ~StopAccepting(x).accepting /\ StopAccepting(x).transport = x.transport
  <1> DEFINE y == StopAccepting(x)
  <1>1. /\ y \in Transports /\ ~y.accepting /\ y.active = x.active /\ y.httpx = x.httpx
        /\ y.transport = x.transport /\ y.closed = x.closed
    BY DEF StopAccepting, Transports
  <1> HIDE DEF y
  <1>2. ClientKept(x, y, W)
    BY <1>1 DEF ClientKept
  <1> QED
    BY <1>1, <1>2 DEF y

\* So is one whose close begins, once it is drained.
LEMMA Begun ==
    ASSUME NEW x \in Transports, NEW W, NEW k \in Closers, Drained(x), ~x.accepting
    PROVE  CloseBegins(x, k) \in Transports /\ ClientKept(x, CloseBegins(x, k), W) /\ ~CloseBegins(x, k).accepting
                                            /\ CloseBegins(x, k).transport = x.transport
  <1> DEFINE y == CloseBegins(x, k)
  <1>1. /\ y \in Transports /\ y.accepting = x.accepting /\ y.active = x.active
        /\ y.transport = x.transport /\ y.closed = x.closed
    BY DEF CloseBegins, Transports
  <1> HIDE DEF y
  <1>2. ClientKept(x, y, W)
    BY <1>1 DEF ClientKept, Drained
  <1> QED
    BY <1>1, <1>2 DEF y

\* And one whose close ends, well or badly.
LEMMA Ended ==
    ASSUME NEW x \in Transports, NEW W
    PROVE  /\ CloseEnds(x) \in Transports /\ ClientKept(x, CloseEnds(x), W) /\ CloseEnds(x).transport = "closed"
           /\ CloseBreaks(x) \in Transports /\ ClientKept(x, CloseBreaks(x), W)
  <1> DEFINE y == CloseEnds(x)
             z == CloseBreaks(x)
  <1>1. /\ y \in Transports /\ y.accepting = x.accepting /\ y.active = x.active /\ y.httpx = x.httpx
        /\ y.transport = "closed" /\ y.closed = TRUE
    BY DEF CloseEnds, Transports
  <1>2. /\ z \in Transports /\ z.accepting = x.accepting /\ z.active = x.active /\ z.httpx = x.httpx
        /\ z.transport = x.transport /\ z.closed = x.closed
    BY DEF CloseBreaks, Transports
  <1> HIDE DEF y, z
  <1>3. ClientKept(x, y, W) /\ ClientKept(x, z, W)
    BY <1>1, <1>2 DEF ClientKept
  <1> QED
    BY <1>1, <1>2, <1>3 DEF y, z

\* What a close changes of the adapter.
LEMMA AdTouched ==
    ASSUME AdaptersInv
    PROVE  /\ AdKept(ad) /\ AdKept([ad EXCEPT !.accepting = FALSE])
           /\ \A l \in Closers \cup {NoOne} : AdKept([ad EXCEPT !.closeLock = l])
  <1>1. ad \in Ads
    BY NowSound
  <1>2. AdKept(ad)
    BY <1>1 DEF AdKept, SameLocks, SameMarks, SameBatches, SameUsers
  <1>3. AdKept([ad EXCEPT !.accepting = FALSE])
    BY <1>1 DEF AdKept, Ads, SameLocks, SameMarks, SameBatches, SameUsers
  <1>4. ASSUME NEW l \in Closers \cup {NoOne} PROVE AdKept([ad EXCEPT !.closeLock = l])
    BY <1>1 DEF AdKept, Ads, SameLocks, SameMarks, SameBatches, SameUsers
  <1> QED
    BY <1>2, <1>3, <1>4

\* The closes, one by one.
LEMMA ClosersNow ==
    ASSUME AdaptersInv, NEW k \in Closers
    PROVE  /\ closer \in [Closers -> Closings] /\ closer[k] \in Closings
           /\ CloseFits(Now, closer[k]) /\ closer[k].left \subseteq ad.users
           /\ "main" \in Clients /\ "inspector" \in Clients /\ Scopes \subseteq Clients
           /\ ad.users \subseteq Scopes /\ "main" \notin Scopes
  <1>1. ClosesInOrder(Now, closer) /\ Now.ad = ad /\ ad \in Ads
    BY NowSound
  <1>2. ad.users \subseteq Scopes
    BY <1>1 DEF Ads, ScopeSets
  <1>3. "main" \notin Scopes
    BY AdaptersAssumption
  <1> QED
    BY <1>1, <1>2, <1>3 DEF ClosesInOrder, CloseFits, Clients

\* A close that is over, with r and b what is left.
LEMMA FinishStep ==
    ASSUME AdaptersInv, kind' = kind, task' = task, wire' = wire, RestKept(rest'), NEW k \in Closers,
           NEW failed \in BOOLEAN, Finish(k, failed),
           ~failed /\ kind # "session" =>
               \A i \in DOMAIN OwnClients : rest'[OwnClients[i]].transport = "closed"
    PROVE  AdaptersInv'
  <1> DEFINE d == [closer[k] EXCEPT !.at = IF failed THEN "failed" ELSE "done", !.todo = "none"]
  <1>1. closer \in [Closers -> Closings] /\ closer[k] \in Closings /\ closer[k].left \subseteq ad.users
    BY ClosersNow
  <1>2. d \in Closings /\ d.at = (IF failed THEN "failed" ELSE "done") /\ d.left = closer[k].left
    BY <1>1 DEF Closings
  <1>3. closer' = [closer EXCEPT ![k] = d]
    BY <1>1 DEF Finish
  <1>4. AdKept(ad')
    <2>1. ad' = [ad EXCEPT !.closeLock = IF ad.closeLock = k THEN NoOne ELSE ad.closeLock]
      BY DEF Finish
    <2>2. ad.closeLock \in Closers \cup {NoOne}
      BY NowSound DEF Ads
    <2> QED
      BY <2>1, <2>2, AdTouched
  <1> HIDE DEF d
  <1>5. CloseFits(Now', d)
    <2>1. Now'.rest = rest' /\ Now'.ad.users = ad.users
      BY <1>4, NextFields DEF AdKept, SameUsers
    <2> QED
      BY <1>1, <1>2, <2>1 DEF CloseFits
  <1> QED
    BY <1>2, <1>3, <1>4, <1>5, CloserStep

\* A close turns to a client: it accepts nothing more.
TurnsTo(d, c, r) ==
    /\ d \in Closings /\ d.at = "drain" /\ d.todo = c /\ d.left \subseteq ad.users /\ c \in Clients
    /\ kind = "session" => c \in ad.users \cup {"main"}
    /\ kind = "mem0" => c \in {"main", "inspector"}
    /\ kind \in {"hindsight", "openviking"} => c = "main"
    /\ kind = "mem0" /\ c = "inspector" /\ ~d.errors => r["main"].transport = "closed"

\* That keeps the invariant.
LEMMA EnterStep ==
    ASSUME AdaptersInv, kind' = kind, task' = task, wire' = wire, NEW r, RestKept(r), AdKept(ad'),
           NEW k \in Closers, NEW d, NEW c, TurnsTo(d, c, r),
           rest' = [r EXCEPT ![c] = StopAccepting(r[c])], closer' = [closer EXCEPT ![k] = d]
    PROVE  AdaptersInv'
  <1>1. r \in [Clients -> Transports] /\ c \in Clients /\ d \in Closings /\ "main" \in Clients
    BY DEF RestKept, Rests, TurnsTo, Clients
  <1>2. r[c] \in Transports
    BY <1>1
  <1>3. /\ StopAccepting(r[c]) \in Transports /\ ClientKept(r[c], StopAccepting(r[c]), Waiting(Now))
        /\ ~StopAccepting(r[c]).accepting /\ StopAccepting(r[c]).transport = r[c].transport
    BY <1>2, Stopped
  <1>4. RestKept(rest')
    BY <1>1, <1>3, RestWith
  <1>5. ~rest'[c].accepting /\ rest'["main"].transport = r["main"].transport
    BY <1>1, <1>3
  <1>6. CloseFits(Now', d)
    <2>1. Now'.rest = rest' /\ Now'.ad.users = ad.users
      BY NextFields DEF AdKept, SameUsers
    <2> QED
      BY <1>5, <2>1 DEF CloseFits, TurnsTo
  <1> QED
    BY <1>1, <1>4, <1>6, CloserStep

\* The client a close turns to is one the adapter has.
LEMMA FirstIs ==
    ASSUME NEW users
    PROVE  First(users) \in users \cup {"main"}
  BY DEF First

\* A client is done with: the close goes on to the next or is over.
LEMMA GoOnStep ==
    ASSUME AdaptersInv, kind' = kind, task' = task, wire' = wire, NEW R, RestKept(R), NEW k \in Closers,
           NEW broke \in BOOLEAN, GoOn(k, R, broke), closer[k].at \in {"drain", "aclose"},
           ~broke /\ kind # "session" => R[closer[k].todo].transport = "closed"
    PROVE  AdaptersInv'
  <1> DEFINE c == closer[k]
             changed == kind = "session" /\ c.todo # "main" /\ ad.users # c.users
             over == (broke /\ kind # "mem0") \/ changed
  <1>1. /\ closer \in [Closers -> Closings] /\ c \in Closings /\ c.left \subseteq ad.users
        /\ "main" \in Clients /\ "inspector" \in Clients /\ Scopes \subseteq Clients
        /\ ad.users \subseteq Scopes /\ "main" \notin Scopes
    BY ClosersNow
  <1>2. /\ kind \in {"mem0", "hindsight", "openviking", "session"} /\ Now.rest = rest
    BY NowSound, AdaptersAssumption
  <1>3. /\ c.todo \in Clients
        /\ kind = "mem0" => c.todo \in {"main", "inspector"}
        /\ kind \in {"hindsight", "openviking"} => c.todo = "main"
        /\ kind = "mem0" /\ c.todo = "inspector" /\ ~c.errors => rest["main"].transport = "closed"
    BY <1>2, ClosersNow DEF CloseFits
  <1>4. CASE over
    <2>1. rest' = R /\ Finish(k, TRUE)
      BY <1>4 DEF GoOn
    <2> QED
      BY <2>1, FinishStep
  <1>5. CASE ~over /\ kind = "mem0" /\ c.todo = "main"
    <2> DEFINE d == [c EXCEPT !.at = "drain", !.todo = "inspector", !.errors = broke]
    <2>1. /\ rest' = [R EXCEPT !["inspector"] = StopAccepting(R["inspector"])] /\ ad' = ad
          /\ closer' = [closer EXCEPT ![k].todo = "inspector", ![k].at = "drain", ![k].errors = broke]
      BY <1>5 DEF GoOn
    <2>2. closer' = [closer EXCEPT ![k] = d]
      BY <1>1, <2>1
    <2>3. /\ d \in Closings /\ d.at = "drain" /\ d.todo = "inspector" /\ d.errors = broke
          /\ d.left = c.left
      BY <1>1 DEF Closings
    <2> HIDE DEF d
    <2>4. TurnsTo(d, "inspector", R)
      BY <1>1, <1>5, <2>3 DEF TurnsTo
    <2>5. AdKept(ad')
      BY <2>1, AdTouched
    <2> QED
      BY <2>1, <2>2, <2>4, <2>5, EnterStep
  <1>6. CASE ~over /\ kind = "session" /\ c.todo # "main"
    <2> DEFINE f == First(c.left)
               d == [c EXCEPT !.at = "drain", !.todo = f, !.left = c.left \ {f}]
    <2>1. Enter(k, R, f) /\ ad' = ad
      BY <1>6 DEF GoOn
    <2>2. f \in c.left \cup {"main"} /\ f \in Clients /\ f \in ad.users \cup {"main"}
      BY <1>1, FirstIs
    <2> HIDE DEF f
    <2>3. closer' = [closer EXCEPT ![k] = d] /\ rest' = [R EXCEPT ![f] = StopAccepting(R[f])]
      BY <1>1, <2>1 DEF Enter
    <2>4. d \in Closings /\ d.at = "drain" /\ d.todo = f /\ d.left = c.left \ {f}
      BY <1>1, <2>2 DEF Closings
    <2> HIDE DEF d
    <2>5. TurnsTo(d, f, R)
      BY <1>1, <1>6, <2>2, <2>4 DEF TurnsTo
    <2>6. AdKept(ad')
      BY <2>1, AdTouched
    <2> QED
      BY <2>3, <2>5, <2>6, EnterStep
  <1>7. CASE ~over /\ ~(kind = "mem0" /\ c.todo = "main") /\ ~(kind = "session" /\ c.todo # "main")
    <2> DEFINE failed == c.errors \/ broke
    <2>1. rest' = R /\ Finish(k, failed)
      BY <1>7 DEF GoOn
    <2>2. failed \in BOOLEAN
      BY <1>1 DEF Closings
    <2>3. ~failed /\ kind # "session" => \A i \in DOMAIN OwnClients : R[OwnClients[i]].transport = "closed"
      <3>1. HAVE ~failed /\ kind # "session"
      <3>2. R[c.todo].transport = "closed"
        BY <3>1
      <3>3. rest["main"].transport = "closed" => R["main"].transport = "closed"
        BY <1>1, <3>1 DEF RestKept, ClientKept
      <3>4. CASE kind = "mem0"
        <4>1. c.todo = "inspector" /\ R["main"].transport = "closed"
          BY <1>3, <1>7, <3>1, <3>3, <3>4
        <4> HIDE DEF c
        <4> QED
          BY <3>2, <3>4, <4>1 DEF OwnClients
      <3>5. CASE kind # "mem0"
        <4>1. c.todo = "main"
          BY <1>2, <1>3, <3>1, <3>5
        <4> HIDE DEF c
        <4> QED
          BY <3>2, <3>5, <4>1 DEF OwnClients
      <3> QED
        BY <3>4, <3>5
    <2> HIDE DEF failed
    <2> QED
      BY <2>1, <2>2, <2>3, FinishStep
  <1> QED
    BY <1>4, <1>5, <1>6, <1>7

\* A close is called.
LEMMA CloseCallStep ==
    ASSUME AdaptersInv, NEW k \in Closers, CloseCall(k)
    PROVE  AdaptersInv'
  <1> DEFINE c == closer[k]
  <1>1. /\ closer \in [Closers -> Closings] /\ c \in Closings /\ c.left \subseteq ad.users
        /\ "main" \in Clients /\ "inspector" \in Clients /\ Scopes \subseteq Clients
        /\ ad.users \subseteq Scopes /\ "main" \notin Scopes
    BY ClosersNow
  <1>2. kind \in {"mem0", "hindsight", "openviking", "session"} /\ rest \in Rests /\ RestKept(rest)
    BY NowSound, AdaptersAssumption, RestNow
  <1>3. kind' = kind /\ task' = task /\ wire' = wire
    BY DEF CloseCall
  <1>4. AdKept(ad) /\ AdKept([ad EXCEPT !.accepting = FALSE])
    BY AdTouched
  <1>5. CASE kind = "mem0"
    <2> DEFINE d == [c EXCEPT !.at = "turn"]
    <2>1. /\ rest' = [x \in Clients |-> StopAccepting(rest[x])] /\ ad' = [ad EXCEPT !.accepting = FALSE]
          /\ closer' = [closer EXCEPT ![k].at = "turn"]
      BY <1>5 DEF CloseCall, Mem0Close
    <2>2. closer' = [closer EXCEPT ![k] = d] /\ d \in Closings /\ d.at = "turn" /\ d.left = c.left
      BY <1>1, <2>1 DEF Closings
    <2> HIDE DEF d
    <2>3. RestKept(rest')
      <3>1. ASSUME NEW x \in Clients
            PROVE  StopAccepting(rest[x]) \in Transports /\ ClientKept(rest[x], StopAccepting(rest[x]), Waiting(Now))
        BY <1>2, Stopped DEF Rests
      <3> QED
        BY <2>1, <3>1 DEF RestKept, Rests
    <2>4. AdKept(ad')
      BY <1>4, <2>1
    <2>5. CloseFits(Now', d)
      BY <1>1, <2>2, <2>4, NextFields DEF CloseFits, AdKept, SameUsers
    <2> QED
      BY <1>3, <2>2, <2>3, <2>4, <2>5, CloserStep
  <1>6. CASE kind = "openviking"
    <2> DEFINE d == [c EXCEPT !.at = "probes"]
    <2>1. /\ rest' = [rest EXCEPT !["main"] = StopAccepting(rest["main"])] /\ ad' = [ad EXCEPT !.accepting = FALSE]
          /\ closer' = [closer EXCEPT ![k].at = "probes"]
      BY <1>6 DEF CloseCall, OpenVikingClose
    <2>2. closer' = [closer EXCEPT ![k] = d] /\ d \in Closings /\ d.at = "probes" /\ d.left = c.left
      BY <1>1, <2>1 DEF Closings
    <2> HIDE DEF d
    <2>3. RestKept(rest')
      <3>1. rest["main"] \in Transports
        BY <1>1, <1>2 DEF Rests
      <3>2. /\ StopAccepting(rest["main"]) \in Transports
            /\ ClientKept(rest["main"], StopAccepting(rest["main"]), Waiting(Now))
        BY <3>1, Stopped
      <3> QED
        BY <1>1, <1>2, <2>1, <3>2, RestWith
    <2>4. AdKept(ad')
      BY <1>4, <2>1
    <2>5. CloseFits(Now', d)
      BY <1>1, <2>2, <2>4, NextFields DEF CloseFits, AdKept, SameUsers
    <2> QED
      BY <1>3, <2>2, <2>3, <2>4, <2>5, CloserStep
  <1>7. CASE kind = "hindsight"
    <2> DEFINE d == [c EXCEPT !.at = "drain", !.todo = "main", !.left = c.left \ {"main"}]
    <2>1. Enter(k, rest, "main") /\ ad' = ad
      BY <1>7 DEF CloseCall, HindsightClose
    <2>2. closer' = [closer EXCEPT ![k] = d] /\ rest' = [rest EXCEPT !["main"] = StopAccepting(rest["main"])]
      BY <1>1, <2>1 DEF Enter
    <2>3. d \in Closings /\ d.at = "drain" /\ d.todo = "main" /\ d.left = c.left \ {"main"}
      BY <1>1 DEF Closings
    <2> HIDE DEF d
    <2>4. TurnsTo(d, "main", rest) /\ AdKept(ad')
      BY <1>1, <1>4, <1>7, <2>1, <2>3 DEF TurnsTo
    <2> QED
      BY <1>2, <1>3, <2>2, <2>4, EnterStep
  <1>8. CASE kind = "session"
    <2> DEFINE f == First(ad.users)
               d == [c EXCEPT !.at = "drain", !.todo = f, !.users = ad.users, !.left = ad.users \ {f}]
    <2>1. /\ rest' = [rest EXCEPT ![f] = StopAccepting(rest[f])] /\ ad' = ad
          /\ closer' = [closer EXCEPT ![k] = d]
      BY <1>8 DEF CloseCall, SessionClose
    <2>2. f \in Clients /\ f \in ad.users \cup {"main"}
      BY <1>1, FirstIs
    <2> HIDE DEF f
    <2>3. d \in Closings /\ d.at = "drain" /\ d.todo = f /\ d.left = ad.users \ {f}
      BY <1>1, <2>2 DEF Closings
    <2> HIDE DEF d
    <2>4. TurnsTo(d, f, rest) /\ AdKept(ad')
      BY <1>1, <1>4, <1>8, <2>1, <2>2, <2>3 DEF TurnsTo
    <2> QED
      BY <1>2, <1>3, <2>1, <2>4, EnterStep
  <1> QED
    BY <1>2, <1>5, <1>6, <1>7, <1>8

\* A close of Mem0 that was under way at "turn", or of OpenViking at "probes", turns to
\* the main client.
LEMMA MainStep ==
    ASSUME AdaptersInv, NEW k \in Closers, CloseTurn(k) \/ CloseProbes(k)
    PROVE  AdaptersInv'
  <1> DEFINE c == closer[k]
             d == [c EXCEPT !.at = "drain", !.todo = "main", !.left = c.left \ {"main"}]
  <1>1. /\ closer \in [Closers -> Closings] /\ c \in Closings /\ c.left \subseteq ad.users
        /\ "main" \in Clients
    BY ClosersNow
  <1>2. Enter(k, rest, "main") /\ kind' = kind /\ task' = task /\ wire' = wire /\ RestKept(rest)
    BY RestNow DEF CloseTurn, CloseProbes
  <1>3. AdKept(ad')
    <2>1. ad' = ad \/ ad' = [ad EXCEPT !.closeLock = k]
      BY DEF CloseTurn, CloseProbes
    <2> QED
      BY <2>1, AdTouched
  <1>4. closer' = [closer EXCEPT ![k] = d] /\ rest' = [rest EXCEPT !["main"] = StopAccepting(rest["main"])]
    BY <1>1, <1>2 DEF Enter
  <1>5. d \in Closings /\ d.at = "drain" /\ d.todo = "main" /\ d.left = c.left \ {"main"}
    BY <1>1 DEF Closings
  <1> HIDE DEF d
  <1>6. TurnsTo(d, "main", rest)
    BY <1>1, <1>5 DEF TurnsTo
  <1> QED
    BY <1>2, <1>3, <1>4, <1>6, EnterStep

\* A client that is drained is closed; a close that finds it closed goes on.
LEMMA LockedStep ==
    ASSUME AdaptersInv, NEW k \in Closers, CloseLocked(k)
    PROVE  AdaptersInv'
  <1> DEFINE c == closer[k]
             p == c.todo
  <1>1. /\ closer \in [Closers -> Closings] /\ c \in Closings /\ c.left \subseteq ad.users /\ CloseFits(Now, c)
    BY ClosersNow
  <1>2. Now.rest = rest /\ Now.ad = ad /\ rest \in Rests /\ RestKept(rest) /\ Sound(Now, Waiting(Now))
    BY NowSound, RestNow
  <1>3. kind' = kind /\ task' = task /\ wire' = wire /\ c.at = "drain" /\ Drained(rest[p])
    BY DEF CloseLocked
  <1>4. /\ p \in Clients /\ ~rest[p].accepting
        /\ kind = "session" => p \in ad.users \cup {"main"}
        /\ kind = "mem0" => p \in {"main", "inspector"}
        /\ kind \in {"hindsight", "openviking"} => p = "main"
        /\ kind = "mem0" /\ p = "inspector" /\ ~c.errors => rest["main"].transport = "closed"
    <2>1. CloseFits(Now, c) /\ c.at \in {"drain", "aclose"}
      BY <1>1, <1>3
    <2> QED
      BY <1>2, <2>1 DEF CloseFits
  <1>5. rest[p] \in Transports
    BY <1>2, <1>4 DEF Rests
  <1>6. CASE rest[p].closed
    <2>1. GoOn(k, rest, FALSE)
      BY <1>6 DEF CloseLocked
    <2>2. kind # "session" => rest[p].transport = "closed"
      BY <1>2, <1>4, <1>6 DEF Sound, ClientsInOrder
    <2> QED
      BY <1>2, <1>3, <2>1, <2>2, GoOnStep
  <1>7. CASE ~rest[p].closed
    <2> DEFINE d == [c EXCEPT !.at = "aclose"]
               x == CloseBegins(rest[p], k)
    <2>1. rest' = [rest EXCEPT ![p] = x] /\ ad' = ad /\ closer' = [closer EXCEPT ![k].at = "aclose"]
      BY <1>7 DEF CloseLocked
    <2>2. closer' = [closer EXCEPT ![k] = d]
      BY <1>1, <2>1
    <2>3. d \in Closings /\ d.at = "aclose" /\ d.todo = p /\ d.left = c.left /\ d.errors = c.errors
      BY <1>1 DEF Closings
    <2>4. x \in Transports /\ ClientKept(rest[p], x, Waiting(Now)) /\ ~x.accepting /\ x.transport = rest[p].transport
      BY <1>3, <1>4, <1>5, Begun
    <2> HIDE DEF d, x, p
    <2>5. RestKept(rest') /\ AdKept(ad')
      BY <1>2, <1>4, <2>1, <2>4, RestWith, AdTouched
    <2>6. ~rest'[p].accepting /\ (rest["main"].transport = "closed" => rest'["main"].transport = "closed")
      <3>1. "main" \in Clients
        BY DEF Clients
      <3> QED
        BY <1>2, <1>4, <2>1, <2>4, <3>1 DEF Rests
    <2>7. CloseFits(Now', d)
      <3>1. Now'.rest = rest' /\ Now'.ad.users = ad.users
        BY <2>5, NextFields DEF AdKept, SameUsers
      <3> QED
        BY <1>1, <1>4, <2>3, <2>6, <3>1 DEF CloseFits
    <2> QED
      BY <1>3, <2>2, <2>3, <2>5, <2>7, CloserStep
  <1> QED
    BY <1>6, <1>7

\* The transport of a client is closed.
LEMMA FinishedStep ==
    ASSUME AdaptersInv, NEW k \in Closers, CloseFinished(k)
    PROVE  AdaptersInv'
  <1> DEFINE c == closer[k]
             p == c.todo
             R == [rest EXCEPT ![p] = CloseEnds(rest[p])]
  <1>1. CloseFits(Now, c) /\ Now.rest = rest /\ rest \in Rests /\ RestKept(rest)
    BY ClosersNow, NowSound, RestNow
  <1>2. kind' = kind /\ task' = task /\ wire' = wire /\ c.at = "aclose" /\ GoOn(k, R, FALSE)
    BY DEF CloseFinished
  <1>3. p \in Clients
    BY <1>1, <1>2 DEF CloseFits
  <1>4. rest[p] \in Transports
    BY <1>1, <1>3 DEF Rests
  <1>5. /\ CloseEnds(rest[p]) \in Transports /\ ClientKept(rest[p], CloseEnds(rest[p]), Waiting(Now))
        /\ CloseEnds(rest[p]).transport = "closed"
    BY <1>4, Ended
  <1>6. RestKept(R) /\ R[p].transport = "closed"
    BY <1>1, <1>3, <1>5, RestWith DEF Rests
  <1> HIDE DEF R
  <1> QED
    BY <1>2, <1>6, GoOnStep

\* A client fails to close, or the close is cancelled.
LEMMA BrokenStep ==
    ASSUME AdaptersInv, NEW k \in Closers, CloseBroken(k)
    PROVE  AdaptersInv'
  <1> DEFINE c == closer[k]
             p == c.todo
             R == [rest EXCEPT ![p] = CloseBreaks(rest[p])]
  <1>1. CloseFits(Now, c) /\ Now.rest = rest /\ rest \in Rests /\ RestKept(rest)
    BY ClosersNow, NowSound, RestNow
  <1>2. kind' = kind /\ task' = task /\ wire' = wire
    BY DEF CloseBroken
  <1>3. CASE c.at = "aclose" /\ GoOn(k, R, TRUE)
    <2>1. p \in Clients
      BY <1>1, <1>3 DEF CloseFits
    <2>2. rest[p] \in Transports
      BY <1>1, <2>1 DEF Rests
    <2>3. CloseBreaks(rest[p]) \in Transports /\ ClientKept(rest[p], CloseBreaks(rest[p]), Waiting(Now))
      BY <2>2, Ended
    <2>4. RestKept(R)
      BY <1>1, <2>1, <2>3, RestWith
    <2> HIDE DEF R
    <2> QED
      BY <1>2, <1>3, <2>4, GoOnStep
  <1>4. CASE c.at = "drain" /\ GoOn(k, rest, TRUE)
    BY <1>1, <1>2, <1>4, GoOnStep
  <1>5. CASE rest' = rest /\ Finish(k, TRUE)
    BY <1>1, <1>2, <1>5, FinishStep
  <1> QED
    BY <1>3, <1>4, <1>5 DEF CloseBroken

-----------------------------------------------------------------------------
(* The invariant, and what it gives.                                       *)

\* It holds at first.
LEMMA InitInv == Init => AdaptersInv
  <1> SUFFICES ASSUME Init PROVE AdaptersInv
    OBVIOUS
  <1> USE DEF Init
  <1>1. kind \in Kinds /\ kind \in {"mem0", "hindsight", "openviking", "session"}
    BY AdaptersAssumption
  <1>2. /\ Now.rest = rest /\ Now.ad = ad /\ Now.task = task /\ Now.wire = wire
    BY DEF Now
  <1>3. rest \in Rests
    BY DEF Rests, Transports, FreshClient, TaskSets
  <1>4. ad \in Ads
    <2>1. Plan \subseteq Nat \ {0} /\ MaxBatchAttempt \in Nat \ {0}
      BY <1>1, PlanFacts, AdaptersAssumption
    <2>2. 1 \in 0..(MaxBatchAttempt + 1)
      BY <2>1
    <2>3. [s \in Scopes |-> [d \in Plan |-> 1]] \in BatchTables
      BY <2>2 DEF BatchTables
    <2>4. [s \in Scopes |-> 1] \in Turns /\ [s \in Scopes |-> NoOne] \in PlanLocks
      BY DEF Turns, PlanLocks
    <2>5. {} \in ScopeSets /\ {} \in KeySets /\ {} \in BatchSets
      BY DEF ScopeSets, KeySets, BatchSets
    <2> QED
      BY <2>3, <2>4, <2>5 DEF Ads
  <1>5. task \in Callers
    BY IdleCall DEF Callers
  <1>6. wire \in Wires
    BY DEF Wires, SendingSets, ScopeSets
  <1>7. Now \in Systems
    BY <1>3, <1>4, <1>5, <1>6 DEF Now, Systems
  <1>8. Waiting(Now) = {} /\ CallsMade(Now)
    BY <1>2, IdleCall DEF Waiting, CallsMade
  <1>9. AllUnderway(Now, {}) /\ Using(Now, {})
    BY <1>2 DEF AllUnderway, Using
  <1>10. Tidy(Now)
    <2>1. /\ ad.attempted = {} /\ ad.probed = {} /\ ad.allocAttempted = {} /\ ad.completed = {} /\ ad.ready = {}
          /\ ad.batch = [s \in Scopes |-> [d \in Plan |-> 1]] /\ ad.next = [s \in Scopes |-> 1]
      OBVIOUS
    <2>2. wire.sent = {} /\ wire.twice = {}
      OBVIOUS
    <2> HIDE DEF Init
    <2>3. SentIsMarked(Now) /\ MarkedIsSent(Now) /\ NoneTwice(Now)
      BY <1>2, <2>1, <2>2 DEF SentIsMarked, MarkedIsSent, NoneTwice
    <2>4. Batches(Now)
      <3>1. \A s \in Scopes, d \in Plan : ad.batch[s][d] = 1 /\ ~Settled(ad, s, d)
        BY <2>1, AdaptersAssumption DEF Settled
      <3>2. kind \in {"mem0", "session"} => Plan = 1..Sources
        BY <1>1, PlanFacts
      <3>3. Sources \in Nat \ {0}
        BY AdaptersAssumption
      <3>4. kind = "mem0" => \A s \in Scopes, d \in Plan : d < ad.next[s] => Settled(ad, s, d)
        BY <2>1, <3>2, <3>3
      <3>5. kind = "session" => 1 \in Plan /\ \A s \in Scopes, d \in Plan : Settled(ad, s, d) <=> d < 1
        <4>1. kind = "session" => 1 \in Plan /\ \A d \in Plan : ~(d < 1)
          BY <3>2, <3>3
        <4> QED
          BY <3>1, <4>1 DEF Settled
      <3>6. kind = "session" => \A s \in Scopes : \E n \in Plan \cup {Sources + 1} :
                 \A d \in Plan : Settled(ad, s, d) <=> d < n
        BY <3>5
      <3> QED
        BY <1>2, <2>1, <3>1, <3>4, <3>6 DEF Batches
    <2> QED
      BY <2>3, <2>4 DEF Tidy
  <1>11. ClientsInOrder(Now)
    BY <1>2 DEF ClientsInOrder, FreshClient
  <1>12. ClosesInOrder(Now, closer)
    BY <1>2 DEF ClosesInOrder, CloseFits, Closings, Asleep
  <1> QED
    BY <1>1, <1>7, <1>8, <1>9, <1>10, <1>11, <1>12 DEF AdaptersInv, Sound

\* Every step keeps it.
LEMMA NextInv ==
    ASSUME AdaptersInv, [Next]_vars
    PROVE  AdaptersInv'
  <1>1. CASE UNCHANGED vars
    <2>1. kind' = kind /\ Now' = Now /\ closer' = closer
      BY <1>1 DEF vars, Now
    <2> QED
      BY <2>1, KindStays DEF AdaptersInv
  <1>2. CASE \E t \in Tasks : (\E c \in Calls : Call(t, c)) \/ Turn(t) \/ CancelWaiting(t) \/ Answer(t) \/ PollAgain(t)
    BY <1>2, CallStep, TurnStep, CancelStep, AnswerStep, PollStep
  <1>3. CASE \E s \in Scopes : PlanIngestion(s)
    BY <1>3, PlanStep
  <1>4. CASE \E k \in Closers : \/ CloseCall(k) \/ CloseTurn(k) \/ CloseProbes(k)
                                \/ CloseLocked(k) \/ CloseFinished(k) \/ CloseBroken(k)
    BY <1>4, CloseCallStep, MainStep, LockedStep, FinishedStep, BrokenStep
  <1> QED
    BY <1>1, <1>2, <1>3, <1>4 DEF Next

\* A batch that is being sent is not settled yet.
LEMMA InFlightUnsettled ==
    ASSUME AdaptersInv, NEW t \in Tasks, NEW s \in Scopes, InFlight(t, s)
    PROVE  LET c == task[t] IN
           /\ t \in Waiting(Now) /\ Made(c) /\ c.op = "ingest" /\ c.scope = s /\ c.dispatch \in Plan
           /\ InTurn(ad, c) /\ ~Settled(ad, s, c.dispatch)
  <1> DEFINE c == task[t]
  <1>1. kind \in Kinds /\ Sound(Now, Waiting(Now)) /\ Now.ad = ad /\ Now.task = task
    BY NowSound
  <1>2. c.at = "wait" /\ c.op = "ingest" /\ c.scope = s /\ t \in Waiting(Now)
    BY <1>1 DEF InFlight, Waiting
  <1>3. Made(c) /\ c.dispatch \in Plan /\ c.attempt \in 1..MaxBatchAttempt
    BY <1>1, <1>2 DEF Sound, CallsMade, Made
  <1>4. InTurn(ad, c) /\ c.attempt = ad.batch[s][c.dispatch]
    BY <1>1, <1>2 DEF Sound, AllUnderway, Underway, Ingesting
  <1>5. <<s, c.dispatch>> \in ad.completed => ad.batch[s][c.dispatch] = 0
    BY <1>1, <1>3 DEF Sound, Tidy, Batches
  <1>6. ~Settled(ad, s, c.dispatch)
    <2>1. MaxBatchAttempt \in Nat
      BY AdaptersAssumption
    <2>2. c.attempt # 0 /\ c.attempt # MaxBatchAttempt + 1
      BY <1>3, <2>1
    <2> HIDE DEF c
    <2> QED
      BY <1>4, <1>5, <2>2 DEF Settled
  <1> QED
    BY <1>2, <1>3, <1>4, <1>6

\* The first half of InOrder: one source of a plan at a time.
LEMMA OneInFlight ==
    ASSUME AdaptersInv, kind \in {"mem0", "session"}, NEW t \in Tasks, NEW u \in Tasks, NEW s \in Scopes,
           InFlight(t, s), InFlight(u, s)
    PROVE  u = t
  <1> SUFFICES ASSUME u # t PROVE FALSE
    OBVIOUS
  <1>1. kind \in Kinds /\ Sound(Now, Waiting(Now)) /\ Now.task = task
    BY NowSound
  <1>2. /\ t \in Waiting(Now) /\ task[t].op = "ingest" /\ task[t].scope = s
        /\ u \in Waiting(Now) /\ task[u].op = "ingest" /\ task[u].scope = s
    BY InFlightUnsettled
  <1>3. Alone(Now, t, Waiting(Now) \ {t})
    BY <1>1, <1>2, HeldNow, HeldAlone
  <1>4. Sound(Now, Waiting(Now) \ {t}) /\ u \in Waiting(Now) \ {t}
    BY <1>1, <1>2, SoundOfFewer
  <1>5. task[u].scope # task[t].scope
    BY <1>1, <1>2, <1>3, <1>4, OtherBatch
  <1> QED
    BY <1>2, <1>5

\* What was sent twice, if anything, is the registration of a session user.
LEMMA InvNoReplay == AdaptersInv => NoReplay
  BY NowSound DEF Sound, Tidy, NoneTwice, NoReplay

\* What is marked was sent.
LEMMA InvAttemptedWasSent == AdaptersInv => AttemptedWasSent
  BY NowSound DEF Sound, Tidy, MarkedIsSent, AttemptedWasSent

\* Nothing is in flight for a scope whose batches are all settled.
LEMMA InvReadyIsSettled == AdaptersInv => ReadyIsSettled
  <1> SUFFICES ASSUME AdaptersInv, NEW s \in ad.ready
               PROVE  (\A t \in Tasks : ~InFlight(t, s)) /\ \A d \in Plan : Settled(ad, s, d)
    BY DEF ReadyIsSettled
  <1>1. Sound(Now, Waiting(Now)) /\ Now.ad = ad /\ ad \in Ads
    BY NowSound
  <1>2. s \in Scopes
    BY <1>1 DEF Ads, ScopeSets
  <1>3. \A d \in Plan : Settled(ad, s, d)
    BY <1>1 DEF Sound, Tidy, Batches
  <1> QED
    BY <1>2, <1>3, InFlightUnsettled

\* What comes before the turn of an ingestion is settled.
LEMMA InvInOrder == AdaptersInv => InOrder
  <1> SUFFICES ASSUME AdaptersInv, kind \in {"mem0", "session"}, NEW t \in Tasks, NEW s \in Scopes, InFlight(t, s)
               PROVE  /\ \A u \in Tasks : InFlight(u, s) => u = t
                      /\ \A d \in 1..(task[t].dispatch - 1) : Settled(ad, s, d)
    BY DEF InOrder
  <1>1. \A u \in Tasks : InFlight(u, s) => u = t
    BY OneInFlight
  <1>2. ASSUME NEW d \in 1..(task[t].dispatch - 1) PROVE Settled(ad, s, d)
    <2>1. kind \in Kinds /\ Sound(Now, Waiting(Now)) /\ Now.ad = ad
      BY NowSound
    <2>2. task[t].scope = s /\ task[t].dispatch \in Plan /\ InTurn(ad, task[t])
      BY InFlightUnsettled
    <2>3. Plan = 1..Sources /\ Sources \in Nat
      BY <2>1, PlanFacts, AdaptersAssumption
    <2>4. d \in Plan /\ d < task[t].dispatch
      BY <2>2, <2>3
    <2>5. CASE kind = "mem0"
      <3>1. task[t].dispatch = ad.next[s]
        BY <2>2, <2>5 DEF InTurn
      <3>2. d < ad.next[s] => Settled(ad, s, d)
        BY <2>1, <2>4, <2>5 DEF Sound, Tidy, Batches
      <3> QED
        BY <2>4, <3>1, <3>2
    <2>6. CASE kind = "session"
      BY <2>2, <2>4, <2>6 DEF InTurn
    <2> QED
      BY <2>5, <2>6
  <1> QED
    BY <1>1, <1>2

\* A client that is closed has no call; a close that is done has closed them all.
LEMMA InvClosedIsIdle == AdaptersInv => ClosedIsIdle
  <1> SUFFICES ASSUME AdaptersInv PROVE ClosedIsIdle
    OBVIOUS
  <1>1. /\ kind \in Kinds /\ Sound(Now, Waiting(Now)) /\ Now.task = task /\ Now.rest = rest
        /\ ClosesInOrder(Now, closer) /\ rest \in Rests
    BY NowSound
  <1>2. ASSUME NEW t \in Tasks, task[t].at = "wait"
        PROVE  rest[Script(task[t].op, task[t].scope)[task[t].step].client].httpx = "open"
    <2> DEFINE p == ClientOf(task[t])
    <2>1. t \in Waiting(Now) /\ Made(task[t]) /\ task[t].step \in 1..Len(Script(task[t].op, task[t].scope))
      BY <1>1, <1>2 DEF Waiting, Sound, CallsMade
    <2>2. p \in Clients
      BY <1>1, <2>1, ScriptFacts DEF Made, RequestFits, ClientOf
    <2>3. t \in rest[p].active
      BY <1>1, <2>1 DEF Sound, Using
    <2> HIDE DEF p
    <2>4. rest[p].httpx \in {"open", "closed"}
      BY <1>1, <2>2 DEF Rests, Transports
    <2>5. rest[p].httpx # "closed"
      BY <1>1, <2>2, <2>3 DEF Sound, ClientsInOrder
    <2> QED
      BY <2>4, <2>5 DEF p, ClientOf
  <1>3. ASSUME kind # "session", NEW k \in Closers, closer[k].at = "done"
        PROVE  \A i \in DOMAIN OwnClients : rest[OwnClients[i]].transport = "closed"
    BY <1>1, <1>3 DEF ClosesInOrder, CloseFits
  <1> QED
    BY <1>2, <1>3 DEF ClosedIsIdle

\* The invariant of the adapters, for every number of scopes, callers and closes, and
\* every length of a plan.
THEOREM AdaptersInvariant == Spec => []AdaptersInv
  <1>1. AdaptersInv /\ [Next]_vars => AdaptersInv'
    BY NextInv
  <1> QED
    BY InitInv, <1>1, PTL DEF Spec

\* No adapter sends a write twice, but for the registration of a session user.
THEOREM NothingReplayed == Spec => []NoReplay
  BY AdaptersInvariant, InvNoReplay, PTL

\* Mem0 and the session adapter send the sources of a plan one at a time, in order.
THEOREM SourcesInOrder == Spec => []InOrder
  BY AdaptersInvariant, InvInOrder, PTL

\* An attempt is refused as a replay only if it was sent.
THEOREM RefusedWasSent == Spec => []AttemptedWasSent
  BY AdaptersInvariant, InvAttemptedWasSent, PTL

\* A scope that is ready is settled and not being written to.
THEOREM ReadyStaysSettled == Spec => []ReadyIsSettled
  BY AdaptersInvariant, InvReadyIsSettled, PTL

\* No client is closed under a call; a close that returns has closed them all.
THEOREM ClosesWhenIdle == Spec => []ClosedIsIdle
  BY AdaptersInvariant, InvClosedIsIdle, PTL

-----------------------------------------------------------------------------
(* Reading what a memory system holds, page by page: ProjectionCapture.    *)

Stores == UNION {[S -> Nat] : S \in SUBSET Ids}

Versions == Ids \X Nat

Readers ==
    [how : Hows, at : {"list", "detail", "accepted", "rejected"}, cursor : Nat, total : Nat,
     got : SUBSET Versions, length : Nat, counts : SUBSET Nat, pages : Nat,
     first : SUBSET Versions, captures : {0, 1}, todo : SUBSET Ids]

\* What the state is, apart from how the pages relate to the store.
CaptureTypeOK ==
    /\ store \in seen /\ seen \in SUBSET Stores
    /\ changes \in Nat /\ shrunk \in BOOLEAN
    /\ reader \in Readers
    /\ reader.at = "detail" => reader.how \in {"documents", "memories"}
    /\ reader.captures = 1 => reader.how = "points"
    /\ IsFiniteSet(reader.got) /\ Cardinality(reader.got) <= reader.length

\* The store t has all that s had, no item in an older version.
Grew(s, t) == DOMAIN s \subseteq DOMAIN t /\ \A i \in DOMAIN s : s[i] <= t[i]

\* All that was read is in s, no item of s in an older version.
ReadBy(items, s) == \A x \in items : x[1] \in DOMAIN s /\ x[2] <= s[x[1]]

\* Nothing that was read is older than in s.
ReadSince(items, s) == \A x \in items : x[1] \in DOMAIN s => s[x[1]] <= x[2]

Single(items) == \A x, y \in items : x[1] = y[1] => x = y

\* The content the provider had when the listing came to its end.
DetailsAt(s) ==
    /\ s \in seen /\ Grew(s, store)
    /\ IdsOf(reader.got) = DOMAIN s /\ ReadBy(reader.got, s)
    /\ \A x \in reader.got : x[1] \notin reader.todo => x[2] = s[x[1]]

\* The content the provider had when the first capture came to its end.
CapturedAt(s) ==
    /\ s \in seen /\ Grew(s, store)
    /\ IdsOf(reader.first) = DOMAIN s /\ ReadBy(reader.first, s) /\ ReadSince(reader.got, s)

CaptureInv ==
    /\ CaptureTypeOK
    /\ ~shrunk => /\ ReadBy(reader.got, store)
                  /\ reader.captures = 1 => \E s \in seen : CapturedAt(s)
                  /\ reader.at = "detail" => Single(reader.got) /\ \E s \in seen : DetailsAt(s)
    /\ AcceptedWasThere

-----------------------------------------------------------------------------
\* The store and any part of it are finite.
LEMMA StoreFinite ==
    ASSUME store \in Stores, NEW S \in SUBSET DOMAIN store
    PROVE  /\ DOMAIN store \in SUBSET Ids /\ store \in [DOMAIN store -> Nat]
           /\ IsFiniteSet(DOMAIN store) /\ IsFiniteSet(S)
           /\ Total \in Nat /\ Cardinality(S) \in Nat
  <1>1. DOMAIN store \in SUBSET Ids /\ store \in [DOMAIN store -> Nat]
    BY DEF Stores
  <1>2. IsFiniteSet(DOMAIN store)
    BY <1>1, FS_Subset, CaptureAssumption
  <1>3. IsFiniteSet(S)
    BY <1>2, FS_Subset
  <1> QED
    BY <1>1, <1>2, <1>3, FS_CardinalityType DEF Total

\* A page holds items of the store as they are, each once.
LEMMA ItemsThere ==
    ASSUME store \in Stores, NEW S \in SUBSET DOMAIN store
    PROVE  /\ Items(S) \in SUBSET Versions
           /\ IsFiniteSet(Items(S)) /\ Cardinality(Items(S)) = Cardinality(S)
           /\ Cardinality(S) \in Nat
           /\ IdsOf(Items(S)) = S
           /\ ReadBy(Items(S), store)
           /\ ReadSince(Items(S), store)
  <1>1. DOMAIN store \in SUBSET Ids /\ store \in [DOMAIN store -> Nat] /\ IsFiniteSet(S) /\ Cardinality(S) \in Nat
    BY StoreFinite
  <1>2. Items(S) \in SUBSET Versions
    BY <1>1 DEF Items, Versions
  <1>3. IdsOf(Items(S)) = S
    <2>1. ASSUME NEW i \in S
          PROVE  i \in IdsOf(Items(S))
      <3>1. <<i, store[i]>> \in Items(S) /\ <<i, store[i]>>[1] = i
        BY DEF Items
      <3> QED
        BY <3>1 DEF IdsOf
    <2>2. ASSUME NEW i \in IdsOf(Items(S))
          PROVE  i \in S
      BY DEF Items, IdsOf
    <2> QED
      BY <2>1, <2>2
  <1>4. ReadBy(Items(S), store)
    BY <1>1 DEF Items, ReadBy
  <1>5. ReadSince(Items(S), store)
    BY <1>1 DEF Items, ReadSince
  <1> DEFINE f == [i \in S |-> <<i, store[i]>>]
  <1>6. f \in Bijection(S, Items(S))
    BY DEF Items, Bijection, Injection, Surjection, IsInjective
  <1>7. ExistsBijection(S, Items(S))
    BY <1>6 DEF ExistsBijection
  <1>8. IsFiniteSet(Items(S)) /\ Cardinality(Items(S)) = Cardinality(S)
    BY <1>1, <1>7, FS_Bijection
  <1> QED
    BY <1>1, <1>2, <1>3, <1>4, <1>5, <1>8

\* Counting the items of the pages apart shows an item that came twice.
LEMMA NoDuplicates ==
    ASSUME NEW items \in SUBSET Versions, IsFiniteSet(items), NEW n \in Nat,
           Cardinality(items) <= n, Cardinality(IdsOf(items)) = n
    PROVE  Single(items)
  <1> DEFINE f == [x \in items |-> x[1]]
  <1>1. f \in Surjection(items, IdsOf(items))
    BY DEF IdsOf, Surjection
  <1>2. /\ IsFiniteSet(IdsOf(items)) /\ Cardinality(IdsOf(items)) <= Cardinality(items)
        /\ Cardinality(IdsOf(items)) = Cardinality(items) <=> f \in Injection(items, IdsOf(items))
    BY <1>1, FS_Surjection
  <1>3. Cardinality(items) \in Nat
    BY FS_CardinalityType
  <1>4. Cardinality(IdsOf(items)) = Cardinality(items)
    BY <1>2, <1>3
  <1>5. f \in Injection(items, IdsOf(items))
    BY <1>2, <1>4
  <1> QED
    BY <1>5 DEF Injection, IsInjective, Single

\* As many of the store's items as it has are all of them.
LEMMA AllRead ==
    ASSUME store \in Stores, NEW items, ReadBy(items, store), Cardinality(IdsOf(items)) = Total
    PROVE  IdsOf(items) = DOMAIN store
  <1>1. IdsOf(items) \in SUBSET DOMAIN store
    BY DEF IdsOf, ReadBy
  <1>2. IsFiniteSet(DOMAIN store)
    BY StoreFinite
  <1> QED
    BY <1>1, <1>2, FS_Subset DEF Total

\* Adding a page to what was read.
LEMMA PageAdds ==
    ASSUME CaptureTypeOK, NEW S \in SUBSET DOMAIN store
    PROVE  /\ reader.got \cup Items(S) \in SUBSET Versions
           /\ IsFiniteSet(reader.got \cup Items(S))
           /\ reader.length + Cardinality(Items(S)) \in Nat
           /\ Cardinality(reader.got \cup Items(S)) <= reader.length + Cardinality(Items(S))
           /\ ReadBy(reader.got, store) => ReadBy(reader.got \cup Items(S), store)
  <1>1. /\ Items(S) \in SUBSET Versions /\ IsFiniteSet(Items(S))
        /\ Cardinality(Items(S)) = Cardinality(S) /\ Cardinality(S) \in Nat
        /\ ReadBy(Items(S), store)
    BY ItemsThere DEF CaptureTypeOK
  <1>2. /\ reader.got \in SUBSET Versions /\ reader.length \in Nat /\ IsFiniteSet(reader.got)
        /\ Cardinality(reader.got) <= reader.length
    BY DEF CaptureTypeOK, Readers
  <1>3. /\ IsFiniteSet(reader.got \cup Items(S))
        /\ Cardinality(reader.got \cup Items(S)) =
              Cardinality(reader.got) + Cardinality(Items(S)) - Cardinality(reader.got \cap Items(S))
    BY <1>1, <1>2, FS_Union
  <1>4. Cardinality(reader.got \cap Items(S)) \in Nat
    BY <1>1, FS_Subset, FS_CardinalityType
  <1>5. Cardinality(reader.got) \in Nat
    BY <1>2, FS_CardinalityType
  <1>6. Cardinality(reader.got \cup Items(S)) <= reader.length + Cardinality(Items(S))
    BY <1>1, <1>2, <1>3, <1>4, <1>5
  <1>7. ReadBy(reader.got, store) => ReadBy(reader.got \cup Items(S), store)
    BY <1>1 DEF ReadBy
  <1> QED
    BY <1>1, <1>2, <1>3, <1>6, <1>7

\* A content that comes later has all that was read before.
LEMMA GrewGrows ==
    ASSUME NEW s \in Stores, NEW t \in Stores, NEW u \in Stores, Grew(t, u)
    PROVE  /\ Grew(s, t) => Grew(s, u)
           /\ \A items : ReadBy(items, t) /\ items \in SUBSET Versions => ReadBy(items, u)
  <1>1. /\ s \in [DOMAIN s -> Nat] /\ t \in [DOMAIN t -> Nat] /\ u \in [DOMAIN u -> Nat]
    BY DEF Stores
  <1>2. Grew(s, t) => Grew(s, u)
    BY <1>1 DEF Grew
  <1>3. ASSUME NEW items \in SUBSET Versions, ReadBy(items, t)
        PROVE  ReadBy(items, u)
    <2> SUFFICES ASSUME NEW x \in items
                 PROVE  x[1] \in DOMAIN u /\ x[2] <= u[x[1]]
      BY DEF ReadBy
    <2>1. x[2] \in Nat /\ x[1] \in DOMAIN t /\ x[2] <= t[x[1]]
      BY <1>3 DEF ReadBy, Versions
    <2> QED
      BY <1>1, <2>1 DEF Grew
  <1> QED
    BY <1>2, <1>3

\* The reader only reads: what it leaves of its record says what it did.
ReadersStep(at, got, length) ==
    /\ Still
    /\ reader' \in Readers
    /\ reader'.how = reader.how /\ reader'.at = at /\ reader'.got = got /\ reader'.length = length
    /\ reader'.first = reader.first /\ reader'.captures = reader.captures

\* A reader that refuses keeps what it has read.
LEMMA RejectSteps ==
    ASSUME CaptureTypeOK, Reject
    PROVE  ReadersStep("rejected", reader.got, reader.length)
  BY DEF CaptureTypeOK, Readers, Reject, Go, ReadersStep

\* A reader that reads on, or has read all, and holds what is in the store.
LEMMA ListInv ==
    ASSUME CaptureInv, NEW at \in {"list", "rejected"}, NEW got, NEW length, ReadersStep(at, got, length),
           IsFiniteSet(got), Cardinality(got) <= length,
           ~shrunk => ReadBy(got, store),
           reader.captures = 1 => at = "rejected" /\ got = reader.got
    PROVE  CaptureInv'
  <1> USE DEF CaptureInv
  <1>1. CaptureTypeOK'
    BY DEF CaptureTypeOK, ReadersStep, Still
  <1>2. (reader.captures = 1 /\ ~shrunk => \E s \in seen : CapturedAt(s))'
    BY DEF ReadersStep, Still, CapturedAt, Grew, ReadBy, ReadSince, IdsOf
  <1>3. AcceptedWasThere'
    BY DEF AcceptedWasThere, ReadersStep
  <1>4. (~shrunk => ReadBy(reader.got, store))'
    BY DEF ReadersStep, Still, ReadBy
  <1> QED
    BY <1>1, <1>2, <1>3, <1>4 DEF ReadersStep, Still

\* A refusal leaves the invariant true.
LEMMA RejectInv ==
    ASSUME CaptureInv, Reject
    PROVE  CaptureInv'
  BY RejectSteps, ListInv DEF CaptureInv, CaptureTypeOK
-----------------------------------------------------------------------------
\* The provider changes: what was read remains read of an older content.
LEMMA ChangeInv ==
    ASSUME CaptureInv, NEW s \in Stores, Change(s), shrunk' \in BOOLEAN,
           (shrunk' = shrunk /\ Grew(store, s)) \/ shrunk'
    PROVE  CaptureInv'
  <1> USE DEF CaptureInv
  <1>1. /\ store' = s /\ seen' = seen \cup {s} /\ reader' = reader
        /\ changes' \in Nat /\ reader.at \in {"list", "detail"}
    BY DEF Change, CaptureTypeOK
  <1>2. CaptureTypeOK'
    BY <1>1 DEF CaptureTypeOK
  <1>3. AcceptedWasThere'
    BY <1>1 DEF AcceptedWasThere
  <1>4. SUFFICES ASSUME ~shrunk'
                 PROVE  /\ ReadBy(reader.got, s)
                        /\ reader.captures = 1 => \E c \in seen' : CapturedAt(c)'
                        /\ reader.at = "detail" => Single(reader.got) /\ \E c \in seen' : DetailsAt(c)'
    BY <1>1, <1>2, <1>3 DEF Single, ReadBy
  <1>5. ~shrunk /\ Grew(store, s)
    BY <1>4
  <1>6. reader.got \in SUBSET Versions /\ reader.first \in SUBSET Versions /\ seen \in SUBSET Stores
        /\ store \in Stores
    BY DEF CaptureTypeOK, Readers
  <1>7. ReadBy(reader.got, s)
    BY <1>5, <1>6, GrewGrows
  <1>8. ASSUME NEW c \in seen, Grew(c, store)
        PROVE  Grew(c, s)
    BY <1>5, <1>6, <1>8, GrewGrows
  <1> QED
    BY <1>1, <1>5, <1>7, <1>8 DEF CapturedAt, DetailsAt, IdsOf, ReadBy, ReadSince

\* The provider stores one item more.
LEMMA AddInv ==
    ASSUME CaptureInv, NEW i \in Ids, Add(i)
    PROVE  CaptureInv'
  <1> DEFINE s == [j \in DOMAIN store \cup {i} |-> IF j = i THEN 1 ELSE store[j]]
  <1>1. DOMAIN store \in SUBSET Ids /\ store \in [DOMAIN store -> Nat]
    BY DEF CaptureInv, CaptureTypeOK, Stores
  <1>2. s \in [DOMAIN store \cup {i} -> Nat] /\ DOMAIN store \cup {i} \in SUBSET Ids
    BY <1>1
  <1>3. s \in Stores
    BY <1>2 DEF Stores
  <1>4. Grew(store, s)
    BY <1>1 DEF Add, Grew
  <1> QED
    BY <1>3, <1>4, ChangeInv DEF Add, CaptureInv, CaptureTypeOK

\* The provider changes an item.
LEMMA EditInv ==
    ASSUME CaptureInv, NEW i \in Ids, Edit(i)
    PROVE  CaptureInv'
  <1> DEFINE s == [store EXCEPT ![i] = @ + 1]
  <1>1. DOMAIN store \in SUBSET Ids /\ store \in [DOMAIN store -> Nat]
    BY DEF CaptureInv, CaptureTypeOK, Stores
  <1>2. s \in [DOMAIN store -> Nat]
    BY <1>1 DEF Edit
  <1>3. s \in Stores
    BY <1>1, <1>2 DEF Stores
  <1>4. Grew(store, s)
    BY <1>1 DEF Edit, Grew
  <1> QED
    BY <1>3, <1>4, ChangeInv DEF Edit, CaptureInv, CaptureTypeOK

\* The provider loses an item.
LEMMA DropInv ==
    ASSUME CaptureInv, NEW i \in Ids, Drop(i)
    PROVE  CaptureInv'
  <1> DEFINE s == [j \in DOMAIN store \ {i} |-> store[j]]
  <1>1. DOMAIN store \in SUBSET Ids /\ store \in [DOMAIN store -> Nat]
    BY DEF CaptureInv, CaptureTypeOK, Stores
  <1>2. s \in [DOMAIN store \ {i} -> Nat] /\ DOMAIN store \ {i} \in SUBSET Ids
    BY <1>1
  <1>3. s \in Stores
    BY <1>2 DEF Stores
  <1> QED
    BY <1>3, ChangeInv DEF Drop
-----------------------------------------------------------------------------
\* The record of a reader that has one more page.
LEMMA GrownFields ==
    ASSUME CaptureTypeOK, NEW S \in SUBSET DOMAIN store
    PROVE  /\ Grown(Items(S)) \in Readers
           /\ Grown(Items(S)).how = reader.how
           /\ Grown(Items(S)).got = reader.got \cup Items(S)
           /\ Grown(Items(S)).length = reader.length + Cardinality(Items(S))
           /\ Grown(Items(S)).first = reader.first /\ Grown(Items(S)).captures = reader.captures
           /\ Declared \in Nat /\ Total \in Nat
  <1>1. /\ reader.got \cup Items(S) \in SUBSET Versions
        /\ reader.length + Cardinality(Items(S)) \in Nat
    BY PageAdds
  <1>2. Total \in Nat
    BY StoreFinite DEF CaptureTypeOK
  <1>3. Declared \in Nat
    BY <1>2 DEF Declared, CaptureTypeOK, Readers
  <1> QED
    BY <1>1, <1>2, <1>3 DEF Grown, CaptureTypeOK, Readers

\* An offset page is a page of the store.
LEMMA OffsetPageThere ==
    ASSUME NEW n
    PROVE  /\ OffsetPage(n) = Items(Page(DOMAIN store, n))
           /\ Page(DOMAIN store, n) \in SUBSET DOMAIN store
  BY DEF OffsetPage, Page

\* A page of a listing by offset, whose total must not have changed.
LEMMA ReadBankPageInv ==
    ASSUME CaptureInv, ReadBankPage
    PROVE  CaptureInv'
  <1> DEFINE S == Page(DOMAIN store, reader.length)
             page == Items(S)
             r == Grown(page)
             got == reader.got \cup page
             length == reader.length + Cardinality(page)
  <1>1. /\ S \in SUBSET DOMAIN store
        /\ reader.how = "banks" /\ reader.at = "list"
        /\ \/ Reject
           \/ /\ Total = Declared /\ ~Duplicates(r) /\ ~(r.length > Declared)
              /\ ~(r.length < Declared /\ page = {})
              /\ Go([r EXCEPT !.at = IF page = {} THEN "accepted" ELSE "list"])
    BY OffsetPageThere DEF ReadBankPage
  <1>2. CaptureTypeOK
    BY DEF CaptureInv
  <1> HIDE DEF S
  <1>3. /\ got \in SUBSET Versions /\ IsFiniteSet(got) /\ Cardinality(got) <= length
        /\ length \in Nat /\ (~shrunk => ReadBy(got, store))
    BY <1>1, <1>2, PageAdds DEF CaptureInv
  <1>4. /\ r \in Readers /\ r.how = reader.how /\ r.got = got /\ r.length = length
        /\ r.first = reader.first /\ r.captures = reader.captures
        /\ Declared \in Nat /\ Total \in Nat
    BY <1>1, <1>2, GrownFields
  <1> HIDE DEF r, page
  <1>5. reader.captures # 1
    BY <1>1, <1>2 DEF CaptureTypeOK
  <1>6. CASE Reject
    BY <1>6, RejectInv
  <1>7. CASE Go([r EXCEPT !.at = "list"])
    <2>1. ReadersStep("list", got, length)
      BY <1>4, <1>7 DEF Go, ReadersStep, Readers
    <2> QED
      BY <2>1, <1>3, <1>5, ListInv
  <1>8. CASE /\ Total = Declared /\ ~Duplicates(r) /\ r.length = Declared
             /\ Go([r EXCEPT !.at = "accepted"])
    <2>1. ReadersStep("accepted", got, length)
      BY <1>4, <1>8 DEF Go, ReadersStep, Readers
    <2>2. CaptureTypeOK'
      BY <2>1, <1>1, <1>2, <1>3 DEF CaptureTypeOK, ReadersStep, Still
    <2>3. ~shrunk => IdsOf(got) = DOMAIN store
      BY <1>2, <1>3, <1>4, <1>8, AllRead DEF Duplicates, CaptureTypeOK
    <2>4. AcceptedWasThere'
      BY <2>1, <2>3, <1>1, <1>2 DEF AcceptedWasThere, ReadersStep, Still, CaptureTypeOK
    <2>5. (~shrunk => ReadBy(reader.got, store))'
      BY <2>1, <1>3 DEF ReadersStep, Still, ReadBy
    <2> QED
      BY <2>1, <2>2, <2>4, <2>5, <1>5 DEF CaptureInv, ReadersStep
  <1> HIDE DEF got, length
  <1>9. CASE page = {}
    BY <1>1, <1>3, <1>4, <1>6, <1>8, <1>9
  <1>10. CASE page # {}
    BY <1>1, <1>6, <1>7, <1>10
  <1> QED
    BY <1>9, <1>10

\* The listing of documents or memories ends with the store as it is then.
LEMMA ReadListPageInv ==
    ASSUME CaptureInv, ReadListPage
    PROVE  CaptureInv'
  <1> DEFINE S == Page(DOMAIN store, reader.length)
             page == Items(S)
             r == Grown(page)
             got == reader.got \cup page
             length == reader.length + Cardinality(page)
  <1>1. /\ S \in SUBSET DOMAIN store
        /\ reader.how \in {"documents", "memories"} /\ reader.at = "list"
        /\ \/ Reject
           \/ /\ Total = Declared /\ ~Duplicates(r) /\ (page = {} => r.length = Declared)
              /\ Go([r EXCEPT !.at = IF page = {} THEN "detail" ELSE "list", !.todo = IdsOf(r.got)])
    BY OffsetPageThere DEF ReadListPage
  <1>2. CaptureTypeOK
    BY DEF CaptureInv
  <1> HIDE DEF S
  <1>3. /\ got \in SUBSET Versions /\ IsFiniteSet(got) /\ Cardinality(got) <= length
        /\ length \in Nat /\ (~shrunk => ReadBy(got, store))
    BY <1>1, <1>2, PageAdds DEF CaptureInv
  <1>4. /\ r \in Readers /\ r.how = reader.how /\ r.got = got /\ r.length = length
        /\ r.first = reader.first /\ r.captures = reader.captures
        /\ Declared \in Nat /\ Total \in Nat
    BY <1>1, <1>2, GrownFields
  <1> HIDE DEF r, page
  <1>5. reader.captures # 1
    BY <1>1, <1>2 DEF CaptureTypeOK
  <1>6. CASE Reject
    BY <1>6, RejectInv
  <1>7. IdsOf(got) \in SUBSET Ids
    BY <1>3 DEF IdsOf, Versions
  <1>8. CASE Go([r EXCEPT !.at = "list", !.todo = IdsOf(r.got)])
    <2>1. ReadersStep("list", got, length)
      BY <1>4, <1>7, <1>8 DEF Go, ReadersStep, Readers
    <2> QED
      BY <2>1, <1>3, <1>5, ListInv
  <1>9. CASE /\ Total = Declared /\ ~Duplicates(r) /\ r.length = Declared
             /\ Go([r EXCEPT !.at = "detail", !.todo = IdsOf(r.got)])
    <2>1. ReadersStep("detail", got, length) /\ reader'.todo = IdsOf(got)
      BY <1>4, <1>7, <1>9 DEF Go, ReadersStep, Readers
    <2>2. CaptureTypeOK'
      BY <2>1, <1>1, <1>2, <1>3 DEF CaptureTypeOK, ReadersStep, Still
    <2>3. Single(got)
      BY <1>3, <1>4, <1>9, NoDuplicates DEF Duplicates
    <2>4. ~shrunk => IdsOf(got) = DOMAIN store
      BY <1>2, <1>3, <1>4, <1>9, AllRead DEF Duplicates, CaptureTypeOK
    <2>5. Grew(store, store) /\ store \in seen
      BY <1>2 DEF Grew, CaptureTypeOK, Stores
    <2>6. \A x \in got : x[1] \in IdsOf(got)
      BY DEF IdsOf
    <2>7. ~shrunk => DetailsAt(store)'
      BY <2>1, <2>4, <2>5, <2>6, <1>3 DEF DetailsAt, ReadersStep, Still, ReadBy, IdsOf
    <2>8. (~shrunk => ReadBy(reader.got, store))'
      BY <2>1, <1>3 DEF ReadersStep, Still, ReadBy
    <2>9. AcceptedWasThere'
      BY <2>1 DEF AcceptedWasThere, ReadersStep
    <2> QED
      BY <2>1, <2>2, <2>3, <2>5, <2>7, <2>8, <2>9, <1>5 DEF CaptureInv, ReadersStep, Still
  <1> HIDE DEF got, length
  <1>10. CASE page = {}
    BY <1>1, <1>6, <1>9, <1>10
  <1>11. CASE page # {}
    BY <1>1, <1>6, <1>8, <1>11
  <1> QED
    BY <1>10, <1>11

\* A detail that agrees with its page was not changed since.
LEMMA ReadDetailInv ==
    ASSUME CaptureInv, ReadDetail
    PROVE  CaptureInv'
  <1> DEFINE i == Min(reader.todo)
  <1>1. /\ reader.at = "detail"
        /\ \/ Reject
           \/ /\ i \in DOMAIN store /\ <<i, store[i]>> \in reader.got
              /\ Go([reader EXCEPT !.todo = @ \ {i}])
    BY DEF ReadDetail
  <1>2. CaptureTypeOK
    BY DEF CaptureInv
  <1>3. CASE Reject
    BY <1>3, RejectInv
  <1> HIDE DEF i
  <1>4. CASE /\ i \in DOMAIN store /\ <<i, store[i]>> \in reader.got
             /\ Go([reader EXCEPT !.todo = @ \ {i}])
    <2>1. ReadersStep("detail", reader.got, reader.length) /\ reader'.todo = reader.todo \ {i}
      BY <1>1, <1>2, <1>4 DEF Go, ReadersStep, Readers, CaptureTypeOK
    <2>2. CaptureTypeOK'
      BY <2>1, <1>1, <1>2 DEF CaptureTypeOK, ReadersStep, Still
    <2>3. AcceptedWasThere'
      BY <2>1 DEF AcceptedWasThere, ReadersStep
    <2>4. reader.captures # 1
      BY <1>1, <1>2 DEF CaptureTypeOK
    <2>5. SUFFICES ASSUME ~shrunk
                   PROVE  (\E s \in seen : DetailsAt(s))'
      BY <2>1, <2>2, <2>3, <2>4, <1>1 DEF CaptureInv, ReadersStep, Still, ReadBy, Single
    <2>6. PICK s \in seen : DetailsAt(s)
      BY <2>5, <1>1 DEF CaptureInv
    <2>7. Single(reader.got)
      BY <2>5, <1>1 DEF CaptureInv
    <2>8. store[i] <= s[i] /\ i \in DOMAIN s
      <3>1. ReadBy(reader.got, s)
        BY <2>6 DEF DetailsAt
      <3>2. <<i, store[i]>>[1] = i /\ <<i, store[i]>>[2] = store[i]
        OBVIOUS
      <3> QED
        BY <3>1, <3>2, <1>4 DEF ReadBy
    <2>9. s[i] <= store[i]
      BY <2>6, <2>8 DEF DetailsAt, Grew
    <2>10. store[i] \in Nat /\ s[i] \in Nat
      BY <1>2, <1>4, <2>8 DEF CaptureTypeOK, Stores
    <2>11. s[i] = store[i]
      BY <2>8, <2>9, <2>10
    <2>12. ASSUME NEW x \in reader.got, x[1] = i
           PROVE  x[2] = s[x[1]]
      <3>1. x = <<i, store[i]>>
        BY <2>7, <2>12, <1>4 DEF Single
      <3> QED
        BY <3>1, <2>11
    <2>13. \A x \in reader.got : x[1] \notin reader.todo \ {i} => x[2] = s[x[1]]
      BY <2>6, <2>12 DEF DetailsAt
    <2> QED
      BY <2>1, <2>6, <2>13 DEF DetailsAt, ReadersStep, Still, ReadBy
  <1> QED
    BY <1>1, <1>3, <1>4

\* All details read: the content of that moment.
LEMMA DetailsEndInv ==
    ASSUME CaptureInv, DetailsEnd
    PROVE  CaptureInv'
  <1>1. CaptureTypeOK /\ reader.at = "detail" /\ reader.todo = {}
    BY DEF DetailsEnd, CaptureInv
  <1>2. ReadersStep("accepted", reader.got, reader.length)
    BY <1>1 DEF DetailsEnd, Go, ReadersStep, Readers, CaptureTypeOK
  <1>3. CaptureTypeOK'
    BY <1>1, <1>2 DEF CaptureTypeOK, ReadersStep, Still
  <1>4. reader.captures # 1 /\ reader.how # "banks"
    BY <1>1 DEF CaptureTypeOK
  <1>5. ASSUME NEW s \in seen, DetailsAt(s)
        PROVE  Content(s) = reader.got
    <2>1. /\ \A x \in reader.got : x[2] = s[x[1]] /\ x[1] \in DOMAIN s /\ x = <<x[1], x[2]>>
          /\ IdsOf(reader.got) = DOMAIN s
      BY <1>1, <1>5 DEF DetailsAt, ReadBy, CaptureTypeOK, Readers, Versions
    <2>2. ASSUME NEW i \in DOMAIN s
          PROVE  <<i, s[i]>> \in reader.got
      BY <2>1 DEF IdsOf
    <2> QED
      BY <2>1, <2>2 DEF Content
  <1>6. AcceptedWasThere'
    BY <1>1, <1>2, <1>4, <1>5 DEF AcceptedWasThere, ReadersStep, Still, CaptureInv
  <1> QED
    BY <1>2, <1>3, <1>4, <1>6 DEF CaptureInv, ReadersStep, Still, ReadBy
-----------------------------------------------------------------------------
\* An item that comes before another has the lower rank.
LEMMA RankOrders ==
    ASSUME NEW S \in SUBSET Nat, IsFiniteSet(S), NEW i \in S, NEW j \in S
    PROVE  /\ Rank(S, i) \in 0..(Cardinality(S) - 1)
           /\ i < j => Rank(S, i) < Rank(S, j)
           /\ i <= j <=> Rank(S, i) <= Rank(S, j)
  <1> DEFINE B(k) == {l \in S : l < k}
  <1>1. ASSUME NEW k \in S
        PROVE  /\ IsFiniteSet(B(k)) /\ Rank(S, k) = Cardinality(B(k)) /\ Rank(S, k) \in Nat
               /\ Rank(S, k) <= Cardinality(S) - 1 /\ Cardinality(S) \in Nat
    <2>1. IsFiniteSet(S \ {k}) /\ Cardinality(S \ {k}) = Cardinality(S) - 1
      BY FS_RemoveElement
    <2>2. B(k) \in SUBSET (S \ {k})
      OBVIOUS
    <2>3. IsFiniteSet(B(k)) /\ Cardinality(B(k)) <= Cardinality(S \ {k})
      BY <2>1, <2>2, FS_Subset
    <2>4. Cardinality(B(k)) \in Nat /\ Cardinality(S) \in Nat
      BY <2>3, FS_CardinalityType
    <2> QED
      BY <2>1, <2>3, <2>4 DEF Rank
  <1>2. ASSUME NEW k \in S, NEW m \in S, k < m
        PROVE  Rank(S, k) < Rank(S, m)
    <2>1. k \in B(m) /\ k \notin B(k)
      BY <1>2
    <2>2. B(k) \in SUBSET B(m)
      <3>1. \A l \in S : l < k => l < m
        BY <1>2
      <3> QED
        BY <3>1
    <2>3. /\ IsFiniteSet(B(m)) /\ Rank(S, m) = Cardinality(B(m)) /\ Rank(S, m) \in Nat
          /\ Rank(S, k) = Cardinality(B(k)) /\ Rank(S, k) \in Nat
      BY <1>1
    <2> HIDE DEF B
    <2>4. B(k) # B(m)
      BY <2>1
    <2>5. Cardinality(B(k)) <= Cardinality(B(m)) /\ Cardinality(B(k)) # Cardinality(B(m))
      BY <2>2, <2>3, <2>4, FS_Subset
    <2>6. Rank(S, k) <= Rank(S, m) /\ Rank(S, k) # Rank(S, m)
      BY <2>3, <2>5
    <2>7. Rank(S, k) \in Nat /\ Rank(S, m) \in Nat
      BY <2>3
    <2> QED
      BY <2>6, <2>7
  <1>3. Rank(S, i) \in 0..(Cardinality(S) - 1) /\ Rank(S, j) \in Nat
    <2>1. /\ Rank(S, i) \in Nat /\ Rank(S, i) <= Cardinality(S) - 1 /\ Cardinality(S) \in Nat
          /\ Rank(S, j) \in Nat
      BY <1>1
    <2> QED
      BY <2>1
  <1>4. i < j => Rank(S, i) < Rank(S, j)
    BY <1>2
  <1>5. j < i => Rank(S, j) < Rank(S, i)
    BY <1>2
  <1> QED
    BY <1>3, <1>4, <1>5

\* Every rank below the number of items is some item's.
LEMMA RankBijection ==
    ASSUME NEW S \in SUBSET Nat, IsFiniteSet(S)
    PROVE  [i \in S |-> Rank(S, i)] \in Bijection(S, 0..(Cardinality(S) - 1))
  <1> DEFINE f == [i \in S |-> Rank(S, i)]
             T == 0..(Cardinality(S) - 1)
  <1>1. Cardinality(S) \in Nat
    BY FS_CardinalityType
  <1>2. IsFiniteSet(T) /\ Cardinality(T) = Cardinality(S)
    <2> DEFINE n == Cardinality(S)
    <2>1. IsFiniteSet(0..(n - 1)) /\ Cardinality(0..(n - 1)) = IF 0 > n - 1 THEN 0 ELSE n - 1 - 0 + 1
      BY <1>1, FS_Interval
    <2>2. n \in Nat
      BY <1>1
    <2> HIDE DEF n
    <2>3. (IF 0 > n - 1 THEN 0 ELSE n - 1 - 0 + 1) = n
      BY <2>2
    <2> QED
      BY <2>1, <2>3 DEF n
  <1>3. f \in [S -> T]
    BY RankOrders
  <1>4. ASSUME NEW i \in S, NEW j \in S, f[i] = f[j]
        PROVE  i = j
    <2>1. Rank(S, i) = Rank(S, j) /\ Rank(S, i) \in Int
      BY <1>4, RankOrders
    <2>2. i <= j /\ j <= i
      BY <2>1, RankOrders
    <2> QED
      BY <2>2
  <1> HIDE DEF f, T
  <1>5. f \in Injection(S, T)
    BY <1>3, <1>4 DEF Injection, IsInjective
  <1>6. f \in Surjection(S, T)
    BY <1>2, <1>5, FS_Injection
  <1> QED
    BY <1>5, <1>6 DEF Bijection, f, T

\* Every place of a finite set is some item's.
LEMMA RankReached ==
    ASSUME NEW S \in SUBSET Nat, IsFiniteSet(S), NEW n \in Nat, n < Cardinality(S)
    PROVE  \E i \in S : Rank(S, i) = n
  <1> DEFINE f == [i \in S |-> Rank(S, i)]
  <1>1. Cardinality(S) \in Nat
    BY FS_CardinalityType
  <1>2. n \in 0..(Cardinality(S) - 1)
    BY <1>1
  <1>3. f \in Surjection(S, 0..(Cardinality(S) - 1))
    BY RankBijection DEF Bijection
  <1>4. \E i \in S : f[i] = n
    BY <1>2, <1>3 DEF Surjection
  <1> QED
    BY <1>4

\* The inspector's cursor is the last item of its page.
LEMMA CursorExists ==
    ASSUME store \in Stores, NEW c \in Nat
    PROVE  /\ After(c) \in SUBSET DOMAIN store /\ After(c) \in SUBSET (Nat \ {0})
           /\ IsFiniteSet(After(c)) /\ Cardinality(After(c)) \in Nat
           /\ NextCursor(c) \in Nat
           /\ Cardinality(After(c)) <= PageLimit => NextCursor(c) = 0
           /\ Cardinality(After(c)) > PageLimit =>
                 NextCursor(c) \in After(c) /\ Rank(After(c), NextCursor(c)) = PageLimit - 1
  <1>1. After(c) \in SUBSET DOMAIN store
    BY DEF After
  <1>2. IsFiniteSet(After(c)) /\ Cardinality(After(c)) \in Nat /\ DOMAIN store \in SUBSET Ids
    BY <1>1, StoreFinite
  <1>3. After(c) \in SUBSET (Nat \ {0})
    BY <1>1, <1>2, CaptureAssumption
  <1>4. CASE Cardinality(After(c)) <= PageLimit
    BY <1>1, <1>2, <1>3, <1>4, CaptureAssumption DEF NextCursor
  <1>5. CASE Cardinality(After(c)) > PageLimit
    <2>1. PageLimit - 1 \in Nat /\ PageLimit - 1 < Cardinality(After(c))
      BY <1>2, <1>5, CaptureAssumption
    <2>2. \E i \in After(c) : Rank(After(c), i) = PageLimit - 1
      BY <1>2, <1>3, <2>1, RankReached
    <2> QED
      BY <1>1, <1>2, <1>3, <1>5, <2>2, CaptureAssumption DEF NextCursor
  <1> QED
    BY <1>2, <1>4, <1>5, CaptureAssumption
-----------------------------------------------------------------------------
\* The record of a Mem0 capture that has one more page.
PointReader ==
    [reader EXCEPT !.got = @ \cup CursorPage(reader.cursor),
                   !.length = @ + Cardinality(CursorPage(reader.cursor)),
                   !.counts = @ \cup {Total}, !.cursor = NextCursor(reader.cursor), !.pages = @ + 1]

\* Its fields: the page is of the store, its count is the present total.
LEMMA PointReaderGrows ==
    ASSUME CaptureTypeOK, NextCursor(reader.cursor) \in Nat
    PROVE  LET S == Page(After(reader.cursor), 0)
           IN  /\ S \in SUBSET DOMAIN store /\ CursorPage(reader.cursor) = Items(S)
               /\ PointReader \in Readers
               /\ PointReader.how = reader.how /\ PointReader.at = reader.at
               /\ PointReader.first = reader.first /\ PointReader.captures = reader.captures
               /\ PointReader.got = reader.got \cup Items(S)
               /\ PointReader.length = reader.length + Cardinality(Items(S))
               /\ PointReader.counts = reader.counts \cup {Total}
               /\ PointReader.cursor = NextCursor(reader.cursor) /\ PointReader.pages = reader.pages + 1
  <1> DEFINE S == Page(After(reader.cursor), 0)
             page == CursorPage(reader.cursor)
             next == NextCursor(reader.cursor)
  <1>1. S \in SUBSET DOMAIN store /\ page = Items(S)
    BY DEF After, Page, CursorPage
  <1> HIDE DEF S, page
  <1>2. reader.got \cup page \in SUBSET Versions /\ reader.length + Cardinality(page) \in Nat
    BY <1>1, PageAdds
  <1>3. Total \in Nat
    BY StoreFinite DEF CaptureTypeOK
  <1>4. PointReader = [reader EXCEPT !.got = reader.got \cup page, !.length = reader.length + Cardinality(page),
                                     !.counts = reader.counts \cup {Total}, !.cursor = next,
                                     !.pages = reader.pages + 1]
    BY DEF PointReader, page, CaptureTypeOK, Readers
  <1>5. next \in Nat /\ reader \in Readers /\ reader.counts \cup {Total} \in SUBSET Nat /\ reader.pages + 1 \in Nat
    BY <1>3 DEF CaptureTypeOK, Readers
  <1> HIDE DEF next
  <1>6. /\ PointReader \in Readers
        /\ PointReader.how = reader.how /\ PointReader.at = reader.at
        /\ PointReader.first = reader.first /\ PointReader.captures = reader.captures
        /\ PointReader.got = reader.got \cup page
        /\ PointReader.length = reader.length + Cardinality(page)
        /\ PointReader.counts = reader.counts \cup {Total}
        /\ PointReader.cursor = next /\ PointReader.pages = reader.pages + 1
    BY <1>2, <1>4, <1>5 DEF Readers
  <1> QED
    BY <1>1, <1>6 DEF S, next, page

\* What a page adds is as the store has it now.
LEMMA PointReaderFields ==
    ASSUME CaptureTypeOK, NextCursor(reader.cursor) \in Nat
    PROVE  /\ PointReader \in Readers
           /\ PointReader.how = reader.how /\ PointReader.at = reader.at
           /\ PointReader.first = reader.first /\ PointReader.captures = reader.captures
           /\ Total \in PointReader.counts
           /\ IsFiniteSet(PointReader.got) /\ Cardinality(PointReader.got) <= PointReader.length
           /\ ReadBy(reader.got, store) => ReadBy(PointReader.got, store)
           /\ \A s \in seen : Grew(s, store) /\ ReadSince(reader.got, s) => ReadSince(PointReader.got, s)
  <1> DEFINE S == Page(After(reader.cursor), 0)
             page == CursorPage(reader.cursor)
  <1>1. S \in SUBSET DOMAIN store /\ page = Items(S)
    BY DEF After, Page, CursorPage
  <1> HIDE DEF S, page
  <1>2. /\ reader.got \cup page \in SUBSET Versions /\ IsFiniteSet(reader.got \cup page)
        /\ reader.length + Cardinality(page) \in Nat
        /\ Cardinality(reader.got \cup page) <= reader.length + Cardinality(page)
        /\ ReadBy(reader.got, store) => ReadBy(reader.got \cup page, store)
    BY <1>1, PageAdds
  <1>3. Total \in Nat
    BY StoreFinite DEF CaptureTypeOK
  <1>4. /\ PointReader \in Readers
        /\ PointReader.how = reader.how /\ PointReader.at = reader.at
        /\ PointReader.first = reader.first /\ PointReader.captures = reader.captures
        /\ PointReader.got = reader.got \cup page
        /\ PointReader.length = reader.length + Cardinality(page)
        /\ PointReader.counts = reader.counts \cup {Total}
    BY <1>1, PointReaderGrows DEF S
  <1>5. page \in SUBSET Versions /\ ReadBy(page, store) /\ ReadSince(page, store)
    BY <1>1, ItemsThere DEF CaptureTypeOK
  <1>6. ASSUME NEW s \in seen, Grew(s, store), NEW x \in page, x[1] \in DOMAIN s
        PROVE  s[x[1]] <= x[2]
    <2>1. s[x[1]] <= store[x[1]] /\ x[1] \in DOMAIN store /\ store[x[1]] <= x[2]
      BY <1>5, <1>6 DEF Grew, ReadSince
    <2>2. s[x[1]] \in Nat /\ store[x[1]] \in Nat /\ x[2] \in Nat
      BY <2>1, <1>5, <1>6 DEF CaptureTypeOK, Stores, Versions
    <2> QED
      BY <2>1, <2>2
  <1>7. \A s \in seen : Grew(s, store) /\ ReadSince(reader.got, s) => ReadSince(reader.got \cup page, s)
    BY <1>6 DEF ReadSince
  <1> QED
    BY <1>2, <1>4, <1>7

\* A whole capture has every item that is in the store when it ends.
LEMMA WholeCapture ==
    ASSUME store \in Stores, NEW r, PagesMatch(r), Total \in r.counts, ReadBy(r.got, store)
    PROVE  IdsOf(r.got) = DOMAIN store
  <1>1. Cardinality(IdsOf(r.got)) = Total
    BY DEF PagesMatch, Duplicates
  <1> QED
    BY <1>1, AllRead

\* Two captures that agree: nothing changed between the end of the first and
\* the page that read it again, so both are what was there in between.
LEMMA CaptureEndsInv ==
    ASSUME CaptureInv, reader.how = "points", reader.at = "list",
           NextCursor(reader.cursor) \in Nat, CaptureEnds(PointReader)
    PROVE  CaptureInv'
  <1> DEFINE r == PointReader
  <1>1. CaptureTypeOK
    BY DEF CaptureInv
  <1>2. /\ r \in Readers /\ r.how = reader.how /\ r.at = reader.at
        /\ r.first = reader.first /\ r.captures = reader.captures
        /\ Total \in r.counts
        /\ IsFiniteSet(r.got) /\ Cardinality(r.got) <= r.length
        /\ ReadBy(reader.got, store) => ReadBy(r.got, store)
        /\ \A s \in seen : Grew(s, store) /\ ReadSince(reader.got, s) => ReadSince(r.got, s)
    BY <1>1, PointReaderFields
  <1> HIDE DEF r
  <1>3. \/ Reject
        \/ /\ PagesMatch(r) /\ r.captures = 0
           /\ Go([Fresh("points") EXCEPT !.first = r.got, !.captures = 1])
        \/ /\ PagesMatch(r) /\ r.captures # 0
           /\ Go([r EXCEPT !.at = IF r.first = r.got THEN "accepted" ELSE "rejected"])
    BY DEF CaptureEnds, r
  <1>4. CASE Reject
    BY <1>4, RejectInv
  <1>5. CASE /\ PagesMatch(r) /\ r.captures = 0
             /\ Go([Fresh("points") EXCEPT !.first = r.got, !.captures = 1])
    <2>1. /\ Still /\ reader' \in Readers
          /\ reader'.how = "points" /\ reader'.at = "list" /\ reader'.got = {} /\ reader'.length = 0
          /\ reader'.first = r.got /\ reader'.captures = 1
      <3>1. Unknown \in Nat
        BY CaptureAssumption, FS_CardinalityType DEF Unknown
      <3>2. r.got \in SUBSET Versions /\ "points" \in Hows
        BY <1>1, <1>2 DEF Readers, CaptureTypeOK
      <3> QED
        BY <1>5, <3>1, <3>2 DEF Go, Fresh, Readers
    <2>2. CaptureTypeOK'
      BY <2>1, <1>1, FS_EmptySet DEF CaptureTypeOK, Still
    <2>3. AcceptedWasThere'
      BY <2>1 DEF AcceptedWasThere
    <2>4. (~shrunk => ReadBy(reader.got, store))'
      BY <2>1 DEF ReadBy
    <2>5. ASSUME ~shrunk
          PROVE  CapturedAt(store)'
      <3>1. IdsOf(r.got) = DOMAIN store /\ ReadBy(r.got, store)
        BY <1>1, <1>2, <1>5, <2>5, WholeCapture DEF CaptureInv, CaptureTypeOK
      <3>2. Grew(store, store) /\ store \in seen
        BY <1>1 DEF Grew, CaptureTypeOK, Stores
      <3> QED
        BY <2>1, <3>1, <3>2 DEF CapturedAt, Still, ReadSince, ReadBy, IdsOf
    <2>6. store \in seen
      BY <1>1 DEF CaptureTypeOK
    <2> QED
      BY <2>1, <2>2, <2>3, <2>4, <2>5, <2>6 DEF CaptureInv, Still
  <1>6. CASE /\ PagesMatch(r) /\ r.captures # 0
             /\ Go([r EXCEPT !.at = IF r.first = r.got THEN "accepted" ELSE "rejected"])
    <2>1. PICK at \in {"accepted", "rejected"} :
             (at = "accepted" => r.first = r.got) /\ ReadersStep(at, r.got, r.length)
      BY <1>2, <1>6 DEF Go, ReadersStep, Readers
    <2>2. CaptureTypeOK'
      BY <2>1, <1>1, <1>2 DEF CaptureTypeOK, ReadersStep, Still
    <2>3. r.captures = 1 /\ reader.captures = 1
      BY <1>2, <1>6 DEF Readers
    <2>4. ASSUME ~shrunk
          PROVE  \E s \in seen : CapturedAt(s)' /\ (at = "accepted" => Content(s) = r.got)
      <3>1. PICK s \in seen : CapturedAt(s)
        BY <2>3, <2>4 DEF CaptureInv
      <3>2. /\ Grew(s, store) /\ IdsOf(r.first) = DOMAIN s /\ ReadBy(r.first, s) /\ ReadSince(r.got, s)
        BY <3>1, <1>2 DEF CapturedAt
      <3>3. CapturedAt(s)'
        BY <3>2, <2>1, <1>2 DEF CapturedAt, ReadersStep, Still, ReadBy, ReadSince, IdsOf
      <3>4. ASSUME at = "accepted"
            PROVE  Content(s) = r.got
        <4>1. r.first = r.got
          BY <2>1, <3>4
        <4>2. ASSUME NEW x \in r.got
              PROVE  x = <<x[1], s[x[1]]>> /\ x[1] \in DOMAIN s
          <5>1. x[1] \in DOMAIN s /\ x[2] <= s[x[1]] /\ s[x[1]] <= x[2]
            BY <3>2, <4>1, <4>2 DEF ReadBy, ReadSince
          <5>2. x = <<x[1], x[2]>> /\ x[2] \in Nat
            BY <1>2, <4>2 DEF Readers, Versions
          <5>3. s[x[1]] \in Nat
            BY <1>1, <5>1 DEF CaptureTypeOK, Stores
          <5>4. x[2] = s[x[1]]
            BY <5>1, <5>2, <5>3
          <5> QED
            BY <5>1, <5>2, <5>4
        <4>3. ASSUME NEW i \in DOMAIN s
              PROVE  <<i, s[i]>> \in r.got
          <5>1. PICK x \in r.got : x[1] = i
            BY <3>2, <4>1, <4>3 DEF IdsOf
          <5> QED
            BY <5>1, <4>2
        <4> QED
          BY <4>2, <4>3 DEF Content
      <3> QED
        BY <3>3, <3>4
    <2>5. AcceptedWasThere'
      BY <2>1, <2>4, <1>2 DEF AcceptedWasThere, ReadersStep, Still
    <2>6. (~shrunk => ReadBy(reader.got, store))'
      BY <2>1, <1>2 DEF ReadersStep, Still, ReadBy, CaptureInv
    <2> QED
      BY <2>1, <2>2, <2>4, <2>5, <2>6 DEF CaptureInv, ReadersStep, Still
  <1> QED
    BY <1>3, <1>4, <1>5, <1>6

\* A page of the points from a cursor on.
LEMMA ReadPointPageInv ==
    ASSUME CaptureInv, ReadPointPage
    PROVE  CaptureInv'
  <1>1. CaptureTypeOK /\ reader.how = "points" /\ reader.at = "list" /\ reader.cursor \in Nat
    BY DEF CaptureInv, CaptureTypeOK, Readers, ReadPointPage
  <1>2. NextCursor(reader.cursor) \in Nat
    BY <1>1, CursorExists DEF CaptureTypeOK
  <1>3. \/ CaptureEnds(PointReader) \/ Reject \/ Go(PointReader)
    BY DEF ReadPointPage, PointReader
  <1>4. CASE CaptureEnds(PointReader)
    BY <1>1, <1>2, <1>4, CaptureEndsInv
  <1>5. CASE Reject
    BY <1>5, RejectInv
  <1>6. CASE Go(PointReader)
    <2>1. /\ PointReader \in Readers /\ PointReader.how = reader.how /\ PointReader.at = reader.at
          /\ PointReader.first = reader.first /\ PointReader.captures = reader.captures
          /\ IsFiniteSet(PointReader.got) /\ Cardinality(PointReader.got) <= PointReader.length
          /\ ReadBy(reader.got, store) => ReadBy(PointReader.got, store)
          /\ \A s \in seen : Grew(s, store) /\ ReadSince(reader.got, s) => ReadSince(PointReader.got, s)
      BY <1>1, <1>2, PointReaderFields
    <2>2. reader' = PointReader /\ Still
      BY <1>6 DEF Go
    <2>3. CaptureTypeOK'
      BY <2>1, <2>2, <1>1 DEF CaptureTypeOK, Still
    <2>4. AcceptedWasThere'
      BY <2>1, <2>2, <1>1 DEF AcceptedWasThere
    <2>5. (~shrunk => ReadBy(reader.got, store))'
      BY <2>1, <2>2 DEF Still, ReadBy, CaptureInv
    <2>6. ASSUME NEW s \in seen, CapturedAt(s)
          PROVE  CapturedAt(s)'
      BY <2>1, <2>2, <2>6 DEF CapturedAt, Still, ReadBy, ReadSince, IdsOf
    <2> QED
      BY <2>1, <2>2, <2>3, <2>4, <2>5, <2>6, <1>1 DEF CaptureInv, Still
  <1> QED
    BY <1>3, <1>4, <1>5, <1>6
-----------------------------------------------------------------------------
\* Before the first page nothing was read, and the store is its own witness.
LEMMA CaptureInitInv == CaptureInit => CaptureInv
  <1> SUFFICES ASSUME CaptureInit
               PROVE  CaptureInv
    OBVIOUS
  <1>1. PICK how \in Hows : reader = Fresh(how)
    BY DEF CaptureInit
  <1>2. store \in Stores
    <2>1. PICK S \in SUBSET Ids : store \in [S -> {1}]
      BY DEF CaptureInit
    <2> QED
      BY <2>1 DEF Stores
  <1>3. Unknown \in Nat
    BY CaptureAssumption, FS_CardinalityType DEF Unknown
  <1>4. /\ reader \in Readers /\ reader.at = "list" /\ reader.got = {} /\ reader.captures = 0
        /\ reader.length = 0
    BY <1>1, <1>3 DEF Fresh, Readers
  <1>5. CaptureTypeOK
    <2>1. IsFiniteSet(reader.got) /\ Cardinality(reader.got) <= reader.length
      BY <1>4, FS_EmptySet
    <2>2. seen = {store} /\ changes = 0 /\ shrunk = FALSE
      BY DEF CaptureInit
    <2>3. store \in seen /\ seen \in SUBSET Stores
      BY <1>2, <2>2
    <2>4. changes \in Nat /\ shrunk \in BOOLEAN
      BY <2>2
    <2>5. reader.at # "detail" /\ reader.captures # 1
      BY <1>4
    <2> QED
      BY <1>4, <2>1, <2>3, <2>4, <2>5 DEF CaptureTypeOK
  <1> QED
    BY <1>4, <1>5 DEF CaptureInv, ReadBy, AcceptedWasThere

\* Every step keeps it.
LEMMA CaptureNextInv == CaptureInv /\ [CaptureNext]_captureVars => CaptureInv'
  <1> SUFFICES ASSUME CaptureInv, [CaptureNext]_captureVars
               PROVE  CaptureInv'
    OBVIOUS
  <1>1. CASE UNCHANGED captureVars
    BY <1>1 DEF captureVars, CaptureInv, CaptureTypeOK, AcceptedWasThere, CapturedAt, DetailsAt, Grew,
                ReadBy, ReadSince, Single, IdsOf
  <1>2. CASE \E i \in Ids : Add(i) \/ Edit(i) \/ Drop(i)
    BY <1>2, AddInv, EditInv, DropInv
  <1>3. CASE ReadBankPage
    BY <1>3, ReadBankPageInv
  <1>4. CASE ReadListPage
    BY <1>4, ReadListPageInv
  <1>5. CASE ReadDetail
    BY <1>5, ReadDetailInv
  <1>6. CASE DetailsEnd
    BY <1>6, DetailsEndInv
  <1>7. CASE ReadPointPage
    BY <1>7, ReadPointPageInv
  <1> QED
    BY <1>1, <1>2, <1>3, <1>4, <1>5, <1>6, <1>7 DEF CaptureNext

\* What a reader accepts is what the provider held at one moment of the
\* reading (_build_projection, _complete_bank_inventory, wait_ready).
THEOREM CaptureSound == CaptureSpec => []AcceptedWasThere
  <1>1. CaptureSpec => []CaptureInv
    BY CaptureInitInv, CaptureNextInv, PTL DEF CaptureSpec
  <1>2. CaptureInv => AcceptedWasThere
    BY DEF CaptureInv
  <1> QED
    BY <1>1, <1>2, PTL
-----------------------------------------------------------------------------
\* The first n items of S.
Low(S, n) == {i \in S : Rank(S, i) < n}

\* While the provider is at rest an offset reader holds the first items,
OffsetAtRest ==
    reader.how # "points" /\ reader.at = "list" =>
        /\ reader.total \in {Unknown, Total} /\ reader.length <= Total
        /\ reader.got = Items(Low(DOMAIN store, reader.length))

\* then all of them,
DetailAtRest ==
    reader.at = "detail" => reader.got = Items(DOMAIN store) /\ reader.todo \subseteq DOMAIN store

\* and a cursor reader whole pages of those up to its cursor.
UpTo(n) == {i \in DOMAIN store : i <= n}

PointsAtRest ==
    reader.how = "points" /\ reader.at = "list" =>
        /\ reader.counts \subseteq {Total}
        /\ reader.got = Items(UpTo(reader.cursor)) /\ reader.length = Cardinality(UpTo(reader.cursor))
        /\ reader.length = reader.pages * PageLimit /\ reader.pages < MaxPages
        /\ reader.captures = 1 => reader.first = Items(DOMAIN store)

StableInv ==
    changes = 0 => OffsetAtRest /\ DetailAtRest /\ PointsAtRest /\ StableIsAccepted

\* There are n first items as long as there are n items.
LEMMA LowCount ==
    ASSUME NEW S \in SUBSET Nat, IsFiniteSet(S), NEW n \in Nat
    PROVE  /\ Low(S, n) \in SUBSET S /\ IsFiniteSet(Low(S, n)) /\ Cardinality(S) \in Nat
           /\ n <= Cardinality(S) => Cardinality(Low(S, n)) = n
           /\ n >= Cardinality(S) => Low(S, n) = S
  <1> DEFINE f == [i \in S |-> Rank(S, i)]
             g == [i \in Low(S, n) |-> Rank(S, i)]
  <1>1. Low(S, n) \in SUBSET S
    BY DEF Low
  <1>2. IsFiniteSet(Low(S, n)) /\ Cardinality(S) \in Nat
    BY <1>1, FS_Subset, FS_CardinalityType
  <1>3. \A i \in S : Rank(S, i) \in 0..(Cardinality(S) - 1)
    BY RankOrders
  <1>4. ASSUME n >= Cardinality(S)
        PROVE  Low(S, n) = S
    <2>1. \A i \in S : Rank(S, i) < n
      BY <1>2, <1>3, <1>4
    <2> QED
      BY <2>1 DEF Low
  <1>5. ASSUME n <= Cardinality(S)
        PROVE  Cardinality(Low(S, n)) = n
    <2>1. \A i \in Low(S, n) : g[i] \in 0..(n - 1)
      BY <1>2, <1>3 DEF Low
    <2>2. f \in Bijection(S, 0..(Cardinality(S) - 1))
      BY RankBijection
    <2>3. \A i, j \in Low(S, n) : g[i] = g[j] => i = j
      <3>1. \A i, j \in S : f[i] = f[j] => i = j
        BY <2>2 DEF Bijection, Injection, IsInjective
      <3> QED
        BY <1>1, <3>1
    <2>4. ASSUME NEW k \in 0..(n - 1)
          PROVE  \E i \in Low(S, n) : g[i] = k
      <3>1. k \in Nat /\ k < Cardinality(S) /\ k < n
        BY <1>2, <1>5
      <3>2. PICK i \in S : Rank(S, i) = k
        BY <3>1, RankReached
      <3> QED
        BY <3>1, <3>2 DEF Low
    <2>5. g \in Bijection(Low(S, n), 0..(n - 1))
      BY <2>1, <2>3, <2>4 DEF Bijection, Injection, Surjection, IsInjective
    <2>6. Cardinality(0..(n - 1)) = Cardinality(Low(S, n))
      BY <1>2, <2>5, FS_Bijection DEF ExistsBijection
    <2>7. Cardinality(0..(n - 1)) = IF 0 > n - 1 THEN 0 ELSE n - 1 - 0 + 1
      BY FS_Interval
    <2> QED
      BY <2>6, <2>7
  <1> QED
    BY <1>1, <1>2, <1>4, <1>5

\* A page goes on where the first n items end, and is empty only at the end.
LEMMA PageGoesOn ==
    ASSUME NEW S \in SUBSET Nat, IsFiniteSet(S), NEW n \in Nat, n <= Cardinality(S)
    PROVE  LET m == n + Cardinality(Page(S, n))
           IN  /\ m \in Nat /\ m <= Cardinality(S)
               /\ Low(S, m) = Low(S, n) \cup Page(S, n)
               /\ Page(S, n) = {} <=> n = Cardinality(S)
  <1> DEFINE limit == n + PageLimit
  <1>1. /\ limit \in Nat /\ PageLimit \in Nat /\ PageLimit >= 1 /\ Cardinality(S) \in Nat
        /\ \A i \in S : Rank(S, i) \in Nat /\ Rank(S, i) < Cardinality(S)
    BY CaptureAssumption, FS_CardinalityType, RankOrders
  <1>2. Low(S, limit) = Low(S, n) \cup Page(S, n) /\ Low(S, n) \cap Page(S, n) = {}
    <2>1. ASSUME NEW r \in Nat
          PROVE  /\ r < limit <=> r < n \/ r \in n..(n + PageLimit - 1)
                 /\ r < n => r \notin n..(n + PageLimit - 1)
      BY <1>1
    <2>2. ASSUME NEW i \in S
          PROVE  /\ Rank(S, i) < limit <=> Rank(S, i) < n \/ Rank(S, i) \in n..(n + PageLimit - 1)
                 /\ Rank(S, i) < n => Rank(S, i) \notin n..(n + PageLimit - 1)
      BY <1>1, <2>1
    <2>3. ASSUME NEW i
          PROVE  /\ i \in Low(S, limit) <=> i \in Low(S, n) \/ i \in Page(S, n)
                 /\ ~(i \in Low(S, n) /\ i \in Page(S, n))
      <3> DEFINE r == Rank(S, i)
      <3>1. i \in Low(S, limit) <=> i \in S /\ r < limit
        BY DEF Low
      <3>2. i \in Low(S, n) <=> i \in S /\ r < n
        BY DEF Low
      <3>3. i \in Page(S, n) <=> i \in S /\ r \in n..(n + PageLimit - 1)
        BY DEF Page
      <3>4. i \in S => /\ r < limit <=> r < n \/ r \in n..(n + PageLimit - 1)
                       /\ r < n => r \notin n..(n + PageLimit - 1)
        BY <2>2
      <3> HIDE DEF r, limit
      <3> QED
        BY <3>1, <3>2, <3>3, <3>4
    <2> QED
      BY <2>3
  <1>3. Page(S, n) \in SUBSET S /\ IsFiniteSet(Page(S, n)) /\ Cardinality(Page(S, n)) \in Nat
    <2>1. Page(S, n) \in SUBSET S
      BY DEF Page
    <2> QED
      BY <2>1, FS_Subset, FS_CardinalityType
  <1>4. /\ IsFiniteSet(Low(S, n)) /\ Cardinality(Low(S, n)) = n
        /\ limit <= Cardinality(S) => Cardinality(Low(S, limit)) = limit
        /\ limit >= Cardinality(S) => Low(S, limit) = S
        /\ Low(S, Cardinality(S)) = S
    BY <1>1, LowCount
  <1>5. Cardinality(Low(S, limit)) = n + Cardinality(Page(S, n))
    <2>1. Cardinality(Low(S, n) \cup Page(S, n)) =
             Cardinality(Low(S, n)) + Cardinality(Page(S, n)) - Cardinality(Low(S, n) \cap Page(S, n))
      BY <1>3, <1>4, FS_Union
    <2>2. Cardinality(Low(S, n) \cap Page(S, n)) = 0
      BY <1>2, FS_EmptySet
    <2>3. Cardinality(Low(S, limit)) = Cardinality(Low(S, n)) + Cardinality(Page(S, n)) - 0
      BY <1>2, <2>1, <2>2
    <2>4. \A a, b, x \in Nat : a = b + x - 0 => a = b + x
      OBVIOUS
    <2> QED
      BY <1>3, <1>4, <2>3
  <1>6. Page(S, n) = {} <=> Cardinality(Page(S, n)) = 0
    BY <1>3, FS_EmptySet
  <1> DEFINE page == Page(S, n)
             c == Cardinality(S)
  <1> HIDE DEF page
  <1>7. CASE limit <= c
    <2>1. n + Cardinality(page) = limit
      BY <1>4, <1>5, <1>7 DEF page
    <2>2. Cardinality(page) # 0 /\ n # c
      BY <1>1, <1>3, <1>7, <2>1 DEF page
    <2> QED
      BY <1>1, <1>2, <1>6, <1>7, <2>1, <2>2 DEF page
  <1>8. CASE limit > c
    <2>1. n + Cardinality(page) = c
      BY <1>1, <1>4, <1>5, <1>8 DEF page
    <2>2. Low(S, c) = Low(S, limit)
      BY <1>1, <1>4, <1>8
    <2>3. Cardinality(page) = 0 <=> n = c
      BY <1>1, <1>3, <2>1 DEF page
    <2> QED
      BY <1>1, <1>2, <1>6, <2>1, <2>2, <2>3 DEF page
  <1> QED
    BY <1>1, <1>7, <1>8

\* Two parts of the store together.
LEMMA ItemsJoin ==
    ASSUME NEW S, NEW T
    PROVE  Items(S \cup T) = Items(S) \cup Items(T)
  BY DEF Items

\* What the next page of a listing says of a provider at rest: there is
\* nothing in it to refuse, and it is empty only when all has been read.
LEMMA RestingPage ==
    ASSUME CaptureTypeOK, OffsetAtRest, reader.how # "points", reader.at = "list"
    PROVE  LET page == OffsetPage(reader.length)
               r == Grown(page)
           IN  /\ r \in Readers /\ r.how = reader.how /\ r.total = Total /\ Declared = Total
               /\ r.length \in Nat /\ Total \in Nat /\ r.length <= Total
               /\ r.got = Items(Low(DOMAIN store, r.length)) /\ IdsOf(r.got) \subseteq DOMAIN store
               /\ ~Duplicates(r)
               /\ page = {} => r.length = Total /\ r.got = Items(DOMAIN store) /\ IdsOf(r.got) = DOMAIN store
               /\ r.length < Total => page # {}
  <1> DEFINE D == DOMAIN store
             n == reader.length
             S == Page(D, n)
             page == Items(S)
             r == Grown(page)
             m == n + Cardinality(S)
  <1>1. /\ reader.total \in {Unknown, Total} /\ n <= Total
        /\ reader.got = Items(Low(D, n)) /\ n \in Nat
    BY DEF OffsetAtRest, CaptureTypeOK, Readers
  <1>2. S \in SUBSET D /\ OffsetPage(n) = page
    BY OffsetPageThere
  <1>3. /\ D \in SUBSET Nat /\ IsFiniteSet(D) /\ Total = Cardinality(D) /\ Total \in Nat
        /\ Cardinality(S) \in Nat
    BY <1>2, StoreFinite, CaptureAssumption DEF CaptureTypeOK, Total
  <1>4. Cardinality(page) = Cardinality(S) /\ (page = {} <=> S = {})
    BY <1>2, ItemsThere DEF CaptureTypeOK, Items
  <1>5. /\ m \in Nat /\ m <= Cardinality(D)
        /\ Low(D, m) = Low(D, n) \cup S
        /\ S = {} <=> n = Cardinality(D)
    BY <1>1, <1>3, PageGoesOn
  <1>6. /\ Low(D, m) \in SUBSET D /\ Cardinality(Low(D, m)) = m
        /\ m = Total => Low(D, m) = D
    BY <1>3, <1>5, LowCount
  <1>7. /\ r \in Readers /\ r.how = reader.how /\ r.got = reader.got \cup page
        /\ r.length = n + Cardinality(page)
    BY <1>2, GrownFields
  <1>8. Declared = Total
    BY <1>1 DEF Declared
  <1>9. r.total = Total
    BY <1>8 DEF Grown, CaptureTypeOK, Readers
  <1>10. r.got = Items(Low(D, m)) /\ r.length = m
    <2>1. Items(Low(D, m)) = Items(Low(D, n)) \cup page
      BY <1>5, ItemsJoin
    <2> HIDE DEF page, r
    <2> QED
      BY <1>1, <1>4, <1>7, <2>1
  <1>11. IdsOf(r.got) = Low(D, m)
    BY <1>6, <1>10, ItemsThere DEF CaptureTypeOK
  <1>12. ~Duplicates(r)
    BY <1>6, <1>10, <1>11 DEF Duplicates
  <1>13. S = {} => m = Total
    <2>1. S = {} => Cardinality(S) = 0
      BY FS_EmptySet
    <2> QED
      BY <2>1, <1>1, <1>3, <1>5
  <1>14. m < Total => S # {}
    BY <1>3, <1>13
  <1> HIDE DEF r, page, S, m
  <1>15. /\ r \in Readers /\ r.how = reader.how /\ r.total = Total /\ Declared = Total
         /\ r.length \in Nat /\ Total \in Nat /\ r.length <= Total
         /\ r.got = Items(Low(D, r.length)) /\ IdsOf(r.got) \subseteq D
         /\ ~Duplicates(r)
         /\ page = {} => r.length = Total /\ r.got = Items(D) /\ IdsOf(r.got) = D
         /\ r.length < Total => page # {}
    BY <1>3, <1>4, <1>5, <1>6, <1>7, <1>8, <1>9, <1>10, <1>11, <1>12, <1>13, <1>14
  <1> QED
    BY <1>2, <1>15 DEF r

\* A bank at rest is read on or accepted.
LEMMA ReadBankPageStable ==
    ASSUME CaptureTypeOK, StableInv, changes = 0, ReadBankPage
    PROVE  StableInv'
  <1> DEFINE page == OffsetPage(reader.length)
             r == Grown(page)
  <1>1. /\ reader.how = "banks" /\ reader.at = "list"
        /\ \/ Total # Declared
           \/ Duplicates(r)
           \/ r.length > Declared
           \/ r.length < Declared /\ page = {}
           \/ Go([r EXCEPT !.at = IF page = {} THEN "accepted" ELSE "list"])
    BY DEF ReadBankPage
  <1>2. OffsetAtRest
    BY DEF StableInv
  <1>3. /\ r \in Readers /\ r.how = reader.how /\ r.total = Total /\ Declared = Total
        /\ r.length \in Nat /\ Total \in Nat /\ r.length <= Total
        /\ r.got = Items(Low(DOMAIN store, r.length)) /\ ~Duplicates(r)
        /\ r.length < Total => page # {}
    BY <1>1, <1>2, RestingPage
  <1> HIDE DEF r, page
  <1>4. Go([r EXCEPT !.at = IF page = {} THEN "accepted" ELSE "list"])
    BY <1>1, <1>3
  <1>5. /\ Still /\ reader'.how = "banks" /\ reader'.at \in {"accepted", "list"}
        /\ reader'.total = Total /\ reader'.length = r.length /\ reader'.got = r.got
    BY <1>1, <1>3, <1>4 DEF Go, Readers
  <1>6. OffsetAtRest'
    BY <1>3, <1>5 DEF OffsetAtRest, Still, Total, Items, Low
  <1> QED
    BY <1>5, <1>6 DEF StableInv, DetailAtRest, PointsAtRest, StableIsAccepted

\* A listing of documents that differ from the sources is refused, and no other.
LEMMA ReadListPageStable ==
    ASSUME CaptureTypeOK, StableInv, changes = 0, ReadListPage
    PROVE  StableInv'
  <1> DEFINE page == OffsetPage(reader.length)
             r == Grown(page)
  <1>1. /\ reader.how \in {"documents", "memories"} /\ reader.at = "list"
        /\ \/ Total # Declared
           \/ Duplicates(r)
           \/ r.length > Declared
           \/ page = {} /\ r.length # Declared
           \/ page = {} /\ reader.how = "documents" /\ IdsOf(r.got) # Expected /\ Reject
           \/ Go([r EXCEPT !.at = IF page = {} THEN "detail" ELSE "list", !.todo = IdsOf(r.got)])
    BY DEF ReadListPage
  <1>2. OffsetAtRest
    BY DEF StableInv
  <1>3. /\ r \in Readers /\ r.how = reader.how /\ r.total = Total /\ Declared = Total
        /\ r.length \in Nat /\ Total \in Nat /\ r.length <= Total
        /\ r.got = Items(Low(DOMAIN store, r.length)) /\ IdsOf(r.got) \subseteq DOMAIN store
        /\ ~Duplicates(r)
        /\ page = {} => r.length = Total /\ r.got = Items(DOMAIN store) /\ IdsOf(r.got) = DOMAIN store
    BY <1>1, <1>2, RestingPage
  <1> HIDE DEF r, page
  <1>4. CASE page = {} /\ reader.how = "documents" /\ IdsOf(r.got) # Expected /\ Reject
    <2>1. Still /\ reader'.how = "documents" /\ reader'.at = "rejected" /\ DOMAIN store # Expected
      BY <1>3, <1>4 DEF Reject, Go, CaptureTypeOK, Readers
    <2> QED
      BY <2>1 DEF StableInv, Still, OffsetAtRest, DetailAtRest, PointsAtRest, StableIsAccepted
  <1>5. CASE Go([r EXCEPT !.at = IF page = {} THEN "detail" ELSE "list", !.todo = IdsOf(r.got)])
    <2>1. /\ Still /\ reader'.how # "points"
          /\ reader'.at = (IF page = {} THEN "detail" ELSE "list")
          /\ reader'.total = Total /\ reader'.length = r.length /\ reader'.got = r.got
          /\ reader'.todo = IdsOf(r.got)
      BY <1>1, <1>3, <1>5 DEF Go, Readers
    <2>2. OffsetAtRest'
      BY <1>3, <2>1 DEF OffsetAtRest, Still, Total, Items, Low
    <2>3. DetailAtRest'
      BY <1>3, <2>1 DEF DetailAtRest, Still, Items
    <2> QED
      BY <2>1, <2>2, <2>3 DEF StableInv, PointsAtRest, StableIsAccepted
  <1> QED
    BY <1>1, <1>3, <1>4, <1>5

\* The least of a finite set of numbers is one of them.
LEMMA MinThere ==
    ASSUME NEW S \in SUBSET Nat, IsFiniteSet(S), S # {}
    PROVE  Min(S) \in S
  <1>1. Cardinality(S) \in Nat /\ Cardinality(S) # 0
    BY FS_CardinalityType, FS_EmptySet
  <1>2. 0 \in Nat /\ 0 < Cardinality(S)
    BY <1>1
  <1>3. PICK i \in S : Rank(S, i) = 0
    BY <1>2, RankReached
  <1>4. ASSUME NEW j \in S
        PROVE  i <= j
    <2>1. Rank(S, j) \in 0..(Cardinality(S) - 1) /\ (i <= j <=> Rank(S, i) <= Rank(S, j))
      BY RankOrders
    <2>2. Rank(S, i) <= Rank(S, j)
      BY <1>3, <2>1
    <2> QED
      BY <2>1, <2>2
  <1> QED
    BY <1>4 DEF Min

\* The details of a provider at rest agree with its pages.
LEMMA ReadDetailStable ==
    ASSUME CaptureTypeOK, StableInv, changes = 0, ReadDetail
    PROVE  StableInv'
  <1> DEFINE i == Min(reader.todo)
  <1>1. /\ reader.at = "detail" /\ reader.todo # {}
        /\ \/ ~(i \in DOMAIN store /\ <<i, store[i]>> \in reader.got)
           \/ Go([reader EXCEPT !.todo = @ \ {i}])
    BY DEF ReadDetail
  <1>2. reader.got = Items(DOMAIN store) /\ reader.todo \in SUBSET DOMAIN store
    BY <1>1 DEF StableInv, DetailAtRest
  <1>3. IsFiniteSet(reader.todo) /\ DOMAIN store \in SUBSET Ids
    BY <1>2, StoreFinite DEF CaptureTypeOK
  <1>4. i \in reader.todo
    BY <1>1, <1>2, <1>3, MinThere, CaptureAssumption
  <1> HIDE DEF i
  <1>5. i \in DOMAIN store /\ <<i, store[i]>> \in reader.got
    BY <1>2, <1>4 DEF Items
  <1>6. /\ Still /\ reader'.how = reader.how /\ reader'.at = "detail"
        /\ reader'.got = reader.got /\ reader'.todo = reader.todo \ {i}
    BY <1>1, <1>5 DEF Go, CaptureTypeOK, Readers
  <1> QED
    BY <1>2, <1>6 DEF StableInv, Still, OffsetAtRest, DetailAtRest, PointsAtRest, StableIsAccepted, Items

\* The items up to a cursor and those after it are all there are; a page moves
\* the cursor by as many items as fit on it, and the last one reads the rest.
LEMMA CursorSplits ==
    ASSUME store \in Stores, NEW c \in Nat
    PROVE  LET page == Page(After(c), 0)
               next == NextCursor(c)
           IN  /\ UpTo(c) \in SUBSET DOMAIN store /\ Cardinality(UpTo(c)) \in Nat
               /\ Total = Cardinality(UpTo(c)) + Cardinality(After(c))
               /\ next = 0 => UpTo(c) \cup page = DOMAIN store /\ page = After(c)
               /\ next # 0 => /\ UpTo(next) = UpTo(c) \cup page /\ Cardinality(page) = PageLimit
                              /\ Cardinality(UpTo(next)) = Cardinality(UpTo(c)) + PageLimit
                              /\ Total > Cardinality(UpTo(c)) + PageLimit
  <1> DEFINE D == DOMAIN store
             A == After(c)
             U == UpTo(c)
             page == Page(A, 0)
             next == NextCursor(c)
  <1>1. PageLimit \in Nat /\ PageLimit >= 1 /\ D \in SUBSET Nat
    BY StoreFinite, CaptureAssumption
  <1>2. U \in SUBSET D /\ A \in SUBSET D /\ U \cup A = D /\ U \cap A = {}
    BY <1>1 DEF UpTo, After
  <1>3. /\ IsFiniteSet(U) /\ Cardinality(U) \in Nat /\ IsFiniteSet(A) /\ Cardinality(A) \in Nat
        /\ A \in SUBSET Nat
    BY <1>1, <1>2, StoreFinite
  <1>4. Total = Cardinality(U) + Cardinality(A)
    <2>1. Cardinality(U \cup A) = Cardinality(U) + Cardinality(A) - Cardinality(U \cap A)
      BY <1>3, FS_Union
    <2>2. Cardinality(U \cap A) = 0
      BY <1>2, FS_EmptySet
    <2>3. Total = Cardinality(U) + Cardinality(A) - 0
      BY <1>2, <2>1, <2>2 DEF Total
    <2>4. \A a, b, x \in Nat : a = b + x - 0 => a = b + x
      OBVIOUS
    <2>5. Total \in Nat
      BY <1>2, StoreFinite
    <2> QED
      BY <1>3, <2>3, <2>4, <2>5
  <1>5. page = Low(A, PageLimit)
    <2>1. ASSUME NEW i \in A
          PROVE  Rank(A, i) \in 0..(0 + PageLimit - 1) <=> Rank(A, i) < PageLimit
      <3>1. Rank(A, i) \in 0..(Cardinality(A) - 1)
        BY <1>3, RankOrders
      <3> HIDE DEF A
      <3> QED
        BY <1>1, <3>1
    <2>2. page = {i \in A : Rank(A, i) \in 0..(0 + PageLimit - 1)}
      BY DEF Page
    <2>3. Low(A, PageLimit) = {i \in A : Rank(A, i) < PageLimit}
      BY DEF Low
    <2> HIDE DEF A, page
    <2> QED
      BY <2>1, <2>2, <2>3
  <1>6. /\ next \in Nat
        /\ Cardinality(A) <= PageLimit => next = 0
        /\ Cardinality(A) > PageLimit => next \in A /\ Rank(A, next) = PageLimit - 1
        /\ 0 \notin A
    BY CursorExists
  <1>7. /\ PageLimit <= Cardinality(A) => Cardinality(page) = PageLimit
        /\ PageLimit >= Cardinality(A) => page = A
    BY <1>1, <1>3, <1>5, LowCount
  <1>8. ASSUME next = 0
        PROVE  U \cup page = D /\ page = A
    <2>1. Cardinality(A) <= PageLimit
      BY <1>1, <1>3, <1>6, <1>8
    <2> QED
      BY <1>1, <1>2, <1>3, <1>7, <2>1
  <1>9. ASSUME next # 0
        PROVE  /\ UpTo(next) = U \cup page /\ Cardinality(page) = PageLimit
               /\ Cardinality(UpTo(next)) = Cardinality(U) + PageLimit
               /\ Total > Cardinality(U) + PageLimit
    <2>1. /\ Cardinality(A) > PageLimit /\ next \in A /\ Rank(A, next) = PageLimit - 1
          /\ Cardinality(page) = PageLimit
      BY <1>1, <1>3, <1>6, <1>7, <1>9
    <2>2. ASSUME NEW i \in A
          PROVE  i <= next <=> i \in page
      <3>1. /\ Rank(A, i) \in 0..(Cardinality(A) - 1)
            /\ i <= next <=> Rank(A, i) <= Rank(A, next)
        BY <1>3, <2>1, RankOrders
      <3>2. i \in page <=> Rank(A, i) < PageLimit
        BY <1>5 DEF Low
      <3> HIDE DEF A, page, next
      <3> QED
        BY <1>1, <2>1, <3>1, <3>2
    <2>3. \A i \in U : i <= next
      <3>1. \A i \in U : i \in Nat /\ i <= c
        BY <1>1 DEF UpTo
      <3>2. next \in Nat /\ next > c
        BY <1>6, <2>1 DEF After
      <3> HIDE DEF U, next
      <3> QED
        BY <3>1, <3>2
    <2>4. page \in SUBSET A
      BY DEF Page
    <2>5. UpTo(next) = {i \in D : i <= next}
      BY DEF UpTo
    <2>6. UpTo(next) = U \cup page
      <3> HIDE DEF D, U, A, page, next
      <3> QED
        BY <1>2, <2>2, <2>3, <2>4, <2>5
    <2>7. IsFiniteSet(page) /\ U \cap page = {}
      <3> HIDE DEF D, U, A, page, next
      <3> QED
        BY <1>2, <1>3, <2>4, FS_Subset
    <2>8. Cardinality(U \cup page) = Cardinality(U) + Cardinality(page) - Cardinality(U \cap page)
      BY <1>3, <2>7, FS_Union
    <2>9. Cardinality(U \cap page) = 0
      BY <2>7, FS_EmptySet
    <2> HIDE DEF D, U, A, page, next
    <2>10. Cardinality(UpTo(next)) = Cardinality(U) + PageLimit - 0
      BY <2>1, <2>6, <2>8, <2>9
    <2>11. \A b, x \in Nat : b + x - 0 = b + x
      OBVIOUS
    <2>12. Total > Cardinality(U) + PageLimit
      BY <1>1, <1>3, <1>4, <2>1
    <2> QED
      BY <1>1, <1>3, <2>1, <2>6, <2>10, <2>11, <2>12
  <1> HIDE DEF U, A, page
  <1> QED
    BY <1>2, <1>3, <1>4, <1>8, <1>9 DEF U, A, page

\* A capture of a provider at rest goes on, ends with the whole store, or runs
\* out of pages.
LEMMA ReadPointPageStable ==
    ASSUME CaptureTypeOK, StableInv, changes = 0, ReadPointPage
    PROVE  StableInv'
  <1> DEFINE c == reader.cursor
             page == Page(After(c), 0)
             next == NextCursor(c)
             r == PointReader
             D == DOMAIN store
  <1>1. /\ reader.how = "points" /\ reader.at = "list"
        /\ IF next = 0 THEN CaptureEnds(r) ELSE IF r.pages = MaxPages THEN Reject ELSE Go(r)
    BY DEF ReadPointPage, PointReader
  <1>2. /\ reader.counts \subseteq {Total}
        /\ reader.got = Items(UpTo(c)) /\ reader.length = Cardinality(UpTo(c))
        /\ reader.length = reader.pages * PageLimit /\ reader.pages < MaxPages
        /\ reader.captures = 1 => reader.first = Items(D)
    BY <1>1 DEF StableInv, PointsAtRest
  <1>3. store \in Stores /\ c \in Nat /\ reader.pages \in Nat /\ reader.captures \in {0, 1}
    BY DEF CaptureTypeOK, Readers
  <1>4. next \in Nat
    BY <1>3, CursorExists
  <1>5. /\ page \in SUBSET D
        /\ r \in Readers /\ r.how = reader.how /\ r.at = reader.at
        /\ r.first = reader.first /\ r.captures = reader.captures
        /\ r.got = reader.got \cup Items(page)
        /\ r.length = reader.length + Cardinality(Items(page))
        /\ r.counts = reader.counts \cup {Total}
        /\ r.cursor = next /\ r.pages = reader.pages + 1
    BY <1>4, PointReaderGrows
  <1>6. /\ UpTo(c) \in SUBSET D /\ Cardinality(UpTo(c)) \in Nat
        /\ Total = Cardinality(UpTo(c)) + Cardinality(After(c))
        /\ next = 0 => UpTo(c) \cup page = D /\ page = After(c)
        /\ next # 0 => /\ UpTo(next) = UpTo(c) \cup page /\ Cardinality(page) = PageLimit
                       /\ Cardinality(UpTo(next)) = Cardinality(UpTo(c)) + PageLimit
                       /\ Total > Cardinality(UpTo(c)) + PageLimit
    BY <1>3, CursorSplits
  <1>7. Cardinality(Items(page)) = Cardinality(page) /\ Total \in Nat
    BY <1>3, <1>5, ItemsThere, StoreFinite
  <1>8. r.got = Items(UpTo(c) \cup page) /\ r.counts = {Total}
    BY <1>2, <1>5, ItemsJoin
  <1>9. PageLimit \in Nat /\ MaxPages \in Nat /\ MaxPages >= 1
    BY CaptureAssumption
  <1> HIDE DEF c, page, next, r
  <1>10. CASE next = 0
    <2>1. r.got = Items(D) /\ r.length = Total
      BY <1>2, <1>5, <1>6, <1>7, <1>8, <1>10
    <2>2. IdsOf(r.got) = D
      BY <1>3, <2>1, ItemsThere
    <2>3. PagesMatch(r)
      BY <1>8, <2>1, <2>2 DEF PagesMatch, Duplicates, Total
    <2>4. IF r.captures = 0
          THEN Go([Fresh("points") EXCEPT !.first = r.got, !.captures = 1])
          ELSE Go([r EXCEPT !.at = IF r.first = r.got THEN "accepted" ELSE "rejected"])
      BY <1>1, <1>10, <2>3 DEF CaptureEnds
    <2>5. CASE r.captures = 0
      <3>1. /\ Still /\ reader'.how = "points" /\ reader'.at = "list" /\ reader'.counts = {}
            /\ reader'.got = {} /\ reader'.length = 0 /\ reader'.cursor = 0 /\ reader'.pages = 0
            /\ reader'.first = Items(D)
        BY <2>1, <2>4, <2>5 DEF Go, Fresh
      <3>2. {i \in D : i <= 0} = {}
        BY <1>3, StoreFinite, CaptureAssumption
      <3>3. 0 = 0 * PageLimit /\ 0 < MaxPages
        BY <1>9
      <3>4. PointsAtRest'
        BY <3>1, <3>2, <3>3, FS_EmptySet DEF PointsAtRest, Still, UpTo, Items
      <3> QED
        BY <3>1, <3>4 DEF StableInv, Still, OffsetAtRest, DetailAtRest, StableIsAccepted
    <2>6. CASE r.captures # 0
      <3>1. r.first = r.got
        BY <1>2, <1>3, <1>5, <2>1, <2>6
      <3>2. Still /\ reader'.at = "accepted"
        BY <1>5, <2>4, <2>6, <3>1 DEF Go, Readers
      <3> QED
        BY <3>2 DEF StableInv, OffsetAtRest, DetailAtRest, PointsAtRest, StableIsAccepted
    <2> QED
      BY <2>5, <2>6
  <1>11. CASE next # 0
    <2>1. r.length = Cardinality(UpTo(next)) /\ r.got = Items(UpTo(next))
      BY <1>2, <1>5, <1>6, <1>7, <1>8, <1>11
    <2>2. r.length = r.pages * PageLimit /\ Total > r.pages * PageLimit
      <3>1. Cardinality(UpTo(c)) + PageLimit = r.pages * PageLimit
        BY <1>2, <1>3, <1>5, <1>9
      <3> QED
        BY <1>6, <1>11, <2>1, <3>1
    <2>3. CASE r.pages = MaxPages
      <3>1. Still /\ reader'.at = "rejected" /\ reader'.how = "points"
        BY <1>1, <1>11, <2>3 DEF Reject, Go, CaptureTypeOK, Readers
      <3>2. Total > PageLimit * MaxPages
        BY <1>9, <2>2, <2>3
      <3> QED
        BY <3>1, <3>2 DEF StableInv, OffsetAtRest, DetailAtRest, PointsAtRest, StableIsAccepted, Still, Total
    <2>4. CASE r.pages # MaxPages
      <3>1. reader' = r /\ Still
        BY <1>1, <1>11, <2>4 DEF Go
      <3>2. r.pages < MaxPages
        BY <1>2, <1>3, <1>5, <1>9, <2>4
      <3>3. PointsAtRest'
        BY <1>2, <1>5, <1>8, <2>1, <2>2, <3>1, <3>2 DEF PointsAtRest, Still, UpTo, Items, Total
      <3> QED
        BY <1>1, <1>5, <3>1, <3>3 DEF StableInv, OffsetAtRest, DetailAtRest, StableIsAccepted
    <2> QED
      BY <2>3, <2>4
  <1> QED
    BY <1>10, <1>11

\* Nothing read yet: no item, no page.
LEMMA StableInitInv == CaptureInit => StableInv
  <1> SUFFICES ASSUME CaptureInit
               PROVE  StableInv
    OBVIOUS
  <1>1. PICK how \in Hows : reader = Fresh(how)
    BY DEF CaptureInit
  <1>2. /\ reader.at = "list" /\ reader.got = {} /\ reader.length = 0 /\ reader.total = Unknown
        /\ reader.counts = {} /\ reader.cursor = 0 /\ reader.pages = 0 /\ reader.captures = 0
    BY <1>1 DEF Fresh
  <1>3. CaptureTypeOK
    BY CaptureInitInv DEF CaptureInv
  <1>4. DOMAIN store \in SUBSET (Nat \ {0}) /\ IsFiniteSet(DOMAIN store) /\ Total \in Nat
    BY <1>3, StoreFinite, CaptureAssumption DEF CaptureTypeOK
  <1>5. UpTo(0) = {}
    BY <1>4 DEF UpTo
  <1>6. Low(DOMAIN store, 0) = {}
    <2>1. \A i \in DOMAIN store : ~(Rank(DOMAIN store, i) < 0)
      BY <1>4, RankOrders, FS_CardinalityType
    <2> QED
      BY <2>1 DEF Low
  <1>7. Items({}) = {}
    BY DEF Items
  <1>8. 0 = 0 * PageLimit /\ 0 < MaxPages /\ 0 <= Total
    BY <1>4, CaptureAssumption
  <1>9. OffsetAtRest
    BY <1>2, <1>6, <1>7, <1>8 DEF OffsetAtRest
  <1>10. PointsAtRest
    BY <1>2, <1>5, <1>7, <1>8, FS_EmptySet DEF PointsAtRest
  <1> QED
    BY <1>2, <1>9, <1>10 DEF StableInv, DetailAtRest, StableIsAccepted

\* Every step keeps it; a change ends the rest.
LEMMA StableNextInv == CaptureInv /\ StableInv /\ [CaptureNext]_captureVars => StableInv'
  <1> SUFFICES ASSUME CaptureInv, StableInv, [CaptureNext]_captureVars, changes' = 0
               PROVE  StableInv'
    BY DEF StableInv
  <1>1. CaptureTypeOK /\ changes \in Nat
    BY DEF CaptureInv, CaptureTypeOK
  <1>2. CASE UNCHANGED captureVars
    BY <1>2 DEF captureVars, StableInv, OffsetAtRest, DetailAtRest, PointsAtRest, StableIsAccepted,
                Items, Low, UpTo, Total
  <1>3. CASE \E i \in Ids : Add(i) \/ Edit(i) \/ Drop(i)
    <2>1. changes' = changes + 1
      BY <1>3 DEF Add, Edit, Drop, Change
    <2> QED
      BY <1>1, <2>1
  <1>4. CASE ReadBankPage
    BY <1>1, <1>4, ReadBankPageStable DEF ReadBankPage, Reject, Go, Still
  <1>5. CASE ReadListPage
    BY <1>1, <1>5, ReadListPageStable DEF ReadListPage, Reject, Go, Still
  <1>6. CASE ReadDetail
    BY <1>1, <1>6, ReadDetailStable DEF ReadDetail, Reject, Go, Still
  <1>7. CASE DetailsEnd
    <2>1. Still /\ reader'.at = "accepted"
      BY <1>1, <1>7 DEF DetailsEnd, Go, CaptureTypeOK, Readers
    <2> QED
      BY <2>1 DEF StableInv, OffsetAtRest, DetailAtRest, PointsAtRest, StableIsAccepted
  <1>8. CASE ReadPointPage
    BY <1>1, <1>8, ReadPointPageStable DEF ReadPointPage, CaptureEnds, Reject, Go, Still
  <1> QED
    BY <1>2, <1>3, <1>4, <1>5, <1>6, <1>7, <1>8 DEF CaptureNext

\* A provider that keeps still is never refused, whatever its size and the
\* length of its last page, unless a source is missing or the pages run out
\* (_documents, _memories, _complete_bank_inventory, parse_projection_pages).
THEOREM CaptureComplete == CaptureSpec => []StableIsAccepted
  <1>1. CaptureSpec => []CaptureInv
    BY CaptureInitInv, CaptureNextInv, PTL DEF CaptureSpec
  <1>2. StableInv => StableIsAccepted
    BY DEF StableInv, StableIsAccepted
  <1>3. CaptureInit => StableInv
    BY StableInitInv
  <1>4. CaptureInv /\ StableInv /\ [CaptureNext]_captureVars => StableInv'
    BY StableNextInv
  <1>5. CaptureSpec => []StableInv
    BY <1>1, <1>3, <1>4, PTL DEF CaptureSpec
  <1> QED
    BY <1>2, <1>5, PTL
=============================================================================
