--------------------------- MODULE MemoryAdapters --------------------------
(***************************************************************************)
(* The REST adapters of the memory systems (oamb/memory_systems): Mem0,    *)
(* Hindsight, the OpenViking resource adapter and the OpenViking session   *)
(* adapter.  A call of an adapter is a script of requests; the adapter     *)
(* keeps what it needs to send each ingestion attempt at most once and the *)
(* sources of a plan in order, and gives it back when a call was cancelled *)
(* before anything was sent.  Calls, their cancellation and close run      *)
(* concurrently in one event loop: an action runs from one await to the    *)
(* next.  The operators that start with the name of a system stand for its *)
(* adapter.                                                                *)
(***************************************************************************)
EXTENDS RestTransport, Sequences

CONSTANTS
    Kinds,        \* the adapters to check, out of the four
    Scopes,       \* ingestion occurrences
    Tasks,        \* concurrent callers
    Closers,      \* concurrent calls of close
    Sources,      \* source units of a history
    BatchLimit,   \* sources of one Hindsight batch
    Pairs,        \* message pairs of a Mem0 source, one write each
    MaxBatchAttempt   \* attempts of a batch; three in the code

ASSUME AdaptersAssumption ==
    /\ Kinds \subseteq {"mem0", "hindsight", "openviking", "session"}
    /\ Sources \in Nat \ {0} /\ BatchLimit \in Nat \ {0} /\ Pairs \in Nat \ {0} /\ MaxBatchAttempt \in Nat \ {0}
    /\ NoOne \notin Tasks \cup Closers
    /\ Scopes \cap {"main", "inspector"} = {}

VARIABLES
    kind,      \* which adapter this is
    rest,      \* its REST clients
    ad,        \* the adapter's own state
    task,      \* where each caller is
    closer,    \* where each close is
    wire       \* writes that reached the provider, and those that did twice

vars == <<kind, rest, ad, task, closer, wire>>

(* The session adapter has a client for each scope beside the admin one.   *)
Clients == {"main", "inspector"} \cup Scopes

OwnClients == IF kind = "mem0" THEN <<"main", "inspector">> ELSE <<"main">>

(* The dispatches of a plan: a source each for Mem0 and for the sessions,  *)
(* a batch each for Hindsight, one batch for OpenViking.                   *)
Mem0Plan == 1..Sources
HindsightPlan == 1..((Sources + BatchLimit - 1) \div BatchLimit)
OpenVikingPlan == {1}
SessionPlan == 1..Sources

Plan ==
    CASE kind = "mem0"       -> Mem0Plan
      [] kind = "hindsight"  -> HindsightPlan
      [] kind = "openviking" -> OpenVikingPlan
      [] kind = "session"    -> SessionPlan

Idle == [op |-> "none", scope |-> "none", dispatch |-> 0, attempt |-> 0, at |-> "idle", step |-> 0]

Asleep == [at |-> "idle", todo |-> "none", errors |-> FALSE, users |-> {}, left |-> {}]

Init ==
    /\ kind \in Kinds
    /\ rest = [c \in Clients |-> FreshClient]
    /\ ad = [resolved |-> FALSE, accepting |-> TRUE,
             allocAttempted |-> {}, allocated |-> {},
             baseline |-> FALSE, known |-> {},
             planned |-> {}, next |-> [s \in Scopes |-> 1],
             batch |-> [s \in Scopes |-> [d \in Plan |-> 1]],
             attempted |-> {}, completed |-> {}, ready |-> {}, users |-> {},
             probed |-> {},
             allocLock |-> NoOne, probeLock |-> NoOne, closeLock |-> NoOne,
             planLock |-> [s \in Scopes |-> NoOne]]
    /\ task = [t \in Tasks |-> Idle]
    /\ closer = [k \in Closers |-> Asleep]
    /\ wire = [sent |-> {}, twice |-> {}, banks |-> {}]

-----------------------------------------------------------------------------
(* The requests of a call, in their order: the client and whether it is a  *)
(* write.                                                                  *)

Read(c) == [client |-> c, write |-> FALSE]
Write(c) == [client |-> c, write |-> TRUE]

(* Mem0 writes through its public client and reads what is stored through  *)
(* the inspector; one read stands for the pages of a capture (see          *)
(* ProjectionCapture).  Readiness is two captures that agree.              *)
Mem0Resolve == <<Read("main"), Read("inspector")>>
Mem0Allocate == <<Read("inspector")>>
Mem0Ingest == [i \in 1..Pairs |-> Write("main")]
Mem0Ready == <<Read("inspector"), Read("inspector")>>
Mem0Project == <<Read("inspector")>>
Mem0Retrieve == <<Read("main")>>

Mem0Script(op) ==
    CASE op = "resolve"  -> Mem0Resolve
      [] op = "allocate" -> Mem0Allocate
      [] op = "ingest"   -> Mem0Ingest
      [] op = "ready"    -> Mem0Ready
      [] op = "project"  -> Mem0Project
      [] op = "retrieve" -> Mem0Retrieve

(* Hindsight lists its banks, creates one, and reads back its configuration*)
(* and profile.                                                            *)
HindsightResolve == <<Read("main")>>
HindsightAllocate == <<Read("main"), Write("main"), Read("main"), Read("main")>>
HindsightIngest == <<Write("main")>>
HindsightReady == <<Read("main")>>
HindsightProject == <<Read("main")>>
HindsightRetrieve == <<Read("main")>>

HindsightScript(op) ==
    CASE op = "resolve"  -> HindsightResolve
      [] op = "allocate" -> HindsightAllocate
      [] op = "ingest"   -> HindsightIngest
      [] op = "ready"    -> HindsightReady
      [] op = "project"  -> HindsightProject
      [] op = "retrieve" -> HindsightRetrieve

(* OpenViking proves the peer root and the scope absent and makes the      *)
(* directory; a find is followed by a read of the content it points at.  A *)
(* probe tries, as another peer, a write that must be denied.              *)
OpenVikingResolve == <<Read("main")>>
OpenVikingAllocate == <<Read("main"), Read("main"), Write("main")>>
OpenVikingIngest == <<Write("main")>>
OpenVikingReady == <<Read("main")>>
OpenVikingProject == <<Read("main")>>
OpenVikingRetrieve == <<Read("main"), Read("main")>>
OpenVikingProbe == <<Write("main")>>

OpenVikingScript(op) ==
    CASE op = "resolve"  -> OpenVikingResolve
      [] op = "allocate" -> OpenVikingAllocate
      [] op = "ingest"   -> OpenVikingIngest
      [] op = "ready"    -> OpenVikingReady
      [] op = "project"  -> OpenVikingProject
      [] op = "retrieve" -> OpenVikingRetrieve
      [] op = "probe"    -> OpenVikingProbe

(* A session allocation looks the question user up, registers it if it is  *)
(* missing (SessionKnownUser), proves its key with a client of its own and *)
(* lists its memory.  An ingest proves the session absent, creates it,     *)
(* sends the messages, commits, polls the task, reads the archive and      *)
(* lists the memory.                                                       *)
SessionResolve == <<Read("main")>>
SessionAllocate(s) == <<Read("main"), Write("main"), Read(s), Read(s)>>
SessionIngest(s) ==
    <<Read(s), Write(s), Write(s), Write(s), Read(s), Read(s), Read(s)>>
SessionReady(s) == <<Read(s)>>
SessionProject(s) == <<Read(s)>>
SessionRetrieve(s) == <<Read(s), Read(s)>>

SessionScript(op, s) ==
    CASE op = "resolve"  -> SessionResolve
      [] op = "allocate" -> SessionAllocate(s)
      [] op = "ingest"   -> SessionIngest(s)
      [] op = "ready"    -> SessionReady(s)
      [] op = "project"  -> SessionProject(s)
      [] op = "retrieve" -> SessionRetrieve(s)

SessionKnownUser == 1
SessionIdentity == 3
SessionPoll == 5

Script(op, s) ==
    CASE kind = "mem0"       -> Mem0Script(op)
      [] kind = "hindsight"  -> HindsightScript(op)
      [] kind = "openviking" -> OpenVikingScript(op)
      [] kind = "session"    -> SessionScript(op, s)

(* What a call checks when its turn has come.  A check that fails raises   *)
(* and changes nothing.                                                    *)

Key(c) == <<c.scope, c.dispatch, c.attempt>>

Settled(a, s, d) == <<s, d>> \in a.completed \/ a.batch[s][d] = MaxBatchAttempt + 1

(* As a bug would have it: Mem0 checks the batch attempt but not the turn. *)
Mem0MayIngestAnyTurn(a, c) ==
    c.attempt = a.batch[c.scope][c.dispatch] /\ Key(c) \notin a.attempted

(* Mem0: the next source of the plan, its next batch attempt, once.        *)
Mem0MayIngest(a, c) ==
    /\ c.dispatch = a.next[c.scope]
    /\ c.attempt = a.batch[c.scope][c.dispatch]
    /\ Key(c) \notin a.attempted

(* Hindsight: any dispatch of the plan, its next batch attempt, once.      *)
HindsightMayIngest(a, c) ==
    c.attempt = a.batch[c.scope][c.dispatch] /\ Key(c) \notin a.attempted

(* OpenViking: the one batch of the scope, once.                           *)
OpenVikingMayIngest(a, c) == \A k \in a.attempted : k[1] # c.scope

(* Session: as Mem0, the turn counted from the finished sessions.          *)
SessionMayIngest(a, c) ==
    /\ c.attempt = a.batch[c.scope][c.dispatch]
    /\ Key(c) \notin a.attempted
    /\ c.dispatch = Cardinality({d \in Plan : Settled(a, c.scope, d)}) + 1

MayIngest(a, c) ==
    CASE kind = "mem0"       -> Mem0MayIngest(a, c)
      [] kind = "hindsight"  -> HindsightMayIngest(a, c)
      [] kind = "openviking" -> OpenVikingMayIngest(a, c)
      [] kind = "session"    -> SessionMayIngest(a, c)

MayAllocate(a, s) == IF kind = "mem0" THEN s \notin a.allocated ELSE s \notin a.allocAttempted

MayBegin(a, c) ==
    CASE c.op = "allocate" -> MayAllocate(a, c.scope)
      [] c.op = "ingest"   -> MayIngest(a, c)
      [] c.op = "probe"    -> c.scope \notin a.probed
      [] OTHER             -> TRUE

(* What holds before a call waits for its turn.  Readiness is asked with a *)
(* receipt for every dispatch, of one that was skipped too.                *)
MayCall(a, c) ==
    /\ kind = "mem0" => a.accepting
    /\ CASE c.op = "resolve"  -> ~a.resolved
         [] c.op = "allocate" -> a.resolved
         [] c.op = "ingest"   -> c.scope \in a.planned
         [] c.op = "ready"    -> /\ c.scope \in a.planned
                                 /\ \A d \in Plan : Settled(a, c.scope, d)
         [] c.op = "project"  -> CASE kind = "session"    -> c.scope \in a.allocated
                                   [] kind = "openviking" -> c.scope \in a.planned
                                   [] OTHER               -> c.scope \in a.ready
         [] c.op = "retrieve" -> c.scope \in a.ready
         [] c.op = "probe"    -> kind = "openviking" /\ a.accepting /\ c.scope \in a.allocated

-----------------------------------------------------------------------------
(* A state of the system, so that what runs between two awaits can be      *)
(* composed of operators.                                                  *)

Now == [rest |-> rest, ad |-> ad, task |-> task, wire |-> wire]

Become(S) == \E T \in {S} : rest' = T.rest /\ ad' = T.ad /\ task' = T.task /\ wire' = T.wire

(* The lock a call waits for: one for all allocations, one for each Mem0   *)
(* plan, one for the probes of a peer.                                     *)
LockOf(c) ==
    CASE c.op = "allocate" /\ kind # "session" -> "alloc"
      [] c.op = "ingest" /\ kind = "mem0"      -> "plan"
      [] c.op = "probe"                        -> "probe"
      [] OTHER                                 -> "none"

LockFree(a, c) ==
    CASE LockOf(c) = "alloc" -> a.allocLock = NoOne
      [] LockOf(c) = "plan"  -> a.planLock[c.scope] = NoOne
      [] LockOf(c) = "probe" -> a.probeLock = NoOne
      [] OTHER               -> TRUE

LockSet(a, c, who) ==
    CASE LockOf(c) = "alloc" -> [a EXCEPT !.allocLock = who]
      [] LockOf(c) = "plan"  -> [a EXCEPT !.planLock[c.scope] = who]
      [] LockOf(c) = "probe" -> [a EXCEPT !.probeLock = who]
      [] OTHER               -> a

(* The call ends, in whatever way: the lock is given back.                 *)
Return(S, t) ==
    [S EXCEPT !.ad = LockSet(@, S.task[t], NoOne), !.task[t] = Idle]

(* The step before which a call marks what it is about to do as attempted; *)
(* the session adapter marks a session before it proves it absent.         *)
MarkedStep(op) ==
    CASE op \in {"ingest", "probe"}                   -> 1
      [] op = "allocate" /\ kind = "hindsight"        -> 2
      [] op = "allocate" /\ kind = "openviking"       -> 3
      [] OTHER                                        -> 0

Mark(a, c) ==
    CASE c.op = "ingest"   -> [a EXCEPT !.attempted = @ \cup {Key(c)}]
      [] c.op = "probe"    -> [a EXCEPT !.probed = @ \cup {c.scope}]
      [] c.op = "allocate" -> [a EXCEPT !.allocAttempted = @ \cup {c.scope}]

(* As a bug would have it: the mark stays.                                 *)
UnmarkForgotten(a, c) == a

(* Nothing was sent: the mark is taken back.  The session adapter keeps it.*)
Unmark(a, c) ==
    IF kind = "session" THEN a
    ELSE CASE c.op = "ingest"   -> [a EXCEPT !.attempted = @ \ {Key(c)}]
           [] c.op = "probe"    -> [a EXCEPT !.probed = @ \ {c.scope}]
           [] c.op = "allocate" -> [a EXCEPT !.allocAttempted = @ \ {c.scope}]

(* Three settled failures of a batch let its source be skipped: Mem0 moves *)
(* on to the next, the session adapter counts the session as skipped.      *)
CountsAsSettled(c) ==
    /\ c.op = "ingest"
    /\ \/ kind = "hindsight"
       \/ kind = "mem0" /\ c.step = 1
       \/ kind = "session" /\ c.step = SessionPoll

AfterSettled(a, c) ==
    [a EXCEPT !.batch[c.scope][c.dispatch] = c.attempt + 1,
              !.next[c.scope] = IF kind = "mem0" /\ c.attempt = MaxBatchAttempt
                                THEN @ + 1 ELSE @]

(* A request was refused or ended badly and the call raises.  The session  *)
(* adapter closes the client with which it could not prove the identity of *)
(* a user.                                                                 *)
Fail(S, t, outcome) ==
    LET c == S.task[t]
        a == CASE outcome = "before_dispatch" /\ c.step = MarkedStep(c.op) -> Unmark(S.ad, c)
               [] outcome = "settled" /\ CountsAsSettled(c)               -> AfterSettled(S.ad, c)
               [] OTHER                                                   -> S.ad
        r == IF kind = "session" /\ c.op = "allocate" /\ c.step = SessionIdentity
             THEN [S.rest EXCEPT ![c.scope] = CloseEnds(StopAccepting(@))] ELSE S.rest
    IN  Return([S EXCEPT !.ad = a, !.rest = r], t)

(* A call takes its step i: it marks what it is about to do, and the session*)
(* adapter makes the client of a user.                                     *)
Prepare(S, t, i) ==
    LET c == [S.task[t] EXCEPT !.step = i]
        fresh == kind = "session" /\ c.op = "allocate" /\ i = SessionIdentity
    IN  [S EXCEPT !.task[t] = c,
                  !.ad = IF i = MarkedStep(c.op) THEN Mark(@, c) ELSE @,
                  !.rest = IF fresh THEN [@ EXCEPT ![c.scope] = FreshClient] ELSE @]

(* The request q is admitted and on the wire.                              *)
Transmit(S, t, q) ==
    LET c == S.task[t]
        w == <<c.op, c.scope, c.dispatch, c.attempt, c.step>>
    IN  [S EXCEPT !.task[t].at = "wait",
                  !.rest[q.client] = Admitted(@, t),
                  !.wire.sent = IF q.write THEN @ \cup {w} ELSE @,
                  !.wire.twice = IF q.write THEN @ \cup ({w} \cap S.wire.sent) ELSE @]

(* Request i of a call: admitted and on the wire, or refused.              *)
Send(S, t, i) ==
    LET M == Prepare(S, t, i)
        q == Script(M.task[t].op, M.task[t].scope)[i]
        verdict == Admission(M.rest[q.client], q.write)
    IN  IF verdict # "admitted" THEN Fail(M, t, verdict) ELSE Transmit(M, t, q)

(* As a bug would have it: a completed batch may be tried again.           *)
CompleteRetriable(S, t) ==
    LET c == S.task[t] s == c.scope IN
    Return([S EXCEPT !.ad =
        CASE c.op = "resolve"  -> [@ EXCEPT !.resolved = TRUE]
          [] c.op = "allocate" -> [@ EXCEPT !.allocated = @ \cup {s},
                                           !.known = @ \cup {s},
                                           !.allocAttempted = @ \cup {s}]
          [] c.op = "ingest"   -> [@ EXCEPT !.completed = @ \cup {<<s, c.dispatch>>},
                                           !.batch[s][c.dispatch] = c.attempt + 1,
                                           !.next[s] = IF kind = "mem0" THEN @ + 1 ELSE @]
          [] c.op = "ready"    -> [@ EXCEPT !.ready = @ \cup {s}]
          [] OTHER             -> @], t)

(* The call's last response is in.                                         *)
Complete(S, t) ==
    LET c == S.task[t] s == c.scope IN
    Return([S EXCEPT !.ad =
        CASE c.op = "resolve"  -> [@ EXCEPT !.resolved = TRUE]
          [] c.op = "allocate" -> [@ EXCEPT !.allocated = @ \cup {s},
                                           !.known = @ \cup {s},
                                           !.allocAttempted = @ \cup {s}]
          [] c.op = "ingest"   -> [@ EXCEPT !.completed = @ \cup {<<s, c.dispatch>>},
                                           !.batch[s][c.dispatch] = 0,
                                           !.next[s] = IF kind = "mem0" THEN @ + 1 ELSE @]
          [] c.op = "ready"    -> [@ EXCEPT !.ready = @ \cup {s}]
          [] OTHER             -> @], t)

(* What a response shows that makes the call raise: a scope that exists    *)
(* already, or, for Hindsight, a bank it has not created itself since its  *)
(* first inventory.                                                        *)
Rejects(S, c) ==
    /\ c.op = "allocate" /\ ~Script(c.op, c.scope)[c.step].write
    /\ \/ kind = "hindsight" /\ c.step = 1 /\ \/ c.scope \in S.wire.banks
                                              \/ S.ad.baseline /\ S.wire.banks # S.ad.known
       \/ kind = "openviking" /\ c.scope \in S.wire.banks

Baseline(S, c) ==
    IF kind = "hindsight" /\ c.op = "allocate" /\ c.step = 1 /\ ~S.ad.baseline
    THEN [S EXCEPT !.ad.baseline = TRUE, !.ad.known = @ \cup S.wire.banks] ELSE S

(* The user of a session scope is bound to the client that proved its key. *)
BindUser(S, c) ==
    IF kind = "session" /\ c.op = "allocate" /\ c.step = SessionIdentity
    THEN [S EXCEPT !.ad.users = @ \cup {c.scope}] ELSE S

NextStep(S, c) ==
    IF kind = "session" /\ c.op = "allocate" /\ c.step = SessionKnownUser
       /\ c.scope \in S.wire.banks
    THEN SessionIdentity ELSE c.step + 1

-----------------------------------------------------------------------------
(* The callers.  A refused call changes nothing and is not a step.  The    *)
(* session adapter has no lock for allocations: the runtime allocates a    *)
(* scope from the one task of its history.                                 *)

Begin(S, t) == Send([S EXCEPT !.ad = LockSet(@, S.task[t], t)], t, 1)

Call(t, c) ==
    /\ task[t].at = "idle"
    /\ MayCall(ad, c)
    /\ kind = "session" /\ c.op = "allocate" =>
          /\ c.scope \notin ad.users
          /\ \A u \in Tasks : task[u].op = "allocate" => task[u].scope # c.scope
    /\ IF LockFree(ad, c)
       THEN /\ MayBegin(ad, c)
            /\ Become(Begin([Now EXCEPT !.task[t] = c], t))
       ELSE Become([Now EXCEPT !.task[t] = [c EXCEPT !.at = "lock"]])
    /\ UNCHANGED <<kind, closer>>

(* As a bug would have it: the checks are made before the wait only.       *)
TurnUnchecked(t) ==
    /\ task[t].at = "lock" /\ LockFree(ad, task[t])
    /\ Become(Begin(Now, t))
    /\ UNCHANGED <<kind, closer>>

Turn(t) ==
    /\ task[t].at = "lock" /\ LockFree(ad, task[t])
    /\ Become(IF MayBegin(ad, task[t]) THEN Begin(Now, t)
              ELSE [Now EXCEPT !.task[t] = Idle])
    /\ UNCHANGED <<kind, closer>>

CancelWaiting(t) ==
    /\ task[t].at = "lock"
    /\ Become([Now EXCEPT !.task[t] = Idle])
    /\ UNCHANGED <<kind, closer>>

(* A request ends; the client releases it and the call goes on to its next *)
(* await.  Whether a write that did not end well took effect is the        *)
(* provider's secret.                                                      *)
Respond(t, outcome, applied) ==
    LET c == task[t]
        q == Script(c.op, c.scope)[c.step]
        R == [Now EXCEPT !.rest[q.client] = Released(@, t),
                         !.wire.banks = IF c.op = "allocate" /\ q.write /\ applied
                                        THEN @ \cup {c.scope} ELSE @]
        B == BindUser(Baseline(R, c), c)
    IN  /\ outcome = "ok" => applied
        /\ Become(IF outcome # "ok" THEN Fail(R, t, outcome)
                  ELSE IF Rejects(R, c) THEN Fail(R, t, "failure")
                  ELSE IF c.step = Len(Script(c.op, c.scope)) THEN Complete(B, t)
                  ELSE Send(B, t, NextStep(R, c)))
        /\ UNCHANGED <<kind, closer>>

Answer(t) ==
    LET q == Script(task[t].op, task[t].scope)[task[t].step] IN
    /\ task[t].at = "wait"
    /\ \E outcome \in {RequestOutcome(q.write, ending) : ending \in Endings},
          applied \in IF task[t].op = "allocate" /\ q.write THEN BOOLEAN ELSE {TRUE} :
             Respond(t, outcome, applied)

(* The commit task of a session is not finished: poll again.               *)
PollAgain(t) ==
    /\ kind = "session" /\ task[t].op = "ingest"
    /\ task[t].at = "wait" /\ task[t].step = SessionPoll
    /\ Become(Send([Now EXCEPT !.rest[task[t].scope] = Released(@, t)], t, SessionPoll))
    /\ UNCHANGED <<kind, closer>>

PlanIngestion(s) ==
    /\ s \in ad.allocated /\ s \notin ad.planned
    /\ kind = "mem0" => ad.accepting
    /\ ad' = [ad EXCEPT !.planned = @ \cup {s}]
    /\ UNCHANGED <<kind, rest, task, closer, wire>>

-----------------------------------------------------------------------------
(* Closing an adapter.  Mem0 refuses calls, stops both clients, and closes *)
(* one after the other under a lock, going on when one fails.  OpenViking  *)
(* refuses probes and waits for the admitted ones.  The session adapter    *)
(* walks through its user clients and closes the admin client last; a      *)
(* client that is bound meanwhile makes the walk raise.                    *)

Enter(k, R, c) ==
    /\ rest' = [R EXCEPT ![c] = StopAccepting(@)]
    /\ closer' = [closer EXCEPT ![k].at = "drain", ![k].todo = c, ![k].left = @ \ {c}]

First(users) == IF users = {} THEN "main" ELSE CHOOSE u \in users : TRUE

Mem0Close(k) ==
    /\ rest' = [c \in Clients |-> StopAccepting(rest[c])]
    /\ ad' = [ad EXCEPT !.accepting = FALSE]
    /\ closer' = [closer EXCEPT ![k].at = "turn"]

OpenVikingClose(k) ==
    /\ rest' = [rest EXCEPT !["main"] = StopAccepting(@)]
    /\ ad' = [ad EXCEPT !.accepting = FALSE]
    /\ closer' = [closer EXCEPT ![k].at = "probes"]

HindsightClose(k) == Enter(k, rest, "main") /\ UNCHANGED ad

SessionClose(k) ==
    LET first == First(ad.users) IN
    /\ rest' = [rest EXCEPT ![first] = StopAccepting(@)]
    /\ closer' = [closer EXCEPT ![k] = [@ EXCEPT !.at = "drain", !.todo = first,
                                          !.users = ad.users, !.left = ad.users \ {first}]]
    /\ UNCHANGED ad

CloseCall(k) ==
    /\ closer[k].at = "idle"
    /\ CASE kind = "mem0"       -> Mem0Close(k)
         [] kind = "openviking" -> OpenVikingClose(k)
         [] kind = "hindsight"  -> HindsightClose(k)
         [] kind = "session"    -> SessionClose(k)
    /\ UNCHANGED <<kind, task, wire>>

CloseTurn(k) ==
    /\ closer[k].at = "turn" /\ ad.closeLock = NoOne
    /\ Enter(k, rest, "main")
    /\ ad' = [ad EXCEPT !.closeLock = k]
    /\ UNCHANGED <<kind, task, wire>>

CloseProbes(k) ==
    /\ closer[k].at = "probes" /\ \A t \in Tasks : task[t].op # "probe"
    /\ Enter(k, rest, "main")
    /\ UNCHANGED <<kind, ad, task, wire>>

(* The client at hand is done with; R are the clients then.                *)
Finish(k, failed) ==
    /\ closer' = [closer EXCEPT ![k].at = IF failed THEN "failed" ELSE "done", ![k].todo = "none"]
    /\ ad' = [ad EXCEPT !.closeLock = IF @ = k THEN NoOne ELSE @]

(* As a bug would have it: Mem0 stops at the first client that fails.      *)
GoOnUnlessBroken(k, R, broke) ==
    LET c == closer[k] IN
    IF broke THEN rest' = R /\ closer' = [closer EXCEPT ![k].at = "failed"] /\ UNCHANGED ad
    ELSE CASE kind = "mem0" /\ c.todo = "main" -> Enter(k, R, "inspector") /\ UNCHANGED ad
           [] kind = "session" /\ c.todo # "main" -> Enter(k, R, First(c.left)) /\ UNCHANGED ad
           [] OTHER -> rest' = R /\ Finish(k, FALSE)

GoOn(k, R, broke) ==
    LET c == closer[k]
        changed == kind = "session" /\ c.todo # "main" /\ ad.users # c.users
    IN  IF (broke /\ kind # "mem0") \/ changed THEN rest' = R /\ Finish(k, TRUE)
        ELSE CASE kind = "mem0" /\ c.todo = "main" ->
                    /\ rest' = [R EXCEPT !["inspector"] = StopAccepting(@)]
                    /\ closer' = [closer EXCEPT ![k].todo = "inspector", ![k].at = "drain",
                                                ![k].errors = broke]
                    /\ UNCHANGED ad
               [] kind = "session" /\ c.todo # "main" -> Enter(k, R, First(c.left)) /\ UNCHANGED ad
               [] OTHER -> rest' = R /\ Finish(k, c.errors \/ broke)

(* Drained and under the client's lock: the first close closes it.         *)
CloseLocked(k) ==
    LET c == closer[k].todo IN
    /\ closer[k].at = "drain" /\ Drained(rest[c]) /\ rest[c].closing = NoOne
    /\ IF rest[c].closed THEN GoOn(k, rest, FALSE)
       ELSE /\ rest' = [rest EXCEPT ![c] = CloseBegins(@, k)]
            /\ closer' = [closer EXCEPT ![k].at = "aclose"]
            /\ UNCHANGED ad
    /\ UNCHANGED <<kind, task, wire>>

CloseFinished(k) ==
    LET c == closer[k].todo IN
    /\ closer[k].at = "aclose"
    /\ GoOn(k, [rest EXCEPT ![c] = CloseEnds(@)], FALSE)
    /\ UNCHANGED <<kind, task, wire>>

(* The transport fails to close, or the close is cancelled while it waits. *)
CloseBroken(k) ==
    LET c == closer[k].todo IN
    /\ \/ closer[k].at = "aclose" /\ GoOn(k, [rest EXCEPT ![c] = CloseBreaks(@)], TRUE)
       \/ closer[k].at = "drain" /\ GoOn(k, rest, TRUE)
       \/ closer[k].at \in {"turn", "probes"} /\ UNCHANGED rest /\ Finish(k, TRUE)
    /\ UNCHANGED <<kind, task, wire>>

-----------------------------------------------------------------------------
Ops == {"resolve", "allocate", "ingest", "ready", "project", "retrieve", "probe"}

Calls ==
    [op : Ops \ {"ingest"}, scope : Scopes, dispatch : {0}, attempt : {0},
     at : {"idle"}, step : {0}]
    \cup
    [op : {"ingest"}, scope : Scopes, dispatch : Plan,
     attempt : 1..(IF kind = "openviking" THEN 1 ELSE MaxBatchAttempt),
     at : {"idle"}, step : {0}]

Next ==
    \/ \E t \in Tasks :
          \/ \E c \in Calls : Call(t, c)
          \/ Turn(t)
          \/ CancelWaiting(t)
          \/ Answer(t)
          \/ PollAgain(t)
    \/ \E s \in Scopes : PlanIngestion(s)
    \/ \E k \in Closers :
          \/ CloseCall(k) \/ CloseTurn(k) \/ CloseProbes(k)
          \/ CloseLocked(k) \/ CloseFinished(k) \/ CloseBroken(k)

(* Every request ends, by its total timeout if not otherwise, and the      *)
(* polling of a commit has a deadline; a call whose lock is free again and *)
(* again gets it or is cancelled (the locks are first come, first served); *)
(* the event loop runs a close that can go on.  The first two are strong   *)
(* fairness with what enables the step written out.                        *)
Fairness ==
    /\ \A t \in Tasks :
          /\ []<>(task[t].at # "wait")
          /\ []<>(task[t].at = "lock" /\ LockFree(ad, task[t])) => []<>(task[t].at # "lock")
    /\ \A k \in Closers :
          WF_vars(CloseTurn(k) \/ CloseProbes(k) \/ CloseLocked(k) \/ CloseFinished(k))

Spec == Init /\ [][Next]_vars /\ Fairness

-----------------------------------------------------------------------------
(* No write is sent to a provider twice, whatever was cancelled, failed or *)
(* retried: not a batch attempt, not the creation of a scope, not a probe. *)
(* The session adapter asks for the user first, so its registration may be *)
(* repeated.                                                               *)
NoReplay == \A w \in wire.twice : kind = "session" /\ w[1] = "allocate"

InFlight(t, s) == task[t].at = "wait" /\ task[t].op = "ingest" /\ task[t].scope = s

(* Mem0 and the session adapter send the sources of a plan one at a time   *)
(* and in order: while one is in flight every earlier one was accepted or  *)
(* has failed three times for good.                                        *)
InOrder ==
    kind \in {"mem0", "session"} =>
        \A t \in Tasks, s \in Scopes : InFlight(t, s) =>
            /\ \A u \in Tasks : InFlight(u, s) => u = t
            /\ \A d \in 1..(task[t].dispatch - 1) : Settled(ad, s, d)

(* A call is refused as a replay only if the provider may have seen it:    *)
(* after a cancellation before dispatch the same attempt is allowed.  The  *)
(* session adapter, which marks before its first read, is the exception;   *)
(* and a client that is closed raises an error of another kind, after which*)
(* nothing can be sent any more.                                           *)
AttemptedWasSent ==
    kind # "session" /\ ~rest["main"].closed =>
        /\ \A k \in ad.attempted : <<"ingest", k[1], k[2], k[3], 1>> \in wire.sent
        /\ \A s \in ad.probed : <<"probe", s, 0, 0, 1>> \in wire.sent
        /\ kind # "mem0" => \A s \in ad.allocAttempted :
              \E i \in 2..3 : <<"allocate", s, 0, 0, i>> \in wire.sent

(* Once a scope is ready nothing more is written to it: what the questions *)
(* read is what readiness saw.                                             *)
ReadyIsSettled ==
    \A s \in ad.ready :
        /\ \A t \in Tasks : ~InFlight(t, s)
        /\ \A d \in Plan : Settled(ad, s, d)

(* No client is closed under a call that is using it; and a close that     *)
(* returns has closed every client, also after earlier closes that failed  *)
(* or were cancelled.  The session adapter promises this only when no      *)
(* allocation runs beside it.                                              *)
ClosedIsIdle ==
    /\ \A t \in Tasks : task[t].at = "wait" =>
          rest[Script(task[t].op, task[t].scope)[task[t].step].client].httpx = "open"
    /\ kind # "session" => \A k \in Closers : closer[k].at = "done" =>
          \A i \in DOMAIN OwnClients : rest[OwnClients[i]].transport = "closed"

(* Every close ends, and every call ends after it.                         *)
CloseReturns ==
    \A k \in Closers : closer[k].at \notin {"idle", "done", "failed"} ~>
                        closer[k].at \in {"done", "failed"}
=============================================================================
