------------------------- MODULE ProjectionCapture -------------------------
(***************************************************************************)
(* Reading what a memory system holds, page by page, while it may still be *)
(* changing: the bank inventory and the document and memory listings of    *)
(* Hindsight (oamb/memory_systems/hindsight), which page by offset, and    *)
(* the Mem0 projection, which pages by cursor through the inspector and is *)
(* captured twice before a scope counts as ready.  Every page is a read of *)
(* its own; nothing holds the provider still between two of them.          *)
(* Pages are sets of <<item, version>>; how many items they held together  *)
(* is counted apart, so that an item on two pages shows.                   *)
(***************************************************************************)
EXTENDS Naturals, FiniteSets, FiniteSetsExt

CONSTANTS
    Hows,        \* the readers to check: "banks", "documents", "memories", "points"
    Ids,         \* item identifiers; a listing is in their order
    Expected,    \* the documents a projection must find
    PageLimit,   \* items of a page
    MaxPages,    \* pages of a Mem0 capture
    MaxChanges   \* bound: changes of the provider during one capture

ASSUME CaptureAssumption ==
    /\ Hows \subseteq {"banks", "documents", "memories", "points"}
    /\ Ids \subseteq Nat \ {0} /\ IsFiniteSet(Ids) /\ Expected \subseteq Ids
    /\ PageLimit \in Nat \ {0} /\ MaxPages \in Nat \ {0} /\ MaxChanges \in Nat

VARIABLES
    store,     \* the provider: present item -> its version
    changes,   \* how often it changed since the reader started
    shrunk,    \* whether an item went away
    seen,      \* every content it had since then
    reader     \* where the reader is

captureVars == <<store, changes, shrunk, seen, reader>>

Unknown == MaxChanges + Cardinality(Ids) + 1

Fresh(how) == [how |-> how, at |-> "list", cursor |-> 0, total |-> Unknown, got |-> {},
               length |-> 0, counts |-> {}, pages |-> 0, first |-> {}, captures |-> 0, todo |-> {}]

CaptureInit ==
    /\ store \in UNION {[S -> {1}] : S \in SUBSET Ids}
    /\ changes = 0 /\ shrunk = FALSE /\ seen = {store}
    /\ reader \in {Fresh(how) : how \in Hows}

-----------------------------------------------------------------------------
(* The provider.                                                           *)

Rank(S, i) == Cardinality({j \in S : j < i})

(* A page of the items S from the one that n others come before.           *)
Page(S, n) == {i \in S : Rank(S, i) \in n..(n + PageLimit - 1)}

Items(S) == {<<i, store[i]>> : i \in S}

OffsetPage(offset) == Items(Page(DOMAIN store, offset))

(* The inspector: the items past the cursor, their number, and a cursor if *)
(* there are more.  It counts and selects in one transaction.              *)
After(cursor) == {i \in DOMAIN store : i > cursor}

CursorPage(cursor) == Items(Page(After(cursor), 0))

NextCursor(cursor) ==
    IF Cardinality(After(cursor)) > PageLimit
    THEN CHOOSE i \in After(cursor) : Rank(After(cursor), i) = PageLimit - 1
    ELSE 0

Change(s) ==
    /\ changes < MaxChanges
    /\ reader.at \in {"list", "detail"}
    /\ store' = s /\ changes' = changes + 1 /\ seen' = seen \cup {s}
    /\ UNCHANGED reader

Add(i) ==
    /\ i \notin DOMAIN store
    /\ Change([j \in DOMAIN store \cup {i} |-> IF j = i THEN 1 ELSE store[j]])
    /\ UNCHANGED shrunk

Edit(i) == i \in DOMAIN store /\ Change([store EXCEPT ![i] = @ + 1]) /\ UNCHANGED shrunk

Drop(i) ==
    /\ i \in DOMAIN store
    /\ Change([j \in DOMAIN store \ {i} |-> store[j]])
    /\ shrunk' = TRUE

-----------------------------------------------------------------------------
(* The readers.                                                            *)

Still == UNCHANGED <<store, changes, shrunk, seen>>

Go(r) == reader' = r /\ Still

Reject == Go([reader EXCEPT !.at = "rejected"])

IdsOf(items) == {x[1] : x \in items}

Total == Cardinality(DOMAIN store)

Declared == IF reader.total = Unknown THEN Total ELSE reader.total

Grown(page) == [reader EXCEPT !.total = Declared, !.got = @ \cup page,
                              !.length = @ + Cardinality(page)]

Duplicates(r) == Cardinality(IdsOf(r.got)) # r.length

(* The bank inventory: it stops at an empty page after the declared total. *)
ReadBankPage ==
    LET page == OffsetPage(reader.length)
        r == Grown(page)
    IN  /\ reader.how = "banks" /\ reader.at = "list"
        /\ IF \/ Total # Declared \/ Duplicates(r) \/ r.length > Declared
              \/ r.length < Declared /\ page = {}
           THEN Reject
           ELSE Go([r EXCEPT !.at = IF page = {} THEN "accepted" ELSE "list"])

(* As a bug would have it: a listing that reaches its total is too long.   *)
ReadListPageShort ==
    LET page == OffsetPage(reader.length)
        r == Grown(page)
    IN  /\ reader.how \in {"documents", "memories"} /\ reader.at = "list"
        /\ IF Total # Declared \/ Duplicates(r) \/ r.length >= Declared
           THEN Reject ELSE Go(r)

(* Documents and memories: the listing ends at an empty page, and then the *)
(* details of every item are read in the order of their identifiers.  The  *)
(* documents must be the sources of the scope.                             *)
ReadListPage ==
    LET page == OffsetPage(reader.length)
        r == Grown(page)
    IN  /\ reader.how \in {"documents", "memories"} /\ reader.at = "list"
        /\ IF \/ Total # Declared \/ Duplicates(r) \/ r.length > Declared
              \/ page = {} /\ r.length # Declared
              \/ page = {} /\ reader.how = "documents" /\ IdsOf(r.got) # Expected
           THEN Reject
           ELSE Go([r EXCEPT !.at = IF page = {} THEN "detail" ELSE "list",
                             !.todo = IdsOf(r.got)])

(* A detail that disagrees with its page is refused.  A version stands for *)
(* the fields that are compared; four more (a count and three times) are   *)
(* read from the page only.                                                *)
ReadDetail ==
    LET i == Min(reader.todo) IN
    /\ reader.at = "detail" /\ reader.todo # {}
    /\ IF i \in DOMAIN store /\ <<i, store[i]>> \in reader.got
       THEN Go([reader EXCEPT !.todo = @ \ {i}]) ELSE Reject

DetailsEnd ==
    /\ reader.at = "detail" /\ reader.todo = {}
    /\ Go([reader EXCEPT !.at = "accepted"])

(* What is asked of the pages of a Mem0 capture when all of them are in.   *)
PagesMatch(r) == r.counts = {r.length} /\ ~Duplicates(r)

(* As a bug would have it: one capture is enough.                          *)
CaptureEndsOnce(r) ==
    IF ~PagesMatch(r) THEN Reject ELSE Go([r EXCEPT !.at = "accepted"])

(* The first capture starts the second; the two must agree in every item.  *)
CaptureEnds(r) ==
    IF ~PagesMatch(r) THEN Reject
    ELSE IF r.captures = 0
         THEN Go([Fresh("points") EXCEPT !.first = r.got, !.captures = 1])
         ELSE Go([r EXCEPT !.at = IF r.first = r.got THEN "accepted" ELSE "rejected"])

ReadPointPage ==
    LET page == CursorPage(reader.cursor)
        next == NextCursor(reader.cursor)
        r == [reader EXCEPT !.got = @ \cup page, !.length = @ + Cardinality(page),
                            !.counts = @ \cup {Total}, !.cursor = next, !.pages = @ + 1]
    IN  /\ reader.how = "points" /\ reader.at = "list"
        /\ IF next = 0 THEN CaptureEnds(r)
           ELSE IF r.pages = MaxPages THEN Reject ELSE Go(r)

CaptureNext ==
    \/ \E i \in Ids : Add(i) \/ Edit(i) \/ Drop(i)
    \/ ReadBankPage \/ ReadListPage \/ ReadDetail \/ DetailsEnd \/ ReadPointPage

CaptureSpec == CaptureInit /\ [][CaptureNext]_captureVars

-----------------------------------------------------------------------------
Content(s) == {<<i, s[i]>> : i \in DOMAIN s}

(* What was read page by page is what the provider held at one moment of   *)
(* the reading, however many items were added or edited meanwhile.  Only   *)
(* identifiers are read of a bank.  A provider that also drops items can   *)
(* deceive an offset listing and is left out.                              *)
AcceptedWasThere ==
    reader.at = "accepted" /\ ~shrunk =>
        IF reader.how = "banks"
        THEN \E s \in seen : DOMAIN s = IdsOf(reader.got)
        ELSE \E s \in seen : Content(s) = reader.got

(* A provider at rest is never refused: not when it is empty, not when its *)
(* last page is full, unless it lacks a source or exceeds the pages.       *)
StableIsAccepted ==
    reader.at = "rejected" /\ changes = 0 =>
        \/ reader.how = "documents" /\ DOMAIN store # Expected
        \/ reader.how = "points" /\ Cardinality(DOMAIN store) > PageLimit * MaxPages
=============================================================================
