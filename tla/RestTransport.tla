--------------------------- MODULE RestTransport ---------------------------
(***************************************************************************)
(* SealedRestClient (oamb/memory_systems/rest.py): a client admits a       *)
(* request, sends it once, and classifies how it ended by whether the      *)
(* provider may have acted on it.  Its close refuses new requests, waits   *)
(* until the last admitted one is released, and closes the HTTP client     *)
(* under a lock; a close may fail or be cancelled and be called again.     *)
(* The operators work on the record of one client; MemoryAdapters applies  *)
(* them to the clients of an adapter.                                      *)
(***************************************************************************)
EXTENDS FiniteSets, Naturals

NoOne == "nobody"

(* A client: whether it accepts requests, the calls it has admitted (the   *)
(* counter and the drained event), what is closed of it, and who holds its *)
(* close lock.                                                             *)
FreshClient == [accepting |-> TRUE, active |-> {}, httpx |-> "open",
                transport |-> "open", closed |-> FALSE, closing |-> NoOne]

(* How a request that was sent can end, and what the caller is told.  Only *)
(* a write can leave the caller not knowing what the provider did.         *)
Endings == {"ok", "invalid", "status", "settled", "timeout", "transport_error",
            "seal_error", "cancel"}

RequestOutcome(write, ending) ==
    CASE ending = "ok"      -> "ok"
      [] ending = "invalid" -> "failure"
      [] ending = "status"  -> "failure"
      [] ending = "settled" -> "settled"
      [] ending = "cancel"  -> IF write THEN "cancelled_unknown" ELSE "read_cancelled"
      [] OTHER              -> IF write THEN "unknown" ELSE "failure"

(* A client that is closed raises; one that is closing refuses, and says   *)
(* that nothing was sent.                                                  *)
Refusal(write) == IF write THEN "before_dispatch" ELSE "read_cancelled"

Admission(client, write) ==
    IF client.closed THEN "closed"
    ELSE IF client.accepting THEN "admitted" ELSE Refusal(write)

Admitted(client, t) == [client EXCEPT !.active = @ \cup {t}]

(* As a bug would have it: a release that does not wait for the last call. *)
ReleasedAll(client, t) == [client EXCEPT !.active = {}]

Released(client, t) == [client EXCEPT !.active = @ \ {t}]

StopAccepting(client) == [client EXCEPT !.accepting = FALSE]

Drained(client) == client.active = {}

(* Under the lock: the first close closes the HTTP client and then its     *)
(* transport; one that follows an interrupted close finds the HTTP client  *)
(* closed and goes on with the transport.                                  *)
CloseBegins(client, k) ==
    [client EXCEPT !.closing = k, !.httpx = IF client.closed THEN @ ELSE "closed"]

CloseEnds(client) ==
    [client EXCEPT !.closing = NoOne, !.transport = "closed", !.closed = TRUE]

CloseBreaks(client) == [client EXCEPT !.closing = NoOne]
=============================================================================
