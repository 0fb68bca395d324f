-------------------------- MODULE MCMemoryAdapters -------------------------
(***************************************************************************)
(* The memory-system adapters with small constants.  What is read page by  *)
(* page is told by one reader and a provider that changes, whatever the    *)
(* calls around it, so that a behaviour is either of the calls or of the   *)
(* pages: the other part stays as it was.                                  *)
(***************************************************************************)
EXTENDS MemoryAdapters, ProjectionCapture

VARIABLE part    \* "calls" or "pages"

MCInit ==
    /\ part \in {"calls", "pages"}
    /\ Init /\ (part = "pages" => kind = "mem0")
    /\ CaptureInit /\ (part = "calls" => store = <<>> /\ reader.how = "points")

MCNext ==
    \/ part = "calls" /\ Next /\ UNCHANGED <<part, captureVars>>
    \/ part = "pages" /\ CaptureNext /\ UNCHANGED <<part, vars>>

MCSpec == MCInit /\ [][MCNext]_<<part, vars, captureVars>> /\ Fairness
=============================================================================
