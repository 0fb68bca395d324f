-------------------------- MODULE DurableRegister --------------------------
(***************************************************************************)
(* What artifacts/atomic.py promises of a file: it has one whole content   *)
(* at a time; a create-only write sets it once, agrees with what is there  *)
(* or is refused; and a write that has returned survives a loss of power.  *)
(* A write that is killed may have happened or not.                        *)
(***************************************************************************)
CONSTANTS
    Writers, Targets,
    TargetOf,        \* the target of each writer
    ContentOf,       \* the bytes it publishes
    Replacing,       \* writers that replace, the others create
    Nothing          \* no content

VARIABLES
    value,           \* what a reader of each target sees
    kept,            \* what a loss of power would leave
    result           \* how far each write is

abstractVars == <<value, kept, result>>

AInit ==
    /\ value = [t \in Targets |-> Nothing]
    /\ kept = [t \in Targets |-> Nothing]
    /\ result = [w \in Writers |-> "pending"]

Becomes(w, r) == result' = [result EXCEPT ![w] = r]

Publish(w) ==
    /\ result[w] = "pending"
    /\ w \notin Replacing => value[TargetOf[w]] \in {Nothing, ContentOf[w]}
    /\ value' = [value EXCEPT ![TargetOf[w]] = ContentOf[w]]
    /\ Becomes(w, "visible")
    /\ UNCHANGED kept

Refuse(w) ==
    /\ result[w] = "pending" /\ w \notin Replacing
    /\ value[TargetOf[w]] \notin {Nothing, ContentOf[w]}
    /\ Becomes(w, "refused")
    /\ UNCHANGED <<value, kept>>

\* The file system may write anything back at any time.
WriteBack(T) == kept' = [t \in Targets |-> IF t \in T THEN value[t] ELSE kept[t]]

Persist(T) == WriteBack(T) /\ UNCHANGED <<value, result>>

Settle(w, T) ==
    /\ result[w] = "visible" /\ TargetOf[w] \in T
    /\ WriteBack(T)
    /\ Becomes(w, "safe") \/ Becomes(w, "done")
    /\ UNCHANGED value

Return(w, T) == result[w] = "safe" /\ Becomes(w, "done") /\ WriteBack(T) /\ UNCHANGED value

Die(w) == result[w] # "done" /\ Becomes(w, "dead") /\ UNCHANGED <<value, kept>>

\* Every write that has begun and not returned is gone.
LosePower ==
    /\ value' = kept
    /\ \E D \in SUBSET {w \in Writers : result[w] # "done"} :
          /\ {w \in Writers : result[w] \in {"visible", "safe"}} \subseteq D
          /\ result' = [w \in Writers |-> IF w \in D THEN "dead" ELSE result[w]]
    /\ UNCHANGED kept

ANext ==
    \/ \E w \in Writers :
          \/ Publish(w) \/ Refuse(w) \/ Die(w)
          \/ \E T \in SUBSET Targets : Settle(w, T) \/ Return(w, T)
    \/ \E T \in SUBSET Targets : Persist(T)
    \/ LosePower

ASpec == AInit /\ [][ANext]_abstractVars
=============================================================================
