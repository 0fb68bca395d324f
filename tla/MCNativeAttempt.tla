-------------------------- MODULE MCNativeAttempt --------------------------
(* Three attempts of which two are memory calls, with a budget for two at  *)
(* once: a call that was never sent, and only that, makes room for another.*)
EXTENDS NativeAttempt, TLC

MCAmount(a, t) == "attempts" :> a @@ "tokens" :> t

MCRequest == [maximum |-> MCAmount(2, 1), multiOwner |-> TRUE,
              alloc |-> ("role" :> MCAmount(1, 0) @@ "provider" :> MCAmount(1, 1))]

MCRequests == {MCRequest}

MCObservations == {MCAmount(2, 1), MCAmount(1, 0), MCAmount(1, 1)}

MCRequestOf == [i \in Ids |-> MCRequest]

MCParentCeiling == MCAmount(6, 3)

MCOwnerCeiling == "role" :> MCAmount(2, 3) @@ "provider" :> MCAmount(3, 3)
=============================================================================
