------------------------------ MODULE Capsules -------------------------------
(***************************************************************************)
(* The two kinds of run that leave a capsule, each with the rules that     *)
(* decide whether it is evidence.  They share the store and the manifest.  *)
(***************************************************************************)
EXTENDS NativeCapsule

VARIABLE fake       \* the state of a fake run

F == INSTANCE FakeCapsule

CapsulesInit ==
    \/ Init /\ fake = F!NoFake
    \/ /\ F!FakeInit
       /\ sys = "fake" /\ judged = FALSE /\ planLedger = NoLedger /\ ledger = NoLedger
       /\ progress = NoProgress /\ question = NoQuestion /\ trouble = 0

CapsulesNext ==
    \/ CapsuleNext /\ UNCHANGED fake
    \/ F!FakeNext /\ UNCHANGED <<sys, judged, planLedger, ledger, progress, question, trouble>>

CapsulesSpec == CapsulesInit /\ [][CapsulesNext]_<<vars, fake>>

\* Whatever failed on the way, the capsule that a run leaves is accepted by the
\* validation of its kind.
ProducedValidates == NativeValidates /\ F!FakeValidates

\* A capsule that lacks a file is refused, although its manifest agrees with it.
LossDetected == NativeLossDetected /\ F!FakeLossDetected

\* A capsule in which a record holds the value of another record is refused.
CrossWiringDetected == NativeCrossWiringDetected /\ F!FakeCrossWiringDetected
=============================================================================
