------------------------ MODULE MCAtomicPublication ------------------------
(* A target that two writers create with different bytes, beside one that   *)
(* is replaced in a directory its writer must make.                         *)
EXTENDS AtomicPublication, TLC

MCTargetOf == [w \in Writers |-> IF w = "c" THEN "new" ELSE "old"]

MCContentOf == [w \in Writers |-> IF w = "b" THEN "y" ELSE IF w = "c" THEN "z" ELSE "x"]

MCDirOf == "old" :> "d" @@ "new" :> "e"
=============================================================================
