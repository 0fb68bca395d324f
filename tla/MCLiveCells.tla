---------------------------- MODULE MCLiveCells ----------------------------
(* Four cells, two at a time: a pair is ready together while others wait.  *)
EXTENDS LiveCells
=============================================================================
