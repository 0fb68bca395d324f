----------------------------- MODULE MCCapsules ------------------------------
(* Two sources, pages of one item and a candidate limit of one, so that     *)
(* listings have several pages and a retrieval is cut; three failures, so   *)
(* that a source is given up.                                               *)
EXTENDS Capsules

MCSources == <<"s1", "s2">>
=============================================================================
