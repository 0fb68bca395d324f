-------------------------- MODULE MCModelCompletion --------------------------
(* Three outer attempts of up to three calls each: every order of rate      *)
(* limits, transport errors and malformed responses that fits.              *)
EXTENDS ModelCompletion
=============================================================================
