------------------------ MODULE MCProviderLifecycle ------------------------
(* Two domains, with two runs of one provider that contend and one of       *)
(* another, and a command of every kind.                                    *)
EXTENDS ProviderLifecycle, TLC

CONSTANTS d1, d2, r1, r2, r3, up, prepare, stop

MCTwoDomains == r1 :> d1 @@ r2 :> d1 @@ r3 :> d2

MCAllKinds == up :> "guarded" @@ prepare :> "prepare" @@ stop :> "stop"
=============================================================================
