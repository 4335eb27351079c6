----------------------------- MODULE MCMQClient -----------------------------
(***************************************************************************)
(* An instance of MQClient for TLC.  The handles are interchangeable.      *)
(***************************************************************************)
EXTENDS MQClient, TLC

CONSTANTS h1, h2, h3, h4, h5, None

MCHandles  == {h1, h2, h3, h4, h5}
MCSymmetry == Permutations(MCHandles)
=============================================================================
