---------------------------- MODULE MCPcfCommand ----------------------------
(***************************************************************************)
(* An instance of PcfCommand for TLC.                                      *)
(***************************************************************************)
EXTENDS PcfCommand

CONSTANTS c1, c2, n1, n2, None

MCCommands == {c1, c2}
MCNames    == {n1, n2}
=============================================================================
