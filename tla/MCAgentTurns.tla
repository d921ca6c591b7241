---------------------------- MODULE MCAgentTurns ----------------------------
(***************************************************************************)
(* AgentTurns for TLC.                                                     *)
(***************************************************************************)
EXTENDS AgentTurns

OneChat == {"chat1"}
OneWork == {"work1"}
OnePump == {"pump1"}
TwoPumps == {"pump1", "pump2"}
=============================================================================
