---------------------------- MODULE MCAgentConfig ----------------------------
EXTENDS AgentConfig

(* One field whose standard is a value, one whose standard is NULL. *)
MCFields == {"tts_speed", "soft_timeout_seconds"}
MCStandard == [tts_speed |-> "std", soft_timeout_seconds |-> None]
MCValues == {"own"}
=============================================================================
