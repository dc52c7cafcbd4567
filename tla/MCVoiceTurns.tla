---------------------------- MODULE MCVoiceTurns ----------------------------
EXTENDS VoiceTurns

(* The first call speaks twice, the second, which may overlap it, once. *)
MCRequests == {<<1, 1>>, <<1, 2>>, <<2, 1>>}
=============================================================================
