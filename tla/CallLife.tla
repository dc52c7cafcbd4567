------------------------------ MODULE CallLife ------------------------------
(***************************************************************************)
(* What the call_sessions table promises of the phone calls of a lead: a   *)
(* session opens once, one at a time, settles, and never reopens; evidence *)
(* that its call ended is never taken back, comes only after some call     *)
(* ended, and never to a session that stays open.                          *)
(***************************************************************************)
EXTENDS Naturals

CONSTANT Sessions

VARIABLES phase,   \* none, open (it blocks the lead's next call) or settled
          proven,  \* sessions with session-end evidence
          ended    \* calls that were really placed and ended

vars == <<phase, proven, ended>>

Init ==
  /\ phase = [n \in Sessions |-> "none"]
  /\ proven = {}
  /\ ended = {}

Open(n) ==
  /\ phase[n] = "none"
  /\ \A m \in Sessions : phase[m] # "open"
  /\ phase' = [phase EXCEPT ![n] = "open"]
  /\ UNCHANGED <<proven, ended>>

EndCall(n) ==
  /\ phase[n] # "none"
  /\ ended' = ended \union {n}
  /\ UNCHANGED <<phase, proven>>

(* The dial failed, the probe or the sweep gave up: some sessions, together. *)
Settle(S) ==
  /\ \A n \in S : phase[n] = "open"
  /\ phase' = [n \in Sessions |-> IF n \in S THEN "settled" ELSE phase[n]]
  /\ UNCHANGED <<proven, ended>>

Prove(n) ==
  /\ phase[n] # "none"
  /\ ended # {}
  /\ phase' = [phase EXCEPT ![n] = "settled"]
  /\ proven' = proven \union {n}
  /\ UNCHANGED ended

Next ==
  \/ \E n \in Sessions : Open(n) \/ EndCall(n) \/ Prove(n)
  \/ \E S \in SUBSET Sessions : Settle(S)

Spec == Init /\ [][Next]_vars

(* Liveness: an open session settles, and the lead can be called again. *)
Settles == \A n \in Sessions : phase[n] = "open" ~> phase[n] = "settled"
=============================================================================
