----------------------------- MODULE MCPostCall -----------------------------
(* Two calls of one lead: the second may be made while the first is analysed. *)
EXTENDS PostCall
=============================================================================
