---------------------------- MODULE MCAutoDialer ----------------------------
(* One lead with two rows.  They are interchangeable until an operator asks for
   something, and every end he may write is terminal: one request is enough. *)
EXTENDS AutoDialer, TLC
CONSTANTS r1, r2, l1
TwoRows == r1 :> l1 @@ r2 :> l1
CancelFirst == {<<r1, "cancelled">>}
=============================================================================
