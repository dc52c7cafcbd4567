---------------------------- MODULE MCLeadRecords ----------------------------
EXTENDS LeadRecords, TLC
CONSTANTS i1, i2, c1

Symmetry == Permutations({i1, i2})

R(phone, status, value) == [phone |-> phone, status |-> status, value |-> value]

(* A lead behind and ahead of its row, the same phone twice, two leads, records
   with nothing usable. *)
MCTables ==
  {<<R("p", "called", "x")>>,
   <<R("p", "interested", None), R("p", "new", "y")>>,
   <<R(None, "new", "x"), R("q", None, "x"), R("p", "not_interested", "x")>>}
=============================================================================
