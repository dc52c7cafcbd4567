--------------------------- MODULE MCSipEvidence ---------------------------
EXTENDS SipEvidence, TLC
AllNear == Sessions \X Sessions
TwoCalls == 1 :> {"challenged", "answered"} @@ 2 :> {"refused"}
=============================================================================
