--------------------------- MODULE MCCallAnalysis ---------------------------
(* One instance of CallAnalysis for TLC: days of 4 hours of 2 ticks, calls
   allowed in hours 1 and 2, a timezone half an hour behind UTC. *)
EXTENDS CallAnalysis

MCPromises ==
  {[type |-> "callback", strength |-> "strong", owner |-> "lead", due |-> "today"],
   [type |-> "callback", strength |-> "strong", owner |-> "agent", due |-> "tomorrow"],
   [type |-> "receive_quote", strength |-> "medium", owner |-> "lead", due |-> "unknown"]}

MCOutcomes == {"no_answer", "callback_requested", "completed_positive",
              "completed_negative", "hostile", "confused"}

MCOffset == -1
MCPrevious == {None, 41}
=============================================================================
