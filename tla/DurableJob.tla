----------------------------- MODULE DurableJob -----------------------------
(***************************************************************************)
(* What the background job executor promises the code that enqueues work,  *)
(* with no process, task or database in sight: a job that was accepted is  *)
(* executed AT LEAST once before it may be reported completed, only an     *)
(* accepted job has effects, and completed and dead are final.             *)
(*                                                                         *)
(* JobExecutor refines this specification (JobExecutor!Promise).           *)
(***************************************************************************)
EXTENDS Naturals

CONSTANT Jobs

VARIABLES
  life,     \* life[j]: where the job stands in the eyes of its submitter
  effects   \* effects[j]: how many times the handler's writes were committed

vars == <<life, effects>>

Lives == {"absent", "accepted", "completed", "dead"}

TypeOK ==
  /\ life \in [Jobs -> Lives]
  /\ effects \in [Jobs -> Nat]

Init ==
  /\ life = [j \in Jobs |-> "absent"]
  /\ effects = [j \in Jobs |-> 0]

Become(j, from, to) ==
  /\ life[j] = from
  /\ life' = [life EXCEPT ![j] = to]

Accept(j) == Become(j, "absent", "accepted") /\ UNCHANGED effects

Execute(j) ==
  /\ life[j] = "accepted"
  /\ effects' = [effects EXCEPT ![j] = @ + 1]
  /\ UNCHANGED life

Complete(j) ==
  /\ effects[j] > 0
  /\ Become(j, "accepted", "completed")
  /\ UNCHANGED effects

GiveUp(j) == Become(j, "accepted", "dead") /\ UNCHANGED effects

Next == \E j \in Jobs : Accept(j) \/ Execute(j) \/ Complete(j) \/ GiveUp(j)

Spec == Init /\ [][Next]_vars
=============================================================================
