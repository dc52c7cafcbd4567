----------------------------- MODULE AutoDialer -----------------------------
(***************************************************************************)
(* The auto-dialer (backend/app/scheduler/service.py) over the dial it     *)
(* calls (backend/app/outbound/service.py): scheduled_calls rows are       *)
(* claimed, dialed, resolved by the end of their call, and recovered by a  *)
(* reaper.  A cycle of the scheduler loop reaps, claims, then dials, one   *)
(* step per commit, while operators, webhooks, sweeps and manual dials     *)
(* write the same tables.                                                  *)
(*                                                                         *)
(* An ORM write updates by primary key whatever the row holds by then (a   *)
(* blind write); the claim and the release are conditional UPDATEs.        *)
(* Time is abstract: a stranded row may or may not have timed out, a due   *)
(* time may or may not have come, a lead may or may not be callable now.   *)
(***************************************************************************)
EXTENDS Naturals, Sequences, FiniteSets

CONSTANTS
  Calls,          \* scheduled_calls rows
  Leads,
  LeadOf,         \* the lead of each row
  Limit,          \* auto_dialer_max_concurrent_dials
  MaxTechRetries, \* _TECH_RETRY_MAX_ATTEMPTS
  MaxDials,       \* bound: call sessions per lead
  OpRequests,     \* bound: what operators ask for, <<row, its new status>>
  MaxOps,         \* bound: operator requests
  MaxStops        \* bound: process stops

ASSUME LeadAssumption == LeadOf \in [Calls -> Leads]
ASSUME LimitAssumption == Limit \in Nat \ {0} /\ MaxTechRetries \in Nat

VARIABLES
  (* scheduled_calls rows: status, trigger_reason = tech_retry, and
     outcome_session_id, an index into the lead's sessions (0 is NULL) *)
  status, tech, outcome,
  (* call_sessions of each lead, oldest first: what telephony_status amounts
     to for the scheduler *)
  sess,
  (* the scheduler loop: rows still to visit, rows won, the row in hand, the
     session status the reaper read, the session the dial returned *)
  pc, todo, won, cur, seen, call,
  (* the dial in progress on each lead's lock: the request it waits for, those
     that the provider carried out, and the row it is for *)
  line, rung, by,
  (* an operator's request between its read of the row and its write *)
  op,
  (* history; placed counts the dials of a row that made the provider call *)
  placed, cut, touched, ops, stops

rowVars == <<status, tech, outcome>>
loopVars == <<pc, todo, won, cur, seen, call>>
lineVars == <<line, rung, by>>
opVars == <<op, touched, ops>>
stopVars == <<cut, stops>>
vars == <<rowVars, sess, loopVars, lineVars, opVars, placed, stopVars>>

-----------------------------------------------------------------------------
Active == {"pending", "in_progress"}
Terminal == {"completed", "failed", "cancelled"}
Status == {"absent"} \union Active \union Terminal

(* completed stands for completed and voicemail, ended for every terminal
   status without a conversation. *)
SessStatus == {"active", "completed", "ended"}

LoopPC == {"idle", "reapA", "reapB", "resolve", "claim", "dial", "dialing",
           "accepted", "rejected"}

(* The requests a dial makes of the provider: the second after a transient
   result of the first. *)
Requests == {"first", "retry"}

NoRow == "none"
Manual == "manual"   \* a dial that no row asked for

(* Neither is the id of a row. *)
ASSUME NameAssumption == NoRow \notin Calls /\ Manual \notin Calls

TypeOK ==
  /\ status \in [Calls -> Status]
  /\ tech \subseteq Calls
  /\ outcome \in [Calls -> Nat]
  /\ sess \in [Leads -> Seq(SessStatus)]
  /\ pc \in LoopPC
  /\ todo \subseteq Calls
  /\ won \subseteq Calls
  /\ cur \in Calls \union {NoRow}
  /\ seen \in SessStatus
  /\ call \in Nat
  /\ line \in [Leads -> {"free"} \union Requests]
  /\ rung \in [Leads -> SUBSET Requests]
  /\ by \in [Leads -> Calls \union {Manual}]
  /\ op \in [Calls -> {"none", "cancelled", "completed"}]
  /\ touched \subseteq Calls
  /\ placed \in [Calls -> Nat]
  /\ cut \in [Calls -> Nat]
  /\ ops \in Nat
  /\ stops \in Nat

RowsOf(l) == {r \in Calls : LeadOf[r] = l}
InProgress(l) == {r \in RowsOf(l) : status[r] = "in_progress"}
ActiveSessions(l) == {n \in DOMAIN sess[l] : sess[l][n] = "active"}
Latest(l) == Len(sess[l])

Init ==
  /\ status = [r \in Calls |-> "absent"]
  /\ tech = {}
  /\ outcome = [r \in Calls |-> 0]
  /\ sess = [l \in Leads |-> <<>>]
  /\ pc = "idle" /\ todo = {} /\ won = {}
  /\ cur = NoRow /\ seen = "active" /\ call = 0
  /\ line = [l \in Leads |-> "free"]
  /\ rung = [l \in Leads |-> {}]
  /\ by = [l \in Leads |-> Manual]
  /\ op = [r \in Calls |-> "none"]
  /\ touched = {} /\ ops = 0
  /\ placed = [r \in Calls |-> 0]
  /\ cut = [r \in Calls |-> 0]
  /\ stops = 0

Write(r, new) == status' = [status EXCEPT ![r] = new]

-----------------------------------------------------------------------------
(* The queue *)

(* auto_schedule, the followup tool and the manual route.  Each looks for an
   active row of the lead before it inserts, but two requests can both look
   first, so no row is excluded here. *)
Create(r) ==
  /\ status[r] = "absent"
  /\ Write(r, "pending")
  /\ UNCHANGED <<tech, outcome, sess, loopVars, lineVars, opVars, placed, stopVars>>

(* cancel and complete: a request reads the row and checks its status, *)
OpCheck(r, new) ==
  /\ ops < MaxOps /\ <<r, new>> \in OpRequests
  /\ op[r] = "none"
  /\ status[r] \in Active
  /\ op' = [op EXCEPT ![r] = new]
  /\ touched' = touched \union {r}
  /\ ops' = ops + 1
  /\ UNCHANGED <<rowVars, sess, loopVars, lineVars, placed, stopVars>>

(* and then writes it, whatever it has become. *)
OpWrite(r) ==
  /\ op[r] # "none"
  /\ Write(r, op[r])
  /\ op' = [op EXCEPT ![r] = "none"]
  /\ UNCHANGED <<tech, outcome, sess, loopVars, lineVars, touched, ops, placed, stopVars>>

-----------------------------------------------------------------------------
(* Call sessions reaching a terminal status *)

(* The row linked to session n of lead l that resolve_scheduled_call_for_session
   acts on, and the parked technical retries a conversation makes pointless:
   .first() of them. *)
Linked(l, n) == {r \in InProgress(l) : outcome[r] = n}
Parked(l) == {r \in RowsOf(l) : r \in tech /\ status[r] = "pending"}

Resolution(v) == IF v = "completed" THEN "completed" ELSE "failed"

(* Row r takes the resolution of a session seen as v. *)
Resolve(r, v) ==
  LET l == LeadOf[r]
      parked == Parked(l) \ {r}
  IN  IF v = "completed" /\ parked # {}
      THEN \E p \in parked : status' = [status EXCEPT ![r] = "completed", ![p] = "cancelled"]
      ELSE Write(r, Resolution(v))

SetSession(l, n, v) == sess' = [sess EXCEPT ![l][n] = v]

(* close_session, one transaction.  failed and stale_in_call give way to
   completed; no_answer and recurrent_error do not. *)
CloseSession(l, n) ==
  /\ n \in DOMAIN sess[l] /\ sess[l][n] # "completed"
  /\ \E v \in {"completed", "ended"} :
       /\ sess[l][n] = "active" => v = "completed"
       /\ SetSession(l, n, v)
       /\ IF Linked(l, n) = {} THEN UNCHANGED status
          ELSE \E r \in Linked(l, n) : Resolve(r, v)
  /\ UNCHANGED <<tech, outcome, loopVars, lineVars, opVars, placed, stopVars>>

(* The same evidence by another road, which leaves the row alone: the webhook
   linkage and _reconcile_session. *)
CompleteSession(l, n) ==
  /\ n \in DOMAIN sess[l] /\ sess[l][n] # "completed"
  /\ SetSession(l, n, "completed")
  /\ UNCHANGED <<rowVars, loopVars, lineVars, opVars, placed, stopVars>>

(* The probe and the stale telephony sweep.  Both wait longer than a dial
   takes: no session of a dial in progress. *)
EndSession(l, n) ==
  /\ n \in ActiveSessions(l)
  /\ line[l] = "free" \/ n # Latest(l)
  /\ SetSession(l, n, "ended")
  /\ UNCHANGED <<rowVars, loopVars, lineVars, opVars, placed, stopVars>>

-----------------------------------------------------------------------------
(* The reaper *)

EndCycle == pc' = "idle" /\ todo' = {} /\ won' = {} /\ UNCHANGED <<cur, seen, call>>
Visit(r) == todo' = todo \ {r} /\ UNCHANGED <<pc, won, cur, seen, call>>

(* Claimed, and no session recorded: released once it has timed out. *)
Stranded == {r \in Calls : status[r] = "in_progress" /\ outcome[r] = 0}

(* A tick: the SELECT of class (a), those of the stranded rows that timed out. *)
StartCycle(timedOut) ==
  /\ pc = "idle"
  /\ timedOut \subseteq Stranded
  /\ pc' = "reapA"
  /\ todo' = timedOut
  /\ UNCHANGED <<rowVars, sess, won, cur, seen, call, lineVars, opVars, placed, stopVars>>

(* A conditional release: to pending, or to failed when the row is too old or
   out of attempts.  A lost race rolls the session back, which expires every
   row loaded: reading the next one raises and ends the cycle. *)
ReapA(r) ==
  /\ pc = "reapA" /\ r \in todo
  /\ IF r \in Stranded
     THEN (\E new \in {"pending", "failed"} : Write(r, new)) /\ Visit(r)
     ELSE /\ UNCHANGED status
          /\ IF todo = {r} THEN Visit(r) ELSE EndCycle
  /\ UNCHANGED <<tech, outcome, sess, lineVars, opVars, placed, stopVars>>

(* The SELECT of class (b): the rows keep the status they were loaded with. *)
SelectB ==
  /\ pc = "reapA" /\ todo = {}
  /\ pc' = "reapB"
  /\ todo' = {r \in Calls : status[r] = "in_progress" /\ outcome[r] # 0}
  /\ UNCHANGED <<rowVars, sess, won, cur, seen, call, lineVars, opVars, placed, stopVars>>

(* Mutant of NonTerminal: the mapping table lacks the failures. *)
NonTerminal_AllButCompleted(v) == v # "completed"

(* Not in _TELEPHONY_TO_SCHEDULED_STATUS. *)
NonTerminal(v) == v = "active"

(* The linked session is read; a non-terminal one is left to the sweep. *)
ReadSession(r) ==
  /\ pc = "reapB" /\ r \in todo
  /\ LET v == sess[LeadOf[r]][outcome[r]]
     IN  IF NonTerminal(v) THEN Visit(r)
         ELSE /\ pc' = "resolve"
              /\ cur' = r
              /\ seen' = v
              /\ todo' = todo \ {r}
              /\ UNCHANGED <<won, call>>
  /\ UNCHANGED <<rowVars, sess, lineVars, opVars, placed, stopVars>>

(* resolve_scheduled_call_for_session on a row loaded as in_progress: its
   check passes, and the write is blind. *)
ReapB ==
  /\ pc = "resolve"
  /\ Resolve(cur, seen)
  /\ pc' = "reapB"
  /\ cur' = NoRow
  /\ seen' = "active"
  /\ UNCHANGED <<tech, outcome, sess, todo, won, call, lineVars, opVars, placed, stopVars>>

-----------------------------------------------------------------------------
(* The claim *)

(* The SELECT of the candidates: some due pending rows, at most Limit. *)
SelectDue(due) ==
  /\ pc = "reapB" /\ todo = {}
  /\ due \subseteq {r \in Calls : status[r] = "pending"}
  /\ Cardinality(due) <= Limit
  /\ pc' = "claim"
  /\ todo' = due
  /\ UNCHANGED <<rowVars, sess, won, cur, seen, call, lineVars, opVars, placed, stopVars>>

(* Mutant of Claim: the UPDATE does not look at the status. *)
Claim_Blind(r) ==
  /\ pc = "claim" /\ r \in todo
  /\ IF InProgress(LeadOf[r]) \ {r} = {}
     THEN /\ Write(r, "in_progress")
          /\ won' = won \union {r}
          /\ todo' = todo \ {r}
          /\ UNCHANGED <<pc, cur, seen, call>>
     ELSE EndCycle /\ UNCHANGED status
  /\ UNCHANGED <<tech, outcome, sess, lineVars, opVars, placed, stopVars>>

(* UPDATE ... WHERE status = 'pending', under the unique index on the rows in
   progress of a lead.  A conflict with the index rolls the session back, which
   expires the candidates left and the rows already won: the cycle ends at the
   next one it reads. *)
Claim(r) ==
  /\ pc = "claim" /\ r \in todo
  /\ CASE status[r] # "pending" -> Visit(r) /\ UNCHANGED status
       [] status[r] = "pending" /\ InProgress(LeadOf[r]) = {} ->
            /\ Write(r, "in_progress")
            /\ won' = won \union {r}
            /\ todo' = todo \ {r}
            /\ UNCHANGED <<pc, cur, seen, call>>
       [] OTHER -> EndCycle /\ UNCHANGED status
  /\ UNCHANGED <<tech, outcome, sess, lineVars, opVars, placed, stopVars>>

StartDialing ==
  /\ pc = "claim" /\ todo = {}
  /\ pc' = "dial"
  /\ UNCHANGED <<rowVars, sess, todo, won, cur, seen, call, lineVars, opVars, placed, stopVars>>

-----------------------------------------------------------------------------
(* The dial of a claimed row.  Its status is not read again. *)

Drop(r) == won' = won \ {r} /\ UNCHANGED <<pc, todo, cur, seen, call>>

(* Outside the allowed hours: back to pending.  Do-not-call: cancelled.  A
   guard of the dial, or an exception: failed. *)
Forgo(r) ==
  /\ pc = "dial" /\ r \in won
  /\ \E new \in {"pending", "cancelled", "failed"} : Write(r, new)
  /\ Drop(r)
  /\ UNCHANGED <<tech, outcome, sess, lineVars, opVars, placed, stopVars>>

(* Mutant of GuardsPass: guard 3 is missing. *)
GuardsPass_NoSessionGuard(l, self) == InProgress(l) \ self = {}

(* Guards 3 and 3b under the lead's lock. *)
GuardsPass(l, self) == ActiveSessions(l) = {} /\ InProgress(l) \ self = {}

(* The lock is taken and the new session is committed. *)
Seize(l, who) ==
  /\ line[l] = "free"
  /\ Latest(l) < MaxDials
  /\ sess' = [sess EXCEPT ![l] = Append(@, "active")]
  /\ line' = [line EXCEPT ![l] = "first"]
  /\ by' = [by EXCEPT ![l] = who]
  /\ UNCHANGED rung

BeginDial(r) ==
  /\ pc = "dial" /\ r \in won
  /\ GuardsPass(LeadOf[r], {r})
  /\ Seize(LeadOf[r], r)
  /\ won' = won \ {r}
  /\ cur' = r
  /\ call' = Latest(LeadOf[r]) + 1
  /\ pc' = "dialing"
  /\ UNCHANGED <<rowVars, todo, seen, opVars, placed, stopVars>>

(* trigger_outbound_call. *)
ManualDial(l) ==
  /\ GuardsPass(l, {})
  /\ Seize(l, Manual)
  /\ UNCHANGED <<rowVars, loopVars, opVars, placed, stopVars>>

(* The request reaches the provider, which places the call: the response that
   says so, or the error or the timeout that does not, is still to be read. *)
PlaceCall(l) ==
  /\ line[l] # "free"
  /\ line[l] \notin rung[l]
  /\ rung' = [rung EXCEPT ![l] = @ \union {line[l]}]
  /\ placed' = IF by[l] = Manual \/ rung[l] # {} THEN placed
               ELSE [placed EXCEPT ![by[l]] = @ + 1]
  /\ UNCHANGED <<rowVars, sess, loopVars, line, by, opVars, stopVars>>

(* 5xx, 429 or a network error, whether or not the provider placed the call: the
   request is made once more under the same lock. *)
Transient(l) ==
  /\ line[l] = "first"
  /\ line' = [line EXCEPT ![l] = "retry"]
  /\ UNCHANGED <<rowVars, sess, loopVars, rung, by, opVars, placed, stopVars>>

(* The lock is released and the DialResult returned to who dialed. *)
HangUp(l, result) ==
  /\ line' = [line EXCEPT ![l] = "free"]
  /\ rung' = [rung EXCEPT ![l] = {}]
  /\ by' = [by EXCEPT ![l] = Manual]
  /\ pc' = IF by[l] = Manual THEN pc ELSE result
  /\ UNCHANGED <<todo, won, cur, seen, call>>

(* Accepted: a session the webhook has completed meanwhile stays completed. *)
Accepted(l) ==
  /\ line[l] \in rung[l]
  /\ HangUp(l, "accepted")
  /\ UNCHANGED <<rowVars, sess, opVars, placed, stopVars>>

TechRows(l) == tech \intersect RowsOf(l)

(* Mutant of MayRetry: the dedup guard is missing. *)
MayRetry_CountOnly(l) == Cardinality(TechRows(l)) < MaxTechRetries

(* schedule_tech_retry: at most one active, at most MaxTechRetries ever. *)
MayRetry(l) ==
  /\ {r \in TechRows(l) : status[r] \in Active} = {}
  /\ Cardinality(TechRows(l)) < MaxTechRetries

(* no_answer, a permanent error or an ambiguous timeout of the first request, any
   failure of the second: the session fails (a blind write), and the row with
   it.  After both failed: a technical retry besides. *)
Failed(l) ==
  /\ line[l] # "free"
  /\ SetSession(l, Latest(l), "ended")
  /\ HangUp(l, "rejected")
  /\ \/ UNCHANGED <<status, tech>>
     \/ /\ line[l] = "retry" /\ MayRetry(l)
        /\ \E r \in RowsOf(l) : /\ status[r] = "absent"
                                /\ Write(r, "pending")
                                /\ tech' = tech \union {r}
  /\ UNCHANGED <<outcome, opVars, placed, stopVars>>

(* dial_outbound_call raises: the session stays as it is. *)
Raises(l) ==
  /\ line[l] # "free"
  /\ HangUp(l, "rejected")
  /\ UNCHANGED <<rowVars, sess, opVars, placed, stopVars>>

(* Mutant of RecordOutcome: outcome_session_id is not set. *)
RecordOutcome_Forgotten ==
  /\ pc = "accepted"
  /\ pc' = "dial" /\ cur' = NoRow /\ call' = 0
  /\ UNCHANGED <<rowVars, sess, todo, won, seen, lineVars, opVars, placed, stopVars>>

(* The row's own write: its session, or its failure. *)
RecordOutcome ==
  /\ pc = "accepted"
  /\ outcome' = [outcome EXCEPT ![cur] = call]
  /\ pc' = "dial" /\ cur' = NoRow /\ call' = 0
  /\ UNCHANGED <<status, tech, sess, todo, won, seen, lineVars, opVars, placed, stopVars>>

FailRow ==
  /\ pc = "rejected"
  /\ Write(cur, "failed")
  /\ pc' = "dial" /\ cur' = NoRow /\ call' = 0
  /\ UNCHANGED <<tech, outcome, sess, todo, won, seen, lineVars, opVars, placed, stopVars>>

Rest ==
  /\ pc = "dial" /\ won = {}
  /\ EndCycle
  /\ UNCHANGED <<rowVars, sess, lineVars, opVars, placed, stopVars>>

-----------------------------------------------------------------------------
(* A stop between the provider's call and the row's write loses the link. *)
CutShort(r) ==
  \/ cur = r /\ pc \in {"accepted", "rejected"}
  \/ \E l \in Leads : rung[l] # {} /\ by[l] = r

(* A process stop and restart: loop, locks and requests go, rows stay. *)
Stop ==
  /\ stops < MaxStops
  /\ stops' = stops + 1
  /\ cut' = [r \in Calls |-> IF CutShort(r) THEN cut[r] + 1 ELSE cut[r]]
  /\ pc' = "idle" /\ todo' = {} /\ won' = {}
  /\ cur' = NoRow /\ seen' = "active" /\ call' = 0
  /\ line' = [l \in Leads |-> "free"]
  /\ rung' = [l \in Leads |-> {}]
  /\ by' = [l \in Leads |-> Manual]
  /\ op' = [r \in Calls |-> "none"]
  /\ UNCHANGED <<rowVars, sess, touched, ops, placed>>

-----------------------------------------------------------------------------
(* One step of the loop, or of the dial it waits for. *)
LoopStep ==
  \/ \E r \in Calls : ReapA(r) \/ ReadSession(r) \/ Claim(r) \/ Forgo(r) \/ BeginDial(r)
  \/ SelectB
  \/ ReapB
  \/ \E due \in SUBSET Calls : SelectDue(due)
  \/ StartDialing
  \/ RecordOutcome
  \/ FailRow
  \/ Rest

LineStep(l) == PlaceCall(l) \/ Transient(l) \/ Accepted(l) \/ Failed(l) \/ Raises(l)

SessionStep(l, n) == CloseSession(l, n) \/ CompleteSession(l, n) \/ EndSession(l, n)

Next ==
  \/ \E r \in Calls : \/ Create(r) \/ OpWrite(r)
                      \/ \E new \in {"cancelled", "completed"} : OpCheck(r, new)
  \/ \E l \in Leads : ManualDial(l) \/ LineStep(l)
  \/ \E l \in Leads, n \in 1..MaxDials : SessionStep(l, n)
  \/ \E timedOut \in SUBSET Calls : StartCycle(timedOut)
  \/ LoopStep
  \/ Stop

Spec == Init /\ [][Next]_vars

(* The loop ticks every minute and each of its awaits returns; the provider
   request times out; the sweep ends a session no webhook closed; a row that
   stays stranded has timed out by some later tick. *)
Fairness ==
  /\ WF_vars(LoopStep)
  /\ WF_vars(\E timedOut \in SUBSET Calls : StartCycle(timedOut))
  /\ \A r \in Calls :
       SF_vars(\E timedOut \in SUBSET Calls : r \in timedOut /\ StartCycle(timedOut))
  /\ \A l \in Leads : WF_vars(LineStep(l))
  /\ \A l \in Leads, n \in 1..MaxDials : WF_vars(EndSession(l, n))

FairSpec == Spec /\ Fairness

-----------------------------------------------------------------------------
(* Safety *)

(* A second dial of a row makes the provider call only if a stop cut the one
   before short: no release, cancellation, technical retry or race of the reaper
   has a row called by two dials.  (One dial can make it call twice, when it
   answers the call it placed with a transient error: Transient.) *)
NoUnaccountedRedial == \A r \in Calls : placed[r] <= 1 + cut[r]

(* A row with a recorded session is never claimable again. *)
RecordedNotRequeued == \A r \in Calls : status[r] = "pending" => outcome[r] = 0

(* At most one live call per lead, whoever dialed. *)
OneLiveCall == \A l \in Leads : Cardinality(ActiveSessions(l)) <= 1

(* At most one technical retry of a lead is active, those an operator wrote
   apart: a failing dial never parks a second one, and two of them would make
   the next look-up raise. *)
OneParkedRetry ==
  \A l \in Leads : Cardinality({r \in TechRows(l) \ touched : status[r] \in Active}) <= 1

(* A call that ended is never dialed again from its row: but for operators, a
   terminal row stays terminal. *)
StaysTerminal ==
  [][\A r \in Calls \ touched : status[r] \in Terminal => status'[r] \in Terminal]_vars

(* Liveness: a claimed row is not stranded.  Its dial, a webhook, the sweep and
   the reaper together get it out of in_progress. *)
NotStranded == \A r \in Calls : status[r] = "in_progress" ~> status[r] # "in_progress"
=============================================================================
