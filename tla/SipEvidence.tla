----------------------------- MODULE SipEvidence -----------------------------
(***************************************************************************)
(* How the rows of an agent's calls get the network's answer, the sip_*    *)
(* columns of call_sessions: from a probe some seconds after each dial     *)
(* (backend/app/outbound/probe.py), or from a pass of the sweep over rows  *)
(* that have none (backend/app/outbound/sweep.py).  Both ask the provider  *)
(* for the conversation and then for its SIP messages, while the call goes *)
(* on, webhooks complete rows and the other one writes.                    *)
(*                                                                         *)
(* OutboundCall is about what moves telephony_status and which row a       *)
(* webhook finds; here the dial, the webhook and the verdict of the sweep  *)
(* are the environment.  A dial that is repeated on a transient error and  *)
(* rings twice counts as one call.                                         *)
(***************************************************************************)
EXTENDS Naturals, FiniteSets

CONSTANTS
  MaxCalls,     \* bound: dials of the agent
  Near,         \* a session and a call that starts within _MATCH_WINDOW_SECONDS
  PageSize,     \* conversations the provider lists
  Cap,          \* reconciliation_sweep_cap
  MaxAttempts,  \* reconciliation_max_attempts
  Responses     \* bound: how the network may respond to each call

(* Session n is the n-th dial, conversation n the call it asks for. *)
Sessions == 1..MaxCalls

(* A final response to an INVITE: it asks for another INVITE, has a code of 400
   and more, or 200. *)
Response == {"challenged", "refused", "answered"}

(* A call starts within seconds of its dial.  Two attempts: a probe overlaps one
   failure of the pass (SelectCandidates). *)
ASSUME SipAssumption ==
  /\ MaxCalls \in Nat /\ Near \subseteq Sessions \X Sessions
  /\ \A n \in Sessions : <<n, n>> \in Near
  /\ PageSize \in Nat /\ Cap \in Nat \ {0} /\ MaxAttempts \in Nat \ {0, 1}
  /\ Responses \in [Sessions -> SUBSET Response]

VARIABLES
  (* rows: lead_id, a lead going by a session of its own; what telephony_status
     amounts to, elevenlabs_conversation_id (0 is NULL), sip_*,
     reconciliation_source and reconciliation_attempts; and the conversation that
     a sip_routing_error came from *)
  lead, tel, conv, sip, source, attempts, routed,
  (* the provider: the SIP dialog of each conversation, and those that ended *)
  dialog, over,
  (* per session, what its dial or its probe is about to do, and whether a cycle
     of the pass has met them *)
  probe,
  (* the pass: rows loaded and not visited, the one in hand, what is to be
     committed *)
  batch, hand, writes,
  (* history: sessions matched with another call while theirs was not listed, and
     the sessions that got another call's conversation from its webhook *)
  unlisted, linked

rowVars == <<lead, tel, conv, sip, source, attempts, routed>>
providerVars == <<dialog, over>>
passVars == <<batch, hand, writes>>
historyVars == <<unlisted, linked>>
vars == <<rowVars, providerVars, probe, passVars, historyVars>>

-----------------------------------------------------------------------------
(* open is dialing or ringing, failed that or stale_in_call, closed a terminal
   status that is no candidate. *)
Telephony == {"none", "open", "failed", "completed", "closed"}

(* A dialog, by its INVITE with the greatest CSeq. *)
Dialog == {"none", "ringing"} \union Response
Blank == [of |-> 0, code |-> "none"]
Evidence == {Blank} \union [of : Sessions, code : Response]

Probe == [pc : {"none", "dialing", "waiting", "matched"}, of : {0} \union Sessions,
          ended : BOOLEAN, met : BOOLEAN]
NoProbe == [pc |-> "none", of |-> 0, ended |-> FALSE, met |-> FALSE]
Nothing == [n |-> 0, of |-> 0]
Write == [n : Sessions, ok : BOOLEAN, sip : Evidence]

TypeOK ==
  /\ lead \in [Sessions -> Sessions]
  /\ tel \in [Sessions -> Telephony]
  /\ conv \in [Sessions -> {0} \union Sessions]
  /\ sip \in [Sessions -> Evidence]
  /\ source \in [Sessions -> {"none", "probe", "sweep", "unreconcilable"}]
  /\ attempts \in [Sessions -> 0..MaxAttempts]
  /\ routed \in [Sessions -> {0} \union Sessions]
  /\ dialog \in [Sessions -> Dialog]
  /\ over \subseteq Sessions
  /\ probe \in [Sessions -> Probe]
  /\ batch \subseteq Sessions \X ({0} \union Sessions)
  /\ hand \in {Nothing} \union [n : Sessions, of : Sessions]
  /\ writes \subseteq Write
  /\ unlisted \subseteq Sessions /\ linked \subseteq Sessions \X Sessions

Init ==
  /\ lead \in {who \in [Sessions -> Sessions] : \A n \in Sessions : who[n] <= n}
  /\ tel = [n \in Sessions |-> "none"]
  /\ conv = [n \in Sessions |-> 0]
  /\ sip = [n \in Sessions |-> Blank]
  /\ source = [n \in Sessions |-> "none"]
  /\ attempts = [n \in Sessions |-> 0]
  /\ routed = [n \in Sessions |-> 0]
  /\ dialog = [n \in Sessions |-> "none"]
  /\ over = {} /\ probe = [n \in Sessions |-> NoProbe]
  /\ batch = {} /\ hand = Nothing /\ writes = {}
  /\ unlisted = {} /\ linked = {}

-----------------------------------------------------------------------------
(* The environment: dials, the phone call, the webhook, the verdict *)

(* Guard 3, under the lock of the lead: no call of the lead is on, no dial of it
   under way. *)
Dial(n) ==
  /\ tel[n] = "none" /\ \A m \in Sessions : m < n => tel[m] # "none"
  /\ \A m \in Sessions : lead[m] = lead[n] => tel[m] # "open" /\ probe[m].pc # "dialing"
  /\ tel' = [tel EXCEPT ![n] = "open"]
  /\ probe' = [probe EXCEPT ![n].pc = "dialing"]
  /\ UNCHANGED <<lead, conv, sip, source, attempts, routed, providerVars, passVars, historyVars>>

(* _persist_accepted_call_session: the answer may name the conversation, which
   never replaces one; the status is written only if nothing else was. *)
Answer(n, new, withConv) ==
  /\ withConv => new = tel[n] /\ dialog[n] # "none"
  /\ conv' = IF withConv /\ conv[n] = 0 THEN [conv EXCEPT ![n] = n] ELSE conv

(* The dial is accepted, or times out: schedule_call_probe.  A timeout writes
   failed, whatever the row holds. *)
DialReturns(n, new, withConv) ==
  /\ probe[n].pc = "dialing"
  /\ new = tel[n] \/ new = "failed"
  /\ Answer(n, new, withConv)
  /\ tel' = [tel EXCEPT ![n] = new]
  /\ probe' = [probe EXCEPT ![n].pc = "waiting"]
  /\ UNCHANGED <<lead, sip, source, attempts, routed, providerVars, passVars, historyVars>>

(* Every other end of a dial, accepted at the second attempt among them: no
   probe. *)
DialFails(n, new, withConv) ==
  /\ probe[n].pc = "dialing"
  /\ Answer(n, new, withConv)
  /\ tel' = [tel EXCEPT ![n] = new]
  /\ probe' = [probe EXCEPT ![n] = NoProbe]
  /\ UNCHANGED <<lead, sip, source, attempts, routed, providerVars, passVars, historyVars>>

SetDialog(k, new) ==
  /\ dialog' = [dialog EXCEPT ![k] = new]
  /\ UNCHANGED <<rowVars, over, probe, passVars, historyVars>>

Place(k) ==
  /\ dialog[k] = "none"
  /\ probe[k].pc \in {"dialing", "waiting"}
  /\ SetDialog(k, "ringing")

Respond(k, code) ==
  dialog[k] = "ringing" /\ code \in Responses[k] /\ SetDialog(k, code)
InviteAgain(k) == dialog[k] = "challenged" /\ SetDialog(k, "ringing")

CallEnds(k) ==
  /\ k \notin over /\ dialog[k] \in {"refused", "answered"}
  /\ over' = over \union {k}
  /\ UNCHANGED <<rowVars, dialog, probe, passVars, historyVars>>

(* The end-of-call webhook, or /end, of call k on row n, which it found by the
   conversation, the provider's call id or the lead: the row of another call of
   the lead, if that is the orphan.  The row may have changed since, so none of
   the lead is excluded here.  A row keeps the conversation it was loaded with,
   and a closed one may keep its status (update_telephony_status_on_session_end). *)
Webhook(k, n) ==
  /\ k \in over /\ lead[k] = lead[n] /\ tel[n] # "none"
  /\ \/ tel' = [tel EXCEPT ![n] = "completed"]
     \/ tel[n] = "closed" /\ UNCHANGED tel
  /\ \/ conv' = [conv EXCEPT ![n] = k] /\ linked' = linked \union ({<<n, k>>} \ {<<n, n>>})
     \/ conv[n] # 0 /\ UNCHANGED <<conv, linked>>
  /\ UNCHANGED <<lead, sip, source, attempts, routed, providerVars, probe, passVars, unlisted>>

(* The first pass of the sweep, minutes after the probe. *)
GiveUp(n) ==
  /\ tel[n] = "open" /\ probe[n] = NoProbe
  /\ tel' = [tel EXCEPT ![n] = "failed"]
  /\ UNCHANGED <<lead, conv, sip, source, attempts, routed, providerVars, probe, passVars,
                 historyVars>>

-----------------------------------------------------------------------------
(* What both ask the provider *)

(* list_recent_conversations: the newest ones. *)
Placed == {k \in Sessions : dialog[k] # "none"}
Listed == {k \in Placed : Cardinality({m \in Placed : m > k}) < PageSize}
Nearby(n) == {k \in Listed : <<n, k>> \in Near}

(* Mutant of Matches: any call in the window will do. *)
Matches_Any(n) == Nearby(n)

(* The one call in the window, if there is exactly one. *)
Matches(n) == {k \in Nearby(n) : Nearby(n) = {k}}

(* The conversation of a row: the stored one, or a match by time. *)
Candidates(n, stored) == IF stored # 0 THEN {stored} ELSE Matches(n)
Looked(n, stored, k) ==
  /\ unlisted' = IF stored = 0 /\ k # n /\ n \notin Listed THEN unlisted \union {n} ELSE unlisted
  /\ UNCHANGED linked

(* _extract_sip_fields: the final response to the last INVITE, or nothing. *)
Extract(k) ==
  IF dialog[k] \in Response THEN [of |-> k, code |-> dialog[k]] ELSE Blank

(* An ORM write of the columns that were NULL when they were loaded. *)
Filled(stored, new) == IF new = Blank THEN stored ELSE new

-----------------------------------------------------------------------------
(* The probe *)

ProbeEnds(n) == probe' = [probe EXCEPT ![n] = NoProbe]

(* After its delay it reads the row, and leaves a reconciled one. *)
Leaves(n) ==
  /\ probe[n].pc = "waiting" /\ source[n] # "none"
  /\ ProbeEnds(n)
  /\ UNCHANGED <<rowVars, providerVars, passVars, historyVars>>

(* The conversation, and its status by now. *)
ProbeMatches(n) ==
  /\ probe[n].pc = "waiting" /\ source[n] = "none"
  /\ \E k \in Candidates(n, conv[n]) :
       /\ probe' = [probe EXCEPT ![n] =
                      [@ EXCEPT !.pc = "matched", !.of = k, !.ended = k \in over]]
       /\ Looked(n, conv[n], k)
  /\ UNCHANGED <<rowVars, providerVars, passVars>>

(* An error, no match or several; no messages, or not all of them. *)
ProbeGivesUp(n) ==
  /\ probe[n].pc \in {"waiting", "matched"}
  /\ ProbeEnds(n)
  /\ UNCHANGED <<rowVars, providerVars, passVars, historyVars>>

(* Mutant of RoutingFailure: the status of the conversation is not asked. *)
RoutingFailure_AnyStatus(ended, code) == code \in {"challenged", "refused"}

(* _is_sip_routing_failure *)
RoutingFailure(ended, code) == code \in {"challenged", "refused"} /\ ended

(* The messages, and the write: on a routing failure an UPDATE of a row that is
   still open, else an ORM write. *)
ProbeWrites(n) ==
  LET found == Extract(probe[n].of) IN
  /\ probe[n].pc = "matched"
  /\ IF RoutingFailure(probe[n].ended, found.code)
     THEN IF tel[n] = "open"
          THEN /\ tel' = [tel EXCEPT ![n] = "failed"]
               /\ routed' = [routed EXCEPT ![n] = found.of]
               /\ sip' = [sip EXCEPT ![n] = found]
               /\ source' = [source EXCEPT ![n] = "probe"]
          ELSE UNCHANGED <<tel, routed, sip, source>>
     ELSE /\ sip' = [sip EXCEPT ![n] = Filled(@, found)]
          /\ source' = [source EXCEPT ![n] = "probe"]
          /\ UNCHANGED <<tel, routed>>
  /\ ProbeEnds(n)
  /\ UNCHANGED <<lead, conv, attempts, providerVars, passVars, historyVars>>

-----------------------------------------------------------------------------
(* The pass *)

Candidate(n) ==
  /\ \/ tel[n] = "failed"
     \/ tel[n] = "completed" /\ conv[n] # 0
  /\ source[n] = "none" /\ attempts[n] < MaxAttempts

Older(n) == {m \in Sessions : m < n /\ Candidate(m)}

(* Mutant of First: the newest first. *)
First_Newest(n) == Cardinality({m \in Sessions : m > n /\ Candidate(m)}) < Cap

(* ORDER BY started_at LIMIT cap *)
First(n) == Cardinality(Older(n)) < Cap

Idle == batch = {} /\ hand = Nothing /\ writes = {}

(* Cycles are five minutes apart, a dial and its probe are over in less. *)
SelectCandidates ==
  /\ Idle /\ \A n \in Sessions : ~probe[n].met
  /\ batch' = {<<n, conv[n]>> : n \in {m \in Sessions : Candidate(m) /\ First(m)}}
  /\ batch' # {}
  /\ probe' = [n \in Sessions |-> [probe[n] EXCEPT !.met = probe[n].pc # "none"]]
  /\ UNCHANGED <<rowVars, providerVars, hand, writes, historyVars>>

Visit(row) == row \in batch /\ hand = Nothing /\ \A other \in batch : row[1] <= other[1]

PassMatches(row) ==
  /\ Visit(row)
  /\ batch' = batch \ {row}
  /\ \E k \in Candidates(row[1], row[2]) :
       /\ hand' = [n |-> row[1], of |-> k]
       /\ Looked(row[1], row[2], k)
  /\ UNCHANGED <<rowVars, providerVars, probe, writes>>

(* No match, or several: the row stays as it is. *)
PassSkips(row) ==
  /\ Visit(row)
  /\ row[2] = 0 /\ Matches(row[1]) = {}
  /\ batch' = batch \ {row}
  /\ UNCHANGED <<rowVars, providerVars, probe, hand, writes, historyVars>>

Failed(n) == [n |-> n, ok |-> FALSE, sip |-> Blank]

(* The provider raises: when asked for the list, *)
ListFails(row) ==
  /\ Visit(row) /\ row[2] = 0
  /\ batch' = batch \ {row}
  /\ writes' = writes \union {Failed(row[1])}
  /\ UNCHANGED <<rowVars, providerVars, probe, hand, historyVars>>

(* or for the messages. *)
PassFails ==
  /\ hand # Nothing /\ hand' = Nothing
  /\ writes' = writes \union {Failed(hand.n)}
  /\ UNCHANGED <<rowVars, providerVars, probe, batch, historyVars>>

(* There are none, or not all of them. *)
PassFindsNothing ==
  /\ hand # Nothing /\ hand' = Nothing
  /\ UNCHANGED <<rowVars, providerVars, probe, batch, writes, historyVars>>

PassFinds ==
  /\ hand # Nothing /\ hand' = Nothing
  /\ writes' = writes \union {[n |-> hand.n, ok |-> TRUE, sip |-> Extract(hand.of)]}
  /\ UNCHANGED <<rowVars, providerVars, probe, batch, historyVars>>

(* Mutant of Exhausted: one attempt too late. *)
Exhausted_Late(tried) == tried > MaxAttempts

Exhausted(tried) == tried >= MaxAttempts

(* One commit for the whole cycle, by primary key. *)
PassCommits ==
  /\ batch = {} /\ hand = Nothing /\ writes # {}
  /\ LET found == {w \in writes : w.ok}
         lost == {w.n : w \in writes \ found}
         parked == {n \in lost : Exhausted(attempts[n] + 1)}
     IN  /\ attempts' = [n \in Sessions |-> IF n \in lost THEN attempts[n] + 1 ELSE attempts[n]]
         /\ source' = [n \in Sessions |->
              IF n \in parked THEN "unreconcilable"
              ELSE IF \E w \in found : w.n = n THEN "sweep" ELSE source[n]]
         /\ sip' = [n \in Sessions |->
              IF \E w \in found : w.n = n
              THEN Filled(sip[n], (CHOOSE w \in found : w.n = n).sip) ELSE sip[n]]
  /\ writes' = {}
  /\ UNCHANGED <<lead, tel, conv, routed, providerVars, probe, batch, hand, historyVars>>

(* The commit fails, and the loop catches it: the cycle is lost.  So it is at a
   process stop, which is no step of its own here: what else it takes away, a
   dial or a probe, may end without a trace anyway. *)
CommitFails ==
  /\ batch = {} /\ hand = Nothing /\ writes # {}
  /\ writes' = {}
  /\ UNCHANGED <<rowVars, providerVars, probe, batch, hand, historyVars>>

-----------------------------------------------------------------------------
Environment ==
  \E n \in Sessions :
    \/ Dial(n) \/ GiveUp(n) \/ \E k \in over : Webhook(k, n)
    \/ Place(n) \/ InviteAgain(n) \/ CallEnds(n)
    \/ \E code \in Response : Respond(n, code)

DialEnds(n) ==
  \E withConv \in BOOLEAN :
    \/ \E new \in {tel[n], "failed"} : DialReturns(n, new, withConv)
    \/ \E new \in {tel[n], "failed", "closed"} : DialFails(n, new, withConv)

ProbeStep(n) == Leaves(n) \/ ProbeMatches(n) \/ ProbeGivesUp(n) \/ ProbeWrites(n)

PassStep ==
  \/ \E row \in batch : PassMatches(row) \/ PassSkips(row) \/ ListFails(row)
  \/ SelectCandidates \/ PassFails \/ PassFindsNothing \/ PassFinds
  \/ PassCommits \/ CommitFails

Next ==
  \/ Environment \/ PassStep
  \/ \E n \in Sessions : DialEnds(n) \/ ProbeStep(n)

Spec == Init /\ [][Next]_vars

(* The sweep's loop survives what a cycle raises; a dial and its probe return. *)
Fairness ==
  /\ WF_vars(PassStep)
  /\ \A n \in Sessions : WF_vars(DialEnds(n) \/ ProbeStep(n))

FairSpec == Spec /\ Fairness

-----------------------------------------------------------------------------
(* The probe fails a row for its routing only if nobody answered the call it
   looked at: the code it saw was the last word, not a challenge on the way. *)
RoutingErrorIsTrue ==
  \A n \in Sessions : routed[n] # 0 => dialog[routed[n]] # "answered"

(* A row is given up for good when its attempts are used up, not later (the pass
   would no longer see it), and never one that has its evidence. *)
ParkedInTime ==
  \A n \in Sessions :
    /\ attempts[n] = MaxAttempts <=> source[n] = "unreconcilable"
    /\ source[n] = "unreconcilable" => sip[n] = Blank

(* A row has the evidence of another call only if its own was missing from a
   list, or if that call's webhook gave the row its conversation: a match by time
   is never a choice between two, and a stored conversation never makes the
   evidence that of a third call. *)
NeverGuessed ==
  \A n \in Sessions :
    sip[n].of \notin {0, n} => n \in unlisted \/ <<n, sip[n].of>> \in linked

(* Liveness: the pass comes to every row that waits, again and again, unless Cap
   older rows are before it: those it finds nothing for stay the oldest. *)
NotStarved ==
  \A n \in Sessions :
    LET waits == Candidate(n) /\ conv[n] # 0 /\ Cardinality(Older(n)) < Cap
    IN  []<>(waits => hand.n = n)
=============================================================================
