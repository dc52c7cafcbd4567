---------------------------- MODULE OutboundCall ----------------------------
(***************************************************************************)
(* The call_sessions rows of one lead, from the dial to the last evidence  *)
(* about it (backend/app/outbound, backend/app/calls, sweeper.py).         *)
(* The dial writes a row before and after the provider's answer; the       *)
(* post-call webhook and the /end route find the row a conversation        *)
(* belongs to and close it; a probe and two sweeps settle what nobody      *)
(* closed.  They share no lock: what a request loaded when it looked a row *)
(* up is what it decides by later, and an ORM write updates only the       *)
(* columns it changed, whatever the row holds by then.                     *)
(*                                                                         *)
(* Not here: the scheduled_calls rows (AutoDialer), transcripts and the    *)
(* merge of sibling rows, the jobs a close enqueues, the SIP diagnostics.  *)
(***************************************************************************)
EXTENDS Naturals, FiniteSets

CONSTANTS
  MaxSessions,  \* bound: dials of the lead
  Requests,     \* bound: requests in progress at a time
  MaxStops      \* bound: process stops

ASSUME BoundAssumption == MaxSessions \in Nat /\ MaxStops \in Nat

(* Session n is the n-th dial; conversation n is the call it asks for. *)
Sessions == 1..MaxSessions

VARIABLES
  (* rows: telephony_status, status, elevenlabs_conversation_id (0 is NULL),
     those with provider_call_id, those with session_end_received *)
  tel, status, conv, pcid, ser,
  age,       \* time since started_at: thresholds passed, of 5, 10 and 30 minutes
  (* the provider: calls placed for a session, conversations that ended *)
  rung, over,
  (* the dial in progress, on the newest row: its attempt, and whether the
     provider has placed a call for it *)
  line, placed,
  (* background: probes that wait, rows each sweep has loaded *)
  probes, swept, stale,
  req,       \* requests: what each loaded
  (* history: closes counted on the lead *)
  counted, stops

rowVars == <<tel, status, conv, pcid, ser>>
worldVars == <<age, rung, over>>
sweepVars == <<swept, stale>>
lineVars == <<line, placed>>
vars == <<rowVars, worldVars, lineVars, probes, sweepVars, req, counted, stops>>

-----------------------------------------------------------------------------
Active == {"dialing", "ringing", "connected"}
NoConversation == {"no_answer", "recurrent_error"}
Settled == NoConversation \union {"completed", "voicemail", "failed", "stale_in_call"}

(* _ORPHAN_STATUSES *)
OrphanStatuses == Active \union {"failed", "stale_in_call", "no_answer"}

Row(pc, kind, k, n) ==
  [pc |-> pc, kind |-> kind, k |-> k, n |-> n,
   tel |-> tel[n], status |-> status[n], conv |-> conv[n]]

Idle == [pc |-> "idle", kind |-> "postcall", k |-> 0, n |-> 0,
         tel |-> "none", status |-> "none", conv |-> 0]

TelStatus == {"none"} \union Active \union Settled
Status == {"none", "initiated", "completed", "abandoned"}

Request ==
  [pc : {"idle", "orphan", "link", "reconcile", "adopt", "close"},
   kind : {"postcall", "end"}, k : {0} \union Sessions, n : {0} \union Sessions,
   tel : TelStatus, status : Status, conv : {0} \union Sessions]

TypeOK ==
  /\ tel \in [Sessions -> TelStatus]
  /\ status \in [Sessions -> Status]
  /\ conv \in [Sessions -> {0} \union Sessions]
  /\ pcid \subseteq Sessions /\ ser \subseteq Sessions
  /\ age \in [Sessions -> 0..3]
  /\ rung \in [Sessions -> 0..2]
  /\ over \subseteq Sessions
  /\ line \in {"free", "first", "retry"} /\ placed \in BOOLEAN
  /\ probes \subseteq Sessions
  /\ swept \subseteq Sessions \X BOOLEAN
  /\ stale \subseteq Sessions
  /\ req \in [Requests -> Request]
  /\ counted \in [Sessions -> Nat]
  /\ stops \in 0..MaxStops

Dialed == {n \in Sessions : tel[n] # "none"}
Newest == Cardinality(Dialed)
InProgress(n) == line # "free" /\ n = Newest

Init ==
  /\ tel = [n \in Sessions |-> "none"]
  /\ status = [n \in Sessions |-> "none"]
  /\ conv = [n \in Sessions |-> 0]
  /\ pcid = {} /\ ser = {}
  /\ age = [n \in Sessions |-> 0]
  /\ rung = [n \in Sessions |-> 0] /\ over = {}
  /\ line = "free" /\ placed = FALSE
  /\ probes = {} /\ swept = {} /\ stale = {}
  /\ req = [h \in Requests |-> Idle]
  /\ counted = [n \in Sessions |-> 0]
  /\ stops = 0

SetTel(n, new) == tel' = [tel EXCEPT ![n] = new]

-----------------------------------------------------------------------------
(* The dial, under the lead's lock *)

(* Guard 3; the row is committed before the provider is asked. *)
Dial ==
  /\ line = "free" /\ Newest < MaxSessions
  /\ \A n \in Sessions : tel[n] \notin Active
  /\ SetTel(Newest + 1, "dialing")
  /\ status' = [status EXCEPT ![Newest + 1] = "initiated"]
  /\ line' = "first" /\ placed' = FALSE
  /\ UNCHANGED <<conv, pcid, ser, worldVars, probes, sweepVars, req, counted, stops>>

(* The request has its effect, answered or not. *)
PlaceCall ==
  /\ line # "free" /\ ~placed
  /\ placed' = TRUE
  /\ rung' = [rung EXCEPT ![Newest] = @ + 1]
  /\ UNCHANGED <<rowVars, age, over, line, probes, sweepVars, req, counted, stops>>

HangUp == line' = "free" /\ placed' = FALSE

(* Mutant of Persist: the answer is written whatever the row holds. *)
Persist_Blind(n, withConv) ==
  /\ SetTel(n, "ringing")
  /\ pcid' = pcid \union {n}
  /\ conv' = IF withConv /\ conv[n] = 0 THEN [conv EXCEPT ![n] = n] ELSE conv

(* _persist_accepted_call_session, one UPDATE: ringing only over dialing, and
   no identifier a webhook left is replaced. *)
Persist(n, withConv) ==
  /\ tel' = IF tel[n] = "dialing" THEN [tel EXCEPT ![n] = "ringing"] ELSE tel
  /\ pcid' = pcid \union {n}
  /\ conv' = IF withConv /\ conv[n] = 0 THEN [conv EXCEPT ![n] = n] ELSE conv

Accepted(withConv) ==
  /\ line # "free" /\ placed
  /\ Persist(Newest, withConv)
  /\ probes' = IF line = "first" THEN probes \union {Newest} ELSE probes
  /\ HangUp
  /\ UNCHANGED <<status, ser, worldVars, sweepVars, req, counted, stops>>

(* The provider says that nobody answered, or a permanent error: one of them is
   an answer that carries no identifier of the call it placed.  ORM writes. *)
Refused(new) ==
  /\ line = "first"
  /\ new = "no_answer" => placed
  /\ SetTel(Newest, new)
  /\ HangUp
  /\ UNCHANGED <<status, conv, pcid, ser, worldVars, probes, sweepVars, req, counted, stops>>

(* Sent, and no answer in time: failed, not retried, probed. *)
TimedOut ==
  /\ line = "first"
  /\ SetTel(Newest, "failed")
  /\ probes' = probes \union {Newest}
  /\ HangUp
  /\ UNCHANGED <<status, conv, pcid, ser, worldVars, sweepVars, req, counted, stops>>

(* 5xx, 429 or a network error: asked again, the row left as it is. *)
Transient ==
  /\ line = "first"
  /\ line' = "retry" /\ placed' = FALSE
  /\ UNCHANGED <<rowVars, worldVars, probes, sweepVars, req, counted, stops>>

(* Any error of the second attempt, a timeout too. *)
FailedTwice ==
  /\ line = "retry"
  /\ SetTel(Newest, "recurrent_error")
  /\ HangUp
  /\ UNCHANGED <<status, conv, pcid, ser, worldVars, probes, sweepVars, req, counted, stops>>

(* An exception: the row stays as it is. *)
Raises ==
  /\ line # "free"
  /\ HangUp
  /\ UNCHANGED <<rowVars, worldVars, probes, sweepVars, req, counted, stops>>

-----------------------------------------------------------------------------
(* The world: calls end, time passes.  A dial is over within five minutes, and
   so is a probe. *)

CallEnds(k) ==
  /\ rung[k] > 0 /\ k \notin over
  /\ over' = over \union {k}
  /\ UNCHANGED <<rowVars, age, rung, lineVars, probes, sweepVars, req, counted, stops>>

Tick(n) ==
  /\ n \in Dialed /\ ~InProgress(n) /\ n \notin probes
  /\ age[n] < 3
  /\ \A m \in Sessions : m < n => age[m] > age[n]
  /\ age' = [age EXCEPT ![n] = @ + 1]
  /\ UNCHANGED <<rowVars, rung, over, lineVars, probes, sweepVars, req, counted, stops>>

-----------------------------------------------------------------------------
(* Requests.  The provider delivers the webhook of an ended call at least once;
   /end names the same conversation. *)

requestUnchanged == <<worldVars, lineVars, probes, sweepVars, stops>>

ByConversation(k) == {n \in Sessions : conv[n] = k}

Goto(h, row) == req' = [req EXCEPT ![h] = row]

(* get_session_by_elevenlabs_id raises when two rows carry the conversation. *)
Arrive(h, kind, k) ==
  /\ req[h] = Idle
  /\ k \in over
  /\ Cardinality(ByConversation(k)) <= 1

Known(h, kind, k) ==
  /\ Arrive(h, kind, k)
  /\ \E n \in ByConversation(k) : Goto(h, Row("close", kind, k, n))
  /\ UNCHANGED <<rowVars, counted, requestUnchanged>>

Unknown(h, kind, k) ==
  /\ Arrive(h, kind, k)
  /\ ByConversation(k) = {}
  /\ Goto(h, [Idle EXCEPT !.pc = IF kind = "end" THEN "reconcile" ELSE "orphan",
                          !.kind = kind, !.k = k])
  /\ UNCHANGED <<rowVars, counted, requestUnchanged>>

(* Both routes may carry the provider's call id: the row that recorded it. *)
ByProviderCall(h) ==
  /\ req[h].pc \in {"orphan", "reconcile"}
  /\ req[h].k \in pcid
  /\ Goto(h, Row("link", req[h].kind, req[h].k, req[h].k))
  /\ UNCHANGED <<rowVars, counted, requestUnchanged>>

Orphans == {n \in Sessions : tel[n] \in OrphanStatuses /\ conv[n] = 0 /\ age[n] < 2}

(* _find_orphan_outbound_session: the most recent row of the lead. *)
ByLead(h) ==
  /\ req[h].pc = "orphan"
  /\ \E n \in Orphans : /\ \A m \in Orphans : m <= n
                        /\ Goto(h, Row("link", req[h].kind, req[h].k, n))
  /\ UNCHANGED <<rowVars, counted, requestUnchanged>>

(* _reconcile_session: the row with the most turns. *)
Reconcile(h) ==
  /\ req[h].pc = "reconcile"
  /\ \E n \in Sessions : /\ status[n] = "initiated" /\ conv[n] = 0 /\ age[n] < 2
                         /\ Goto(h, Row("adopt", "end", req[h].k, n))
  /\ UNCHANGED <<rowVars, counted, requestUnchanged>>

(* 404: no row, or nothing in the body to find it by. *)
NotFound(h) ==
  /\ req[h].pc \in {"orphan", "reconcile"}
  /\ req[h].pc = "orphan" => Orphans = {}
  /\ Goto(h, Idle)
  /\ UNCHANGED <<rowVars, counted, requestUnchanged>>

(* What an ORM write leaves in a column: only a changed value is written. *)
Written(loaded, new, stored) == IF new = loaded THEN stored ELSE new

(* link_outbound_session_by_webhook, on the row it loaded; it commits. *)
Link(h) ==
  LET r == req[h] IN
  /\ r.pc = "link"
  /\ IF r.tel = "completed"
     THEN UNCHANGED <<tel, conv, ser>>
     ELSE /\ SetTel(r.n, "completed")
          /\ conv' = IF r.conv = 0 THEN [conv EXCEPT ![r.n] = r.k] ELSE conv
          /\ ser' = ser \union {r.n}
  /\ Goto(h, [r EXCEPT !.pc = "close", !.tel = "completed"])
  /\ UNCHANGED <<status, pcid, counted, requestUnchanged>>

(* update_telephony_status_on_session_end *)
SessionEnd(loaded) == IF loaded \in NoConversation THEN loaded ELSE "completed"

(* The voicemail heuristic: less than thirty seconds, and nobody spoke. *)
Heuristic(n, t) ==
  IF t = "completed" /\ age[n] = 0 THEN {"completed", "voicemail"} ELSE {t}

(* close_session returns early on a completed row; the webhook calls it on an
   initiated one only. *)
Closes(r) ==
  \/ r.status = "initiated"
  \/ r.kind = "end" /\ r.status = "abandoned"

Count(n) == counted' = [counted EXCEPT ![n] = @ + 1]

Close(h) ==
  LET r == req[h] IN
  /\ r.pc = "close" /\ Closes(r)
  /\ \E t \in Heuristic(r.n, SessionEnd(r.tel)) : SetTel(r.n, Written(r.tel, t, tel[r.n]))
  /\ status' = [status EXCEPT ![r.n] = "completed"]
  /\ ser' = ser \union {r.n}
  /\ Count(r.n)
  /\ Goto(h, Idle)
  /\ UNCHANGED <<conv, pcid, requestUnchanged>>

LeaveAlone(h) ==
  /\ req[h].pc = "close" /\ ~Closes(req[h])
  /\ Goto(h, Idle)
  /\ UNCHANGED <<rowVars, counted, requestUnchanged>>

(* _reconcile_session writes the row it chose. *)
Adopt(h) ==
  LET r == req[h] IN
  /\ r.pc = "adopt"
  /\ SetTel(r.n, Written(r.tel, SessionEnd(r.tel), tel[r.n]))
  /\ status' = [status EXCEPT ![r.n] = "completed"]
  /\ conv' = [conv EXCEPT ![r.n] = r.k]
  /\ ser' = ser \union {r.n}
  /\ Count(r.n)
  /\ Goto(h, Idle)
  /\ UNCHANGED <<pcid, requestUnchanged>>

-----------------------------------------------------------------------------
(* The probe: eight seconds after the dial, it may find that the call was
   routed nowhere. *)

(* Mutant of Routable: the UPDATE does not look at the status. *)
Routable_Any(n) == TRUE

Routable(n) == tel[n] \in {"dialing", "ringing"}

Probe(n) ==
  /\ n \in probes
  /\ probes' = probes \ {n}
  /\ \/ UNCHANGED tel
     \/ Routable(n) /\ SetTel(n, "failed")
  /\ UNCHANGED <<status, conv, pcid, ser, worldVars, lineVars, sweepVars, req, counted, stops>>

(* sweep_stale_outbound_sessions: the SELECT, *)

(* Mutant of Overdue: a row left in dialing is not looked for. *)
Overdue_RingingOnly(n) == tel[n] = "ringing" /\ age[n] >= 1

Overdue(n) ==
  \/ tel[n] = "ringing" /\ age[n] >= 1
  \/ tel[n] \in {"dialing", "connected"} /\ age[n] >= 3

SelectOverdue ==
  /\ swept = {}
  /\ swept' = {<<n, n \in ser>> : n \in {m \in Sessions : Overdue(m)}}
  /\ swept' # {}
  /\ UNCHANGED <<rowVars, worldVars, lineVars, probes, stale, req, counted, stops>>

Verdict(n, evidence) == IF evidence THEN "completed" ELSE "stale_in_call"

(* and the commit. *)
Sweep ==
  /\ swept # {}
  /\ tel' = [n \in Sessions |->
               IF \E e \in BOOLEAN : <<n, e>> \in swept
               THEN Verdict(n, <<n, TRUE>> \in swept) ELSE tel[n]]
  /\ swept' = {}
  /\ UNCHANGED <<status, conv, pcid, ser, worldVars, lineVars, probes, stale, req, counted, stops>>

(* sweep_stale_sessions, likewise on status. *)

(* Mutant of Stale: outbound rows are left to the other sweep. *)
Stale_InboundOnly(n) == status[n] = "initiated" /\ age[n] >= 2 /\ tel[n] = "none"

Stale(n) == status[n] = "initiated" /\ age[n] >= 2

SelectStale ==
  /\ stale = {}
  /\ stale' = {n \in Sessions : Stale(n)}
  /\ stale' # {}
  /\ UNCHANGED <<rowVars, worldVars, lineVars, probes, swept, req, counted, stops>>

Abandon ==
  /\ stale # {}
  /\ status' = [n \in Sessions |-> IF n \in stale THEN "abandoned" ELSE status[n]]
  /\ stale' = {}
  /\ UNCHANGED <<tel, conv, pcid, ser, worldVars, lineVars, probes, swept, req, counted, stops>>

(* A process stop and restart: rows stay, everything in memory goes. *)
Stop ==
  /\ stops < MaxStops
  /\ stops' = stops + 1
  /\ HangUp
  /\ probes' = {} /\ swept' = {} /\ stale' = {}
  /\ req' = [h \in Requests |-> Idle]
  /\ UNCHANGED <<rowVars, worldVars, counted>>

-----------------------------------------------------------------------------
Answer ==
  \/ \E withConv \in BOOLEAN : Accepted(withConv)
  \/ \E new \in {"no_answer", "failed"} : Refused(new)
  \/ TimedOut \/ Transient \/ FailedTwice \/ Raises

Handle(h) ==
  \/ ByProviderCall(h) \/ ByLead(h) \/ Reconcile(h) \/ NotFound(h)
  \/ Link(h) \/ Close(h) \/ LeaveAlone(h) \/ Adopt(h)

Deliver(h, kind, k) == Known(h, kind, k) \/ Unknown(h, kind, k)

Next ==
  \/ Dial \/ PlaceCall \/ Answer
  \/ \E n \in Sessions : CallEnds(n) \/ Tick(n) \/ Probe(n)
  \/ \E h \in Requests, kind \in {"postcall", "end"}, k \in Sessions : Deliver(h, kind, k)
  \/ \E h \in Requests : Handle(h)
  \/ SelectOverdue \/ Sweep \/ SelectStale \/ Abandon
  \/ Stop

Spec == Init /\ [][Next]_vars

(* The provider's answer is bounded by a timeout, a handler by its awaits; time
   passes; the probe and the sweeps run; the provider repeats its webhook. *)
Fairness ==
  /\ WF_vars(Answer)
  /\ \A n \in Sessions : WF_vars(Tick(n)) /\ WF_vars(CallEnds(n)) /\ WF_vars(Probe(n))
  /\ \A h \in Requests : WF_vars(Handle(h))
  /\ \A k \in Sessions : SF_vars(\E h \in Requests : Deliver(h, "postcall", k))
  /\ WF_vars(SelectOverdue) /\ WF_vars(Sweep)
  /\ WF_vars(SelectStale) /\ WF_vars(Abandon)

FairSpec == Spec /\ Fairness

-----------------------------------------------------------------------------
(* What the rows promise *)

Phase(t) == CASE t = "none" -> "none" [] t \in Active -> "open" [] OTHER -> "settled"

Life == INSTANCE CallLife WITH
  phase <- [n \in Sessions |-> Phase(tel[n])], proven <- ser, ended <- over

(* Refinement: whatever the order of the answer, the webhook, the probe and the
   sweeps, a row opens once and alone, settles and never reopens, and evidence
   comes only after a call ended, never on a row that stays open: the late
   answer of the provider does not put a completed row back in ringing. *)
LifeOfCall == Life!Spec

(* Liveness: a row that blocks the next call of its lead settles, be it left in
   dialing by a stop. *)
Unblocks == Life!Settles

(* Liveness: no row stays initiated, whether its webhook comes or not. *)
GetsClosed == \A n \in Sessions : status[n] = "initiated" ~> status[n] # "initiated"

(* FAS: no row is completed without session-end evidence. *)
FASafe == \A n \in Sessions : tel[n] \in {"completed", "voicemail"} => n \in ser

(* A completed call is only taken back by the dial that was still waiting for
   the provider, or by a sweep that had loaded the row before: never by the
   probe, which asks again in its UPDATE. *)
ProbePreserves ==
  [][\A n \in Sessions :
       tel[n] = "completed" /\ tel'[n] \notin {"completed", "voicemail"} =>
         InProgress(n) \/ \E e \in BOOLEAN : <<n, e>> \in swept]_vars

-----------------------------------------------------------------------------
(* What the code says of itself and does not do *)

(* close_session: lead counters move "only on first close". *)
CountedOnce == \A n \in Sessions : counted[n] <= 1
=============================================================================
