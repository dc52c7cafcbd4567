----------------------------- MODULE VoiceTurns -----------------------------
(***************************************************************************)
(* The turns of the calls of one lead: the Custom-LLM webhook of the voice *)
(* provider (backend/app/voice/webhook.py), its in-memory session store    *)
(* (voice/session.py), and the call_sessions rows the turns are written to *)
(* and merged between (calls/service.py, sweeper.py).                      *)
(*                                                                         *)
(* A request looks its conversation up, builds its context, makes sure of  *)
(* a row, and streams; each of these is an await during which the call's   *)
(* other requests, the store's cleanup and the webhooks that close the row *)
(* may run.  A user turn is written by a task nobody waits for.            *)
(*                                                                         *)
(* Not here: the tools a reply runs, the prompt, a request that names no   *)
(* lead or is turned away before its row (unknown client or agent: nothing *)
(* changes), and the row a dial writes before its call (OutboundCall).     *)
(***************************************************************************)
EXTENDS Naturals, Sequences, FiniteSets

CONSTANTS
  MaxCalls,   \* bound: calls of the lead
  Carrying,   \* the calls whose requests name their conversation
  Requests,   \* bound: <<c, t>>, the t-th request of call c
  MaxRows,    \* bound: call_sessions rows
  MaxFaults,  \* bound: failed writes, broken or slow streams, stops of the process,
              \* and the sweeps that come while a call may still run
  SoleAgent   \* the client has one active agent (or it has several)

VARIABLES
  call,            \* the provider's calls
  store, entry,    \* SessionStore: the entries in it, of all ever made
  req,             \* req[q]: where request q is, its entry and its row
  user,            \* user[q]: the row a task is to write the user's turn to, or 0
  row, turn,       \* call_sessions; the row a turn is in, 0 if it is in none
  lost, raced, faults  \* history

storeVars == <<store, entry>>
rowVars == <<row, turn>>
countVars == <<lost, raced>>
vars == <<call, storeVars, req, user, rowVars, countVars, faults>>

-----------------------------------------------------------------------------
Calls == 1 .. MaxCalls
Rows == 1 .. MaxRows

ASSUME VoiceTurnsAssumption ==
  /\ MaxCalls \in Nat /\ MaxRows \in Nat /\ MaxFaults \in Nat
  /\ Carrying \subseteq Calls /\ SoleAgent \in BOOLEAN
  /\ IsFiniteSet(Requests) /\ Requests \subseteq Calls \X (Nat \ {0})

Made == 1 .. Len(row)
At(pc) == [pc |-> pc, entry |-> 0, row |-> 0, conv |-> 0]

(* What a request may say: the user's turn and the agent's reply to it. *)
Turns == Requests \X {"user", "agent"}
CallOf(t) == t[1][1]
In(r) == {t \in Turns : turn[t] = r}

Entries == [key : {0} \union Calls, row : {0} \union Rows, turns : Nat]

Sessions ==
  [by : Calls, conv : {0} \union Calls, status : {"initiated", "abandoned", "completed"},
   merged : {0} \union Rows, counted : Nat, late : Nat]

TypeOK ==
  /\ call \in [Calls -> {"none", "live", "over"}]
  /\ entry \in Seq(Entries) /\ store \subseteq 1 .. Len(entry)
  /\ \A d, e \in store : entry[d].key = entry[e].key /\ entry[d].key # 0 => d = e
  /\ req \in [Requests -> [pc : {"none", "creating", "streaming", "done", "refused"},
                           entry : 0 .. Len(entry), row : 0 .. Len(row),
                           conv : {0} \union Calls]]
  /\ user \in [Requests -> 0 .. Len(row)]
  /\ row \in Seq(Sessions) /\ Len(row) <= MaxRows
  /\ turn \in [Turns -> 0 .. Len(row)]
  /\ lost \in [Calls -> Nat] /\ raced \in [Calls -> Nat]
  /\ faults \in 0 .. MaxFaults

Init ==
  /\ call = [c \in Calls |-> "none"]
  /\ store = {} /\ entry = <<>>
  /\ req = [q \in Requests |-> At("none")]
  /\ user = [q \in Requests |-> 0]
  /\ row = <<>> /\ turn = [t \in Turns |-> 0]
  /\ lost = [c \in Calls |-> 0] /\ raced = [c \in Calls |-> 0]
  /\ faults = 0

Fault == faults < MaxFaults /\ faults' = faults + 1

-----------------------------------------------------------------------------
(* create_session: a row that a request of call c asks for.  counted is the sum
   of total_user_turns and total_agent_turns, which only a close writes; late is
   history: the turns written once it was closed. *)
NewRow(c, conv) ==
  [by |-> c, conv |-> conv, status |-> "initiated", merged |-> 0,
   counted |-> 0, late |-> 0]

(* add_transcript_turn: nothing asks whether the row is still open. *)
AddTurn(r, q, speaker) ==
  /\ turn' = [turn EXCEPT ![<<q, speaker>>] = r]
  /\ row' = IF row[r].status = "completed" THEN [row EXCEPT ![r].late = @ + 1] ELSE row

-----------------------------------------------------------------------------
(* The provider. *)

Begin(c) ==
  /\ call[c] = "none" /\ \A d \in Calls : d < c => call[d] # "none"
  /\ call' = [call EXCEPT ![c] = "live"]
  /\ UNCHANGED <<storeVars, req, user, rowVars, countVars, faults>>

(* initiation_webhook: the conversation's context is cached, without a row. *)
Initiate(c) ==
  /\ call[c] = "live" /\ \A q \in Requests : q[1] = c => req[q].pc = "none"
  /\ \A e \in store : entry[e].key # c
  /\ entry' = Append(entry, [key |-> c, row |-> 0, turns |-> 0])
  /\ store' = store \union {Len(entry) + 1}
  /\ UNCHANGED <<call, req, user, rowVars, countVars, faults>>

-----------------------------------------------------------------------------
(* A request. *)

(* find_by_client_lead: the entry with the most turns, of those the newest. *)
Busiest ==
  {e \in store : \A d \in store :
     \/ entry[d].turns < entry[e].turns
     \/ entry[d].turns = entry[e].turns /\ d <= e}

(* Mutant: the lead's busiest conversation, whatever the request names. *)
Found_ByLead(c) == Busiest

(* The lookup of _process_custom_llm_request: by the conversation's id, or by
   the lead when the request names none. *)
Found(c) == IF c \in Carrying THEN {e \in store : entry[e].key = c} ELSE Busiest

(* What the row will hold: the id the request names, or the one the entry found
   for the lead was initiated under (key 0 stands for "demo-..."). *)
ConvOf(c, e) ==
  IF c \in Carrying THEN c ELSE IF e # 0 THEN entry[e].key ELSE 0

HasRow(e) == e # 0 /\ entry[e].row # 0

(* generate(): the user's turn is handed to a task, and the reply streams. *)
Stream(q, e, r) ==
  /\ req' = [req EXCEPT ![q] = [pc |-> "streaming", entry |-> e, row |-> r, conv |-> 0]]
  /\ user' = [user EXCEPT ![q] = r]

(* The entry has a row, or the request asks for one, as a sibling that found the
   same may be doing. *)
Ask(q) ==
  /\ call[q[1]] = "live" /\ req[q].pc = "none"
  /\ \A t \in 1 .. q[2] - 1 : req[<<q[1], t>>].pc # "none"
  /\ \E e \in IF Found(q[1]) = {} THEN {0} ELSE Found(q[1]) :
       IF HasRow(e)
       THEN Stream(q, e, entry[e].row) /\ UNCHANGED raced
       ELSE /\ req' = [req EXCEPT ![q] =
                         [pc |-> "creating", entry |-> e, row |-> 0, conv |-> ConvOf(q[1], e)]]
            /\ raced' = IF \E p \in Requests : p[1] = q[1] /\ req[p].pc = "creating"
                        THEN [raced EXCEPT ![q[1]] = @ + 1] ELSE raced
            /\ UNCHANGED user
  /\ UNCHANGED <<call, storeVars, rowVars, lost, faults>>

(* On the cached path the request's agent was never loaded, and create_session
   must guess it. *)
AgentKnown(q) == req[q].entry = 0 \/ SoleAgent

(* Mutant: the row is not remembered by the entry that was found. *)
Attach_Forgets(q, r) ==
  /\ IF req[q].entry = 0
     THEN /\ entry' = Append(entry, [key |-> req[q].conv, row |-> r, turns |-> 0])
          /\ store' = {e \in store : entry[e].key # req[q].conv \/ req[q].conv = 0}
                        \union {Len(entry) + 1}
          /\ Stream(q, Len(entry) + 1, r)
     ELSE /\ UNCHANGED storeVars
          /\ Stream(q, req[q].entry, r)

(* Mutant: the entry that had the key stays in the store as well. *)
Attach_Keeps(q, r) ==
  IF req[q].entry = 0
  THEN /\ entry' = Append(entry, [key |-> req[q].conv, row |-> r, turns |-> 0])
       /\ store' = store \union {Len(entry) + 1}
       /\ Stream(q, Len(entry) + 1, r)
  ELSE /\ entry' = [entry EXCEPT ![req[q].entry].row = r]
       /\ UNCHANGED store
       /\ Stream(q, req[q].entry, r)

(* Backfill of the entry that was found, or a new one in its key's place. *)
Attach(q, r) ==
  IF req[q].entry = 0
  THEN /\ entry' = Append(entry, [key |-> req[q].conv, row |-> r, turns |-> 0])
       /\ store' = {e \in store : entry[e].key # req[q].conv \/ req[q].conv = 0}
                     \union {Len(entry) + 1}
       /\ Stream(q, Len(entry) + 1, r)
  ELSE /\ entry' = [entry EXCEPT ![req[q].entry].row = r]
       /\ UNCHANGED store
       /\ Stream(q, req[q].entry, r)

Create(q) ==
  /\ req[q].pc = "creating" /\ AgentKnown(q)
  /\ Len(row) < MaxRows
  /\ row' = Append(row, NewRow(q[1], req[q].conv))
  /\ Attach(q, Len(row) + 1)
  /\ UNCHANGED <<call, turn, countVars, faults>>

(* The agent is ambiguous, or the write fails: the request is answered by 500. *)
Refuse(q) ==
  /\ req[q].pc = "creating"
  /\ AgentKnown(q) => faults < MaxFaults
  /\ faults' = IF AgentKnown(q) THEN faults + 1 ELSE faults
  /\ req' = [req EXCEPT ![q] = At("refused")]
  /\ UNCHANGED <<call, storeVars, user, rowVars, countVars>>

(* What the store has under the request's key, which may be a later entry. *)
Current(q) ==
  {e \in store : e = req[q].entry \/ (entry[e].key # 0 /\ entry[e].key = entry[req[q].entry].key)}

(* increment_turn *)
CountTurn(q) ==
  entry' = [e \in 1 .. Len(entry) |->
              IF e \in Current(q) THEN [entry[e] EXCEPT !.turns = @ + 1] ELSE entry[e]]

(* The reply ends, is written, and the entry counts the turn. *)
Reply(q) ==
  /\ req[q].pc = "streaming"
  /\ req' = [req EXCEPT ![q] = At("done")]
  /\ AddTurn(req[q].row, q, "agent")
  /\ CountTurn(q)
  /\ UNCHANGED <<call, store, user, countVars, faults>>

(* Its sixty seconds pass: what was said is written, and nothing is counted. *)
ReplyTimesOut(q) ==
  /\ req[q].pc = "streaming" /\ Fault
  /\ req' = [req EXCEPT ![q] = At("done")]
  /\ AddTurn(req[q].row, q, "agent")
  /\ UNCHANGED <<call, storeVars, user, countVars>>

(* The agent's turn is gone: the stream breaks, or only the write fails, which
   is swallowed, and the turn is counted all the same. *)
ReplyLost(q) ==
  /\ req[q].pc = "streaming" /\ Fault
  /\ req' = [req EXCEPT ![q] = At("done")]
  /\ UNCHANGED entry \/ CountTurn(q)
  /\ UNCHANGED <<call, store, user, rowVars, countVars>>

SaveUserTurn(q) ==
  /\ user[q] # 0
  /\ user' = [user EXCEPT ![q] = 0]
  /\ AddTurn(user[q], q, "user")
  /\ UNCHANGED <<call, storeVars, req, countVars, faults>>

(* _persist_user_turn: both of its tries failed.  That one did changes nothing
   but the time. *)
UserTurnFails(q) ==
  /\ user[q] # 0 /\ Fault
  /\ user' = [user EXCEPT ![q] = 0]
  /\ UNCHANGED <<call, storeVars, req, rowVars, countVars>>

-----------------------------------------------------------------------------
(* Closing a row. *)

(* The siblings of r that _merge_sibling_sessions may take.  The window of ten
   minutes around r's start is any subset of them. *)
Siblings_Any(r) ==
  {s \in Made \ {r} : row[s].status \in {"initiated", "abandoned"} /\ row[s].merged = 0}

Siblings(r) == {s \in Siblings_Any(r) : row[s].conv = 0}

(* The turns of the siblings are reassigned to r. *)
Merged(r, S) == [t \in Turns |-> IF turn[t] \in S THEN r ELSE turn[t]]

(* Mutant: counted before the siblings' turns have moved. *)
Count_BeforeMerge(r, S) == Cardinality(In(r))

(* count_turns, once the turns of the siblings S are the row's own. *)
Count(r, S) == Cardinality({t \in Turns : turn[t] \in S \union {r}})

(* close_session on a row that is not completed; `conv` is set by the
   reconciliation only. *)
Close(r, conv) ==
  /\ row[r].status # "completed"
  /\ \E S \in SUBSET Siblings(r) :
       /\ row' = [s \in Made |->
                    IF s = r THEN [row[r] EXCEPT !.status = "completed", !.conv = conv,
                                                 !.counted = Count(r, S)]
                    ELSE IF s \in S THEN [row[s] EXCEPT !.merged = r] ELSE row[s]]
       /\ turn' = Merged(r, S)
  /\ UNCHANGED <<storeVars, req, user, countVars, faults>>

(* The call is over when something tells the program so. *)
Over(c) == call[c] # "none" /\ call' = [call EXCEPT ![c] = "over"]

RowsOf(c) == {r \in Made : row[r].conv = c}

(* Both ways to end a call begin with scalar_one_or_none: two rows under one
   conversation are an error, and nothing is closed. *)
EndById(c) ==
  /\ Over(c)
  /\ \E r \in Made : RowsOf(c) = {r} /\ Close(r, c)

(* The post-call webhook closes a row only from initiated. *)
PostCall(c) ==
  /\ Over(c)
  /\ \E r \in Made : RowsOf(c) = {r} /\ row[r].status = "initiated" /\ Close(r, c)

(* The /end route, given a row's own id. *)
EndByRow(r) ==
  /\ Over(row[r].by)
  /\ Close(r, row[r].conv)

(* _reconcile_session: the newest initiated row of the lead without an id; the
   counters it orders by are written only by a close. *)
Reconcile(c) ==
  /\ Over(c) /\ RowsOf(c) = {}
  /\ \E r \in Made :
       /\ row[r].status = "initiated" /\ row[r].conv = 0
       /\ \A s \in Made : row[s].status = "initiated" /\ row[s].conv = 0 => s <= r
       /\ Close(r, c)

(* sweep_stale_sessions: after ten minutes, whether the call still runs or not. *)
Abandon(r) ==
  /\ row[r].status = "initiated" /\ Fault
  /\ row' = [row EXCEPT ![r].status = "abandoned"]
  /\ UNCHANGED <<call, storeVars, req, user, turn, countVars>>

-----------------------------------------------------------------------------
(* Time and stops. *)

Live == {c \in Calls : call[c] = "live"}

(* cleanup_expired: five minutes after the entry was made, used or not.  A
   call's first request comes sooner than that. *)
Expire(e) ==
  /\ entry[e].row # 0
  /\ Fault
  /\ store' = store \ {e}
  /\ lost' = [c \in Calls |->
                IF c \in Live /\ (c \in Carrying => entry[e].key = c) THEN lost[c] + 1 ELSE lost[c]]
  /\ UNCHANGED <<call, entry, req, user, rowVars, raced>>

(* The process stops: the store, the requests and the tasks are gone. *)
Stop ==
  /\ Fault
  /\ store' = {}
  /\ req' = [q \in Requests |->
               IF req[q].pc \in {"none", "done", "refused"} THEN req[q]
               ELSE At("refused")]
  /\ user' = [q \in Requests |-> 0]
  /\ lost' = [c \in Calls |-> IF c \in Live THEN lost[c] + 1 ELSE lost[c]]
  /\ UNCHANGED <<call, entry, rowVars, raced>>

-----------------------------------------------------------------------------
RequestSteps(q) == Create(q) \/ Refuse(q) \/ Reply(q) \/ ReplyTimesOut(q) \/ ReplyLost(q)

Next ==
  \/ \E c \in Calls :
       Begin(c) \/ Initiate(c) \/ EndById(c) \/ PostCall(c) \/ Reconcile(c)
  \/ \E q \in Requests :
       Ask(q) \/ RequestSteps(q) \/ SaveUserTurn(q) \/ UserTurnFails(q)
  \/ \E r \in Made : EndByRow(r) \/ Abandon(r)
  \/ \E e \in store : Expire(e)
  \/ Stop

Spec == Init /\ [][Next]_vars

-----------------------------------------------------------------------------
(* Properties *)

(* The turns of a call whose requests name its conversation are in rows of that
   conversation, whatever other calls of the lead were merged, reconciled or
   closed meanwhile (issue 22). *)
TurnsStayInTheirCall ==
  \A t \in Turns : turn[t] # 0 /\ CallOf(t) \in Carrying => row[turn[t]].conv = CallOf(t)

(* The totals of a closed row are those of its turns, the ones its close took
   from siblings included, however often other rows are closed, merged and
   reconciled later.  What they miss is what a task or a reply that nobody
   waited for wrote after the close. *)
ClosedRowsCountTheirTurns ==
  \A r \in Made : row[r].status = "completed" =>
    row[r].counted + row[r].late = Cardinality(In(r))

(* A call makes one row, unless its entry was cleaned up or lost with the
   process, or two of its requests both found none (VSC-8, where every turn
   made one).  Not so the requests of a call that name nothing, once the lead
   has another call: they join whichever conversation is the busiest. *)
OneRowPerCall ==
  \A c \in Calls :
    c \in Carrying \/ (\A d \in Calls \ {c} : call[d] = "none") =>
      Cardinality({r \in Made : row[r].by = c}) <= 1 + lost[c] + raced[c]
=============================================================================
