---------------------------- MODULE AgentConfig ----------------------------
(***************************************************************************)
(* The configuration of one agent: its sparse overrides and its client's,  *)
(* kept as numbered revisions (backend/app/tenants/revisions_service.py),  *)
(* the columns of the agent's row that the voice path reads and that are   *)
(* derived from them (tenants/materialize.py), and the copy of the columns *)
(* at the voice provider, pushed by a sync (elevenlabs/service.py) and     *)
(* compared by the reconciler (elevenlabs/reconciler.py).                  *)
(*                                                                         *)
(* A request reads the client's and the agent's row, each at a moment of   *)
(* its own, and keeps what it read: the session never refreshes a loaded   *)
(* row, and an UPDATE names only the columns that differ from it.  Its     *)
(* first INSERT takes the database's write lock until the commit.  Then it *)
(* syncs, itself or by a task nobody waits for.                            *)
(*                                                                         *)
(* The agent is active and linked, and the fields are overridable fields   *)
(* that a sync sends.  Not here: what validation refuses (nothing          *)
(* changes), the callback URL a sync may add, a changed standard, and      *)
(* agents made or retired meanwhile.                                       *)
(***************************************************************************)
EXTENDS Naturals, Sequences, SequencesExt

CONSTANTS
  Fields, Values,  \* overridable fields, and what an override may set
  None,            \* no override; at the provider, no setting
  Standard,        \* AgentConfigStandard: a value or None per field
  MaxRequests,     \* bound: requests that change the configuration
  MaxFaults        \* bound: stops of the process, failed calls of the
                   \* provider, edits made at the provider

VARIABLES
  agentRevs, clientRevs, \* the revisions; the last one is the active one
  columns, status,       \* agents: the mirrored columns, elevenlabs_sync_status
  req,                   \* req[q]: where request q is, and what it loaded
  provider,              \* the provider's copy
  pass, report,          \* the reconciler's pass, and its report
  astray, disturbed, faults  \* history

revVars == <<agentRevs, clientRevs>>
rowVars == <<columns, status>>
passVars == <<pass, report>>
vars == <<revVars, rowVars, req, provider, passVars, astray, disturbed, faults>>

-----------------------------------------------------------------------------
Requests == 1 .. MaxRequests

Configs == [Fields -> Values \union {None} \union {Standard[f] : f \in Fields}]
Unset == [f \in Fields |-> None]

ASSUME ConfigAssumption ==
  MaxRequests \in Nat /\ MaxFaults \in Nat /\ Standard \in Configs

NoRequest ==
  [pc |-> "none", on |-> "agent", client |-> 0, agent |-> 0, cols |-> Unset,
   mark |-> "synced", outcome |-> "synced", clean |-> FALSE]

NoPass == [on |-> FALSE, cols |-> Unset]

Outcomes == {"synced", "drift", "error"}
PCs == {"none", "client", "agent", "write", "saved", "ready",
        "committed", "pushing", "checking", "closing", "done"}

TypeOK ==
  /\ agentRevs \in Seq(Configs) /\ Len(agentRevs) > 0
  /\ clientRevs \in Seq(Configs)
  /\ columns \in Configs /\ provider \in Configs
  /\ status \in Outcomes /\ report \in {"in_sync", "drift", "error"}
  /\ req \in [Requests ->
       [pc : PCs, on : {"agent", "client", "resync"}, client : 0 .. Len(clientRevs),
        agent : 0 .. Len(agentRevs), cols : Configs, mark : Outcomes,
        outcome : Outcomes, clean : BOOLEAN]]
  /\ pass \in [on : BOOLEAN, cols : Configs]
  /\ astray \in BOOLEAN /\ disturbed \in BOOLEAN /\ faults \in 0 .. MaxFaults

Fault == faults < MaxFaults /\ faults' = faults + 1

-----------------------------------------------------------------------------
(* resolve_effective_config: the agent's override, the client's, the standard. *)
Effective(own, clients) ==
  [f \in Fields |-> IF own[f] # None THEN own[f]
                    ELSE IF clients[f] # None THEN clients[f] ELSE Standard[f]]

ClientRev(n) == IF n = 0 THEN Unset ELSE clientRevs[n]

(* What the provider keeps of a PATCH (a column that is NULL is not sent), and
   the comparison of what was sent with what it has. *)
Patched(cols) == [f \in Fields |-> IF cols[f] # None THEN cols[f] ELSE provider[f]]
Agrees(cols) == \A f \in Fields : cols[f] # None => provider[f] = cols[f]

(* The first revision is created with the agent and pins what its columns hold;
   the second has made every field inherit.  Their syncs are over. *)
Init ==
  /\ agentRevs = <<Standard, Unset>> /\ clientRevs = <<>>
  /\ columns = Standard /\ status = "synced" /\ provider = Standard
  /\ req = [q \in Requests |-> NoRequest]
  /\ pass = NoPass /\ report = "in_sync"
  /\ astray = FALSE /\ disturbed = FALSE /\ faults = 0

-----------------------------------------------------------------------------
(* What a request reads. *)

(* A request that commits keeps nothing of what it loaded. *)
Over(pc) == [NoRequest EXCEPT !.pc = pc]

Begin(q, on) ==
  /\ req[q].pc = "none" /\ \A p \in Requests : p < q => req[p].pc # "none"
  /\ req' = [req EXCEPT ![q].pc = CASE on = "agent" -> "client" [] on = "client" -> "write"
                                    [] on = "resync" -> "agent",
                        ![q].on = on,
                        ![q].client = IF on = "resync" THEN 0 ELSE Len(clientRevs),
                        ![q].agent = IF on = "resync" THEN Len(agentRevs) ELSE 0,
                        ![q].cols = IF on = "resync" THEN columns ELSE Unset]
  /\ UNCHANGED <<revVars, rowVars, provider, passVars, astray, disturbed, faults>>

(* _require_agent after _require_client; list_agents_for_client after the
   client's own commit. *)
LoadAgent(q) ==
  /\ req[q].pc \in {"client", "saved"}
  /\ req' = [req EXCEPT ![q].pc = IF req[q].pc = "client" THEN "write" ELSE "ready",
                        ![q].agent = Len(agentRevs), ![q].cols = columns]
  /\ UNCHANGED <<revVars, rowVars, provider, passVars, astray, disturbed, faults>>

(* resync_standard meets the client's row after the agents'. *)
ReadClient(q) ==
  /\ req[q].pc = "agent"
  /\ req' = [req EXCEPT ![q].pc = "ready", ![q].client = Len(clientRevs)]
  /\ UNCHANGED <<revVars, rowVars, provider, passVars, astray, disturbed, faults>>

-----------------------------------------------------------------------------
(* What it writes. *)

(* A patch sets or removes an override in what the request loaded; a rollback
   copies an earlier revision. *)
Written(base, revs) ==
  {[base EXCEPT ![f] = v] : f \in Fields, v \in Values \union {None}}
    \union {revs[t] : t \in DOMAIN revs}

(* A mutant: a field that no longer has a value is not mirrored. *)
Mirrored_SetOnly(q, effective) ==
  [f \in Fields |-> IF effective[f] \notin {None, req[q].cols[f]}
                    THEN effective[f] ELSE columns[f]]

(* materialize_agent_config, and the UPDATE its flush emits. *)
Mirrored(q, effective) ==
  [f \in Fields |-> IF effective[f] # req[q].cols[f] THEN effective[f] ELSE columns[f]]

(* Nothing the columns are derived from moved since the request loaded it. *)
Fresh(q) ==
  /\ req[q].cols = columns /\ req[q].client = Len(clientRevs)
  /\ req[q].pc = "ready" => req[q].agent = Len(agentRevs)

(* A sync that has read and not closed is no longer alone when another one
   writes, or when the columns change. *)
Disturb(q, after, others) ==
  req' = [p \in Requests |->
            IF p = q THEN after
            ELSE [req[p] EXCEPT !.clean = @ /\ ~others]]

(* patch_agent_config, update_agent, rollback_agent_config up to their commit. *)
WriteAgent(q) ==
  /\ req[q].pc = "write" /\ req[q].on = "agent"
  /\ \E new \in Written(agentRevs[req[q].agent], agentRevs) :
       /\ agentRevs' = Append(agentRevs, new)
       /\ columns' = Mirrored(q, Effective(new, ClientRev(req[q].client)))
  /\ astray' = ~Fresh(q)
  /\ Disturb(q, Over("committed"), columns' # columns)
  /\ UNCHANGED <<clientRevs, status, provider, passVars, disturbed, faults>>

(* patch_client_config, rollback_client_config up to their first commit. *)
WriteClient(q) ==
  /\ req[q].pc = "write" /\ req[q].on = "client"
  /\ \E new \in Written(ClientRev(req[q].client), clientRevs) :
       clientRevs' = Append(clientRevs, new)
  /\ astray' = TRUE
  /\ req' = [req EXCEPT ![q].pc = "saved", ![q].client = Len(clientRevs) + 1]
  /\ UNCHANGED <<agentRevs, rowVars, provider, passVars, disturbed, faults>>

(* The number was taken after the request counted: the INSERT fails. *)
Collide(q) ==
  /\ req[q].pc = "write"
  /\ IF req[q].on = "agent" THEN req[q].agent # Len(agentRevs)
                            ELSE req[q].client # Len(clientRevs)
  /\ req' = [req EXCEPT ![q] = Over("done")]
  /\ UNCHANGED <<revVars, rowVars, provider, passVars, astray, disturbed, faults>>

(* A mutant: both snapshots are taken after the mirroring, and never differ. *)
Propagate_NoSync(q) ==
  /\ req[q].pc = "ready"
  /\ columns' = Mirrored(q, Effective(agentRevs[req[q].agent], ClientRev(req[q].client)))
  /\ Disturb(q, Over("done"), columns' # columns)
  /\ astray' = ~Fresh(q)
  /\ UNCHANGED <<revVars, status, provider, passVars, disturbed, faults>>

(* _materialize_and_propagate and resync_standard: the agents' commit, and a
   sync only where a column changed. *)
Propagate(q) ==
  /\ req[q].pc = "ready"
  /\ LET effective == Effective(agentRevs[req[q].agent], ClientRev(req[q].client)) IN
       /\ columns' = Mirrored(q, effective)
       /\ Disturb(q, Over(IF effective # req[q].cols THEN "committed" ELSE "done"),
                  columns' # columns)
  /\ astray' = ~Fresh(q)
  /\ UNCHANGED <<revVars, status, provider, passVars, disturbed, faults>>

-----------------------------------------------------------------------------
(* sync_agent_config, by the request or by a task of its own. *)

ReadColumns(q) ==
  /\ req[q].pc = "committed"
  /\ req' = [req EXCEPT ![q].pc = "pushing", ![q].cols = columns,
                        ![q].mark = status, ![q].clean = TRUE]
  /\ UNCHANGED <<revVars, rowVars, provider, passVars, astray, disturbed, faults>>

(* _patch_with_retry: accepted; or given up, and then it may have applied. *)
Push(q) ==
  /\ req[q].pc = "pushing"
  /\ provider' = Patched(req[q].cols)
  /\ Disturb(q, [req[q] EXCEPT !.pc = "checking"], TRUE)
  /\ UNCHANGED <<revVars, rowVars, passVars, astray, disturbed, faults>>

PushFails(q) ==
  /\ req[q].pc = "pushing" /\ Fault
  /\ provider' \in {provider, Patched(req[q].cols)}
  /\ Disturb(q, [req[q] EXCEPT !.pc = "closing", !.outcome = "error"], TRUE)
  /\ UNCHANGED <<revVars, rowVars, passVars, astray, disturbed>>

(* _verify_synced_config: what was sent against what the provider has now. *)
Verify(q) ==
  /\ req[q].pc = "checking"
  /\ req' = [req EXCEPT ![q].pc = "closing", ![q].outcome = IF Agrees(req[q].cols) THEN "synced" ELSE "drift"]
  /\ UNCHANGED <<revVars, rowVars, provider, passVars, astray, disturbed, faults>>

VerifyFails(q) ==
  /\ req[q].pc = "checking" /\ Fault
  /\ req' = [req EXCEPT ![q].pc = "closing", ![q].outcome = "error"]
  /\ UNCHANGED <<revVars, rowVars, provider, passVars, astray, disturbed>>

(* The status the sync loaded is not written again. *)
Close(q) ==
  /\ req[q].pc = "closing"
  /\ status' = IF req[q].outcome # req[q].mark THEN req[q].outcome ELSE status
  /\ Disturb(q, Over("done"), TRUE)
  /\ disturbed' = (~req[q].clean \/ (disturbed /\ req[q].outcome # "synced"))
  /\ UNCHANGED <<revVars, columns, provider, passVars, astray, faults>>

-----------------------------------------------------------------------------
(* The reconciler: it loads the rows, fetches, and reports; it never pushes. *)

LoadRows ==
  /\ ~pass.on
  /\ pass' = [on |-> TRUE, cols |-> columns]
  /\ UNCHANGED <<revVars, rowVars, req, provider, report, astray, disturbed, faults>>

(* A mutant: the report repeats what the last sync said. *)
Reconcile_ByStatus ==
  /\ pass.on
  /\ report' = IF status = "drift" THEN "drift" ELSE "in_sync"
  /\ pass' = NoPass
  /\ UNCHANGED <<revVars, rowVars, req, provider, astray, disturbed, faults>>

Reconcile ==
  /\ pass.on
  /\ report' = IF Agrees(pass.cols) THEN "in_sync" ELSE "drift"
  /\ pass' = NoPass
  /\ UNCHANGED <<revVars, rowVars, req, provider, astray, disturbed, faults>>

FetchFails ==
  /\ pass.on /\ Fault
  /\ report' = "error" /\ pass' = NoPass
  /\ UNCHANGED <<revVars, rowVars, req, provider, astray, disturbed>>

-----------------------------------------------------------------------------
(* Somebody changes the agent in the provider's dashboard. *)
EditAtProvider ==
  /\ Fault
  /\ \E f \in Fields, v \in Values :
       /\ v # provider[f]
       /\ provider' = [provider EXCEPT ![f] = v]
  /\ disturbed' = TRUE
  /\ req' = [q \in Requests |-> [req[q] EXCEPT !.clean = FALSE]]
  /\ UNCHANGED <<revVars, rowVars, passVars, astray>>

(* The process stops.  What a push did before is PushFails. *)
Stop ==
  /\ Fault
  /\ \E q \in Requests : req[q].pc \notin {"none", "done"}
  /\ disturbed' = (disturbed \/ \E q \in Requests :
                     req[q].pc \in {"committed", "pushing", "checking", "closing"})
  /\ req' = [q \in Requests |->
               IF req[q].pc = "none" THEN req[q] ELSE Over("done")]
  /\ pass' = NoPass
  /\ UNCHANGED <<revVars, rowVars, provider, report, astray>>

-----------------------------------------------------------------------------
Serve(q) ==
  \/ LoadAgent(q) \/ ReadClient(q)
  \/ WriteAgent(q) \/ WriteClient(q) \/ Collide(q) \/ Propagate(q)
  \/ ReadColumns(q) \/ Push(q) \/ PushFails(q) \/ Verify(q) \/ VerifyFails(q) \/ Close(q)

Tick == LoadRows \/ Reconcile \/ FetchFails

Next ==
  \/ \E q \in Requests :
       \/ \E on \in {"agent", "client", "resync"} : Begin(q, on)
       \/ Serve(q)
  \/ Tick
  \/ EditAtProvider
  \/ Stop

Spec == Init /\ [][Next]_vars

(* reconciler_tick runs for as long as the process, and survives its errors. *)
FairSpec == Spec /\ WF_vars(Tick)

-----------------------------------------------------------------------------
Quiet == \A q \in Requests : req[q].pc \in {"none", "done"}

(* Once a write of the columns has met nothing that moved since it loaded it,
   and until a client's change commits or a write meets something that did, the
   columns the voice path reads are what the active revisions resolve to: an
   override removed shows the client's value, one rolled back the old one. *)
ColumnsFollow ==
  ~astray => columns = Effective(Last(agentRevs), ClientRev(Len(clientRevs)))

(* With no request under way, a status of synced is true of every column that is
   not NULL, unless since the last undisturbed sync two syncs overlapped, the
   process stopped within one, or somebody edited the provider's copy. *)
SyncedIsTrue ==
  Quiet /\ ~disturbed /\ status = "synced" => Agrees(columns)

(* A sync that failed or came too late is not tried again; what is left is the
   reconciler, whose report sooner or later says of a lasting difference that
   there is one. *)
DriftIsReported == (~Agrees(columns)) ~> (Agrees(columns) \/ report = "drift")

=============================================================================
