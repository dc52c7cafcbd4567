---------------------------- MODULE ConfigProofs ----------------------------
(* The configuration that calls run under.  AgentConfig, for any fields, values,
   standard, number of requests and of faults: the columns follow the active
   revisions, and a status of synced is true.  CrmConfig, for any credentials,
   configurations, time to live and number of requests and readers: what the
   cache serves is recent, the status is true, a change dies with the row it was
   meant for. *)
EXTENDS AgentConfig, CrmConfig, TLAPS

-----------------------------------------------------------------------------
(* The agent. *)

(* Who reads agentRevs[req[q].agent] has loaded it. *)
Loaded ==
  \A q \in Requests :
    /\ req[q].pc \in {"agent", "ready"} => req[q].agent > 0
    /\ req[q].pc = "write" /\ req[q].on = "agent" => req[q].agent > 0

Inv == TypeOK /\ Loaded

Entry(n, m) ==
  [pc : PCs, on : {"agent", "client", "resync"}, client : 0 .. n, agent : 0 .. m,
   cols : Configs, mark : Outcomes, outcome : Outcomes, clean : BOOLEAN]

-----------------------------------------------------------------------------
(* What the operators return. *)

LEMMA UnsetIsConfig == Unset \in Configs
BY DEF Unset, Configs

LEMMA NoRequestIsEntry ==
  ASSUME NEW n \in Nat, NEW m \in Nat
  PROVE  NoRequest \in Entry(n, m)
BY UnsetIsConfig DEF NoRequest, Entry, PCs, Outcomes

LEMMA OverIsEntry ==
  ASSUME NEW n \in Nat, NEW m \in Nat, NEW pc \in PCs
  PROVE  Over(pc) \in Entry(n, m) /\ Over(pc).pc = pc
BY NoRequestIsEntry DEF Over, NoRequest, Entry

LEMMA EntriesGrow ==
  ASSUME NEW n \in Nat, NEW m \in Nat, NEW i \in Nat, NEW j \in Nat, n <= i, m <= j
  PROVE  Entry(n, m) \subseteq Entry(i, j)
BY DEF Entry

LEMMA BegunIsEntry ==
  ASSUME NEW n \in Nat, NEW m \in Nat, NEW e \in Entry(n, m), NEW pc \in PCs,
         NEW a \in 0 .. m, NEW c \in 0 .. n, NEW cols \in Configs,
         NEW on \in {"agent", "client", "resync"}
  PROVE  [e EXCEPT !.pc = pc, !.on = on, !.client = c, !.agent = a, !.cols = cols]
           \in Entry(n, m)
BY DEF Entry

LEMMA LoadedIsEntry ==
  ASSUME NEW n \in Nat, NEW m \in Nat, NEW e \in Entry(n, m), NEW pc \in PCs,
         NEW a \in 0 .. m, NEW cols \in Configs
  PROVE  [e EXCEPT !.pc = pc, !.agent = a, !.cols = cols] \in Entry(n, m)
BY DEF Entry

LEMMA ClientReadIsEntry ==
  ASSUME NEW n \in Nat, NEW m \in Nat, NEW e \in Entry(n, m), NEW pc \in PCs,
         NEW c \in 0 .. n
  PROVE  [e EXCEPT !.pc = pc, !.client = c] \in Entry(n, m)
BY DEF Entry

LEMMA EffectiveIsConfig ==
  ASSUME NEW own \in Configs, NEW clients \in Configs
  PROVE  Effective(own, clients) \in Configs
BY ConfigAssumption DEF Effective, Configs

LEMMA ClientRevIsConfig ==
  ASSUME TypeOK, NEW n \in 0 .. Len(clientRevs)
  PROVE  ClientRev(n) \in Configs
BY UnsetIsConfig DEF ClientRev, TypeOK

LEMMA MirroredIsConfig ==
  ASSUME TypeOK, NEW q \in Requests, NEW effective \in Configs
  PROVE  Mirrored(q, effective) \in Configs
BY DEF Mirrored, TypeOK, Configs

LEMMA PatchedIsConfig ==
  ASSUME TypeOK, NEW cols \in Configs
  PROVE  Patched(cols) \in Configs
BY DEF Patched, TypeOK, Configs

LEMMA WrittenAreConfigs ==
  ASSUME NEW base \in Configs, NEW revs \in Seq(Configs)
  PROVE  Written(base, revs) \subseteq Configs
<1>1. ASSUME NEW f \in Fields, NEW v \in Values \union {None}
      PROVE  [base EXCEPT ![f] = v] \in Configs
  BY DEF Configs
<1>2. DOMAIN revs = 1 .. Len(revs) /\ \A t \in 1 .. Len(revs) : revs[t] \in Configs
  OBVIOUS
<1> QED BY <1>1, <1>2 DEF Written

(* An UPDATE of what was loaded as it still is writes all of the derived value. *)
LEMMA FreshMirrorsAll ==
  ASSUME NEW q \in Requests, NEW effective \in Configs, req[q].cols = columns
  PROVE  Mirrored(q, effective) = effective
BY DEF Mirrored, Configs

LEMMA EntryOfRequest ==
  ASSUME TypeOK, NEW q \in Requests
  PROVE  req[q] \in Entry(Len(clientRevs), Len(agentRevs))
BY DEF TypeOK, Entry

(* An action that changes one entry of req, to one that is well formed. *)
LEMMA OneEntry ==
  ASSUME Inv, NEW q \in Requests, NEW e \in Entry(Len(clientRevs), Len(agentRevs)),
         e.pc \in {"agent", "ready"} => e.agent > 0,
         e.pc = "write" /\ e.on = "agent" => e.agent > 0,
         req' = [req EXCEPT ![q] = e],
         UNCHANGED <<revVars, rowVars, provider, passVars, astray, disturbed>>,
         faults' \in 0 .. MaxFaults
  PROVE  Inv'
<1> USE DEF Inv
<1>1. req' \in [Requests -> Entry(Len(clientRevs'), Len(agentRevs'))]
  BY DEF revVars, TypeOK, Entry
<1>2. TypeOK'
  BY <1>1 DEF TypeOK, Entry, revVars, rowVars, passVars
<1>3. Loaded'
  BY DEF Loaded, TypeOK
<1> QED BY <1>2, <1>3

LEMMA FaultType ==
  ASSUME TypeOK, Fault
  PROVE  faults' \in 0 .. MaxFaults
BY ConfigAssumption DEF Fault, TypeOK

(* Disturb changes the entry of q, and of the others only "clean". *)
LEMMA Disturbed ==
  ASSUME Inv, NEW q \in Requests, NEW n \in Nat, NEW m \in Nat,
         Len(clientRevs) <= n, Len(agentRevs) <= m,
         NEW e \in Entry(n, m), NEW others \in BOOLEAN, Disturb(q, e, others),
         e.pc \in {"agent", "ready"} => e.agent > 0,
         e.pc = "write" /\ e.on = "agent" => e.agent > 0
  PROVE  /\ req' \in [Requests -> Entry(n, m)]
         /\ Loaded'
         /\ req'[q] = e
         /\ \A p \in Requests \ {q} : req'[p] = [req[p] EXCEPT !.clean = @ /\ ~others]
<1>1. \A p \in Requests : req[p] \in Entry(n, m)
  BY EntryOfRequest, EntriesGrow DEF Inv, TypeOK
<1>2. \A p \in Requests : [req[p] EXCEPT !.clean = @ /\ ~others] \in Entry(n, m)
  BY <1>1 DEF Entry
<1>3. req' \in [Requests -> Entry(n, m)] /\ req'[q] = e
      /\ \A p \in Requests \ {q} : req'[p] = [req[p] EXCEPT !.clean = @ /\ ~others]
  BY <1>2 DEF Disturb
<1>4. Loaded'
  <2> SUFFICES ASSUME NEW p \in Requests
               PROVE  /\ req'[p].pc \in {"agent", "ready"} => req'[p].agent > 0
                      /\ req'[p].pc = "write" /\ req'[p].on = "agent" => req'[p].agent > 0
    BY DEF Loaded
  <2>1. CASE p = q
    BY <2>1, <1>3
  <2>2. CASE p # q
    <3>1. req'[p].pc = req[p].pc /\ req'[p].on = req[p].on /\ req'[p].agent = req[p].agent
      BY <2>2, <1>1, <1>3 DEF Entry
    <3> QED BY <3>1 DEF Inv, Loaded
  <2> QED BY <2>1, <2>2
<1> QED BY <1>3, <1>4

(* The same where no revision is made. *)
LEMMA DisturbedOnly ==
  ASSUME Inv, NEW q \in Requests, NEW e \in Entry(Len(clientRevs), Len(agentRevs)),
         NEW others \in BOOLEAN, Disturb(q, e, others),
         e.pc \notin {"agent", "ready", "write"}
  PROVE  req' \in [Requests -> Entry(Len(clientRevs), Len(agentRevs))] /\ Loaded'
<1>1. /\ Len(clientRevs) \in Nat /\ Len(clientRevs) <= Len(clientRevs)
      /\ Len(agentRevs) \in Nat /\ Len(agentRevs) <= Len(agentRevs)
  BY DEF Inv, TypeOK
<1> QED BY <1>1, Disturbed

-----------------------------------------------------------------------------
(* The actions. *)

LEMMA BeginInv ==
  ASSUME Inv, NEW q \in Requests, NEW on \in {"agent", "client", "resync"}, Begin(q, on)
  PROVE  Inv'
<1> DEFINE e == [req[q] EXCEPT
        !.pc = CASE on = "agent" -> "client" [] on = "client" -> "write" [] on = "resync" -> "agent",
        !.on = on,
        !.client = IF on = "resync" THEN 0 ELSE Len(clientRevs),
        !.agent = IF on = "resync" THEN Len(agentRevs) ELSE 0,
        !.cols = IF on = "resync" THEN columns ELSE Unset]
<1>0. req[q] \in Entry(Len(clientRevs), Len(agentRevs))
      /\ Len(clientRevs) \in Nat /\ Len(agentRevs) \in Nat \ {0} /\ columns \in Configs
  BY EntryOfRequest DEF Inv, TypeOK
<1>1. req' = [req EXCEPT ![q] = e]
  BY DEF Begin
<1>2. e \in Entry(Len(clientRevs), Len(agentRevs))
  <2>1. (CASE on = "agent" -> "client" [] on = "client" -> "write" [] on = "resync" -> "agent")
          \in PCs
    BY DEF PCs
  <2>2. /\ (IF on = "resync" THEN 0 ELSE Len(clientRevs)) \in 0 .. Len(clientRevs)
        /\ (IF on = "resync" THEN Len(agentRevs) ELSE 0) \in 0 .. Len(agentRevs)
        /\ (IF on = "resync" THEN columns ELSE Unset) \in Configs
    BY <1>0, UnsetIsConfig
  <2> QED BY <1>0, <2>1, <2>2, BegunIsEntry, Zenon
<1>3. /\ e.pc \in {"agent", "ready"} => e.agent > 0
      /\ e.pc = "write" /\ e.on = "agent" => e.agent > 0
  BY <1>0 DEF Entry
<1>4. faults' \in 0 .. MaxFaults
  BY DEF Begin, Inv, TypeOK
<1> HIDE DEF e
<1> QED BY <1>1, <1>2, <1>3, <1>4, OneEntry DEF Begin

LEMMA LoadAgentInv ==
  ASSUME Inv, NEW q \in Requests, LoadAgent(q)
  PROVE  Inv'
<1> DEFINE e == [req[q] EXCEPT !.pc = IF req[q].pc = "client" THEN "write" ELSE "ready",
                               !.agent = Len(agentRevs), !.cols = columns]
<1>0. req[q] \in Entry(Len(clientRevs), Len(agentRevs))
      /\ Len(agentRevs) \in Nat \ {0} /\ columns \in Configs
  BY EntryOfRequest DEF Inv, TypeOK
<1>1. req' = [req EXCEPT ![q] = e]
  BY DEF LoadAgent
<1>2. e \in Entry(Len(clientRevs), Len(agentRevs)) /\ e.agent > 0
  <2>1. Len(agentRevs) \in 0 .. Len(agentRevs) /\ Len(clientRevs) \in Nat
        /\ (IF req[q].pc = "client" THEN "write" ELSE "ready") \in PCs
    BY <1>0 DEF PCs, Inv, TypeOK
  <2>2. e \in Entry(Len(clientRevs), Len(agentRevs))
    BY <1>0, <2>1, LoadedIsEntry, Zenon DEF Inv, TypeOK
  <2> QED BY <1>0, <2>2 DEF Entry
<1>3. faults' \in 0 .. MaxFaults
  BY DEF LoadAgent, Inv, TypeOK
<1> HIDE DEF e
<1> QED BY <1>1, <1>2, <1>3, OneEntry DEF LoadAgent

LEMMA ReadClientInv ==
  ASSUME Inv, NEW q \in Requests, ReadClient(q)
  PROVE  Inv'
<1> DEFINE e == [req[q] EXCEPT !.pc = "ready", !.client = Len(clientRevs)]
<1>0. req[q] \in Entry(Len(clientRevs), Len(agentRevs)) /\ Len(clientRevs) \in Nat
      /\ req[q].agent > 0
  BY EntryOfRequest DEF Inv, TypeOK, Loaded, ReadClient
<1>1. req' = [req EXCEPT ![q] = e]
  BY DEF ReadClient
<1>2. e \in Entry(Len(clientRevs), Len(agentRevs)) /\ e.agent > 0
  <2>1. Len(clientRevs) \in 0 .. Len(clientRevs) /\ Len(agentRevs) \in Nat /\ "ready" \in PCs
    BY <1>0 DEF PCs, Inv, TypeOK
  <2>2. e \in Entry(Len(clientRevs), Len(agentRevs))
    BY <1>0, <2>1, ClientReadIsEntry, Zenon
  <2> QED BY <1>0, <2>2 DEF Entry
<1>3. faults' \in 0 .. MaxFaults
  BY DEF ReadClient, Inv, TypeOK
<1> HIDE DEF e
<1> QED BY <1>1, <1>2, <1>3, OneEntry DEF ReadClient

LEMMA CollideInv ==
  ASSUME Inv, NEW q \in Requests, Collide(q)
  PROVE  Inv'
<1>1. Over("done") \in Entry(Len(clientRevs), Len(agentRevs)) /\ Over("done").pc = "done"
  BY OverIsEntry DEF PCs, Inv, TypeOK
<1>2. faults' \in 0 .. MaxFaults
  BY DEF Collide, Inv, TypeOK
<1> QED BY <1>1, <1>2, OneEntry DEF Collide

LEMMA ReadColumnsInv ==
  ASSUME Inv, NEW q \in Requests, ReadColumns(q)
  PROVE  Inv'
<1> DEFINE e == [req[q] EXCEPT !.pc = "pushing", !.cols = columns,
                               !.mark = status, !.clean = TRUE]
<1>0. req[q] \in Entry(Len(clientRevs), Len(agentRevs))
      /\ columns \in Configs /\ status \in Outcomes
  BY EntryOfRequest DEF Inv, TypeOK
<1>1. req' = [req EXCEPT ![q] = e]
  BY DEF ReadColumns
<1>2. e \in Entry(Len(clientRevs), Len(agentRevs)) /\ e.pc = "pushing"
  BY <1>0 DEF Entry, PCs
<1>3. faults' \in 0 .. MaxFaults
  BY DEF ReadColumns, Inv, TypeOK
<1> HIDE DEF e
<1> QED BY <1>1, <1>2, <1>3, OneEntry DEF ReadColumns

LEMMA VerifyInv ==
  ASSUME Inv, NEW q \in Requests, Verify(q) \/ VerifyFails(q)
  PROVE  Inv'
<1>0. req[q] \in Entry(Len(clientRevs), Len(agentRevs))
  BY EntryOfRequest DEF Inv
<1>1. ASSUME NEW o \in Outcomes
      PROVE  /\ [req[q] EXCEPT !.pc = "closing", !.outcome = o]
                   \in Entry(Len(clientRevs), Len(agentRevs))
             /\ [req[q] EXCEPT !.pc = "closing", !.outcome = o].pc = "closing"
  BY <1>0 DEF Entry, PCs
<1>2. PICK o \in Outcomes :
        req' = [req EXCEPT ![q] = [req[q] EXCEPT !.pc = "closing", !.outcome = o]]
  BY DEF Verify, VerifyFails, Outcomes
<1>3. faults' \in 0 .. MaxFaults
  BY FaultType DEF Verify, VerifyFails, Inv, TypeOK
<1>4. UNCHANGED <<revVars, rowVars, provider, passVars, astray, disturbed>>
  BY DEF Verify, VerifyFails
<1> QED BY <1>1, <1>2, <1>3, <1>4, OneEntry

LEMMA WriteAgentInv ==
  ASSUME Inv, NEW q \in Requests, WriteAgent(q)
  PROVE  Inv'
<1>1. /\ agentRevs \in Seq(Configs) /\ req[q].agent \in 1 .. Len(agentRevs)
      /\ req[q].client \in 0 .. Len(clientRevs) /\ Len(clientRevs) \in Nat
      /\ req[q] \in Entry(Len(clientRevs), Len(agentRevs))
  <2>1. req[q] \in Entry(Len(clientRevs), Len(agentRevs)) /\ req[q].agent > 0
    BY EntryOfRequest DEF Inv, Loaded, WriteAgent
  <2> QED BY <2>1 DEF Inv, TypeOK, Entry
<1>2. PICK new \in Written(agentRevs[req[q].agent], agentRevs) :
        /\ agentRevs' = Append(agentRevs, new)
        /\ columns' = Mirrored(q, Effective(new, ClientRev(req[q].client)))
  BY DEF WriteAgent
<1>3. agentRevs[req[q].agent] \in Configs
  BY <1>1
<1>4. new \in Configs
  BY <1>1, <1>3, WrittenAreConfigs
<1>5. agentRevs' \in Seq(Configs) /\ Len(agentRevs') = Len(agentRevs) + 1
  BY <1>1, <1>2, <1>4
<1>6. columns' \in Configs
  BY <1>1, <1>2, <1>4, ClientRevIsConfig, EffectiveIsConfig, MirroredIsConfig DEF Inv
<1>7. req' \in [Requests -> Entry(Len(clientRevs), Len(agentRevs) + 1)] /\ Loaded'
  <2>1. Disturb(q, Over("committed"), columns' # columns)
    BY DEF WriteAgent
  <2>2. Len(agentRevs) \in Nat /\ Len(agentRevs) <= Len(agentRevs) + 1
        /\ Len(agentRevs) + 1 \in Nat /\ Len(clientRevs) <= Len(clientRevs)
    BY <1>1
  <2>3. Over("committed") \in Entry(Len(clientRevs), Len(agentRevs) + 1)
        /\ Over("committed").pc = "committed"
    BY <1>1, <2>2, OverIsEntry DEF PCs
  <2> QED BY <1>1, <2>1, <2>2, <2>3, Disturbed
<1>8. TypeOK'
  BY <1>5, <1>6, <1>7 DEF WriteAgent, TypeOK, Inv, Entry, passVars
<1> QED BY <1>7, <1>8 DEF Inv

LEMMA WriteClientInv ==
  ASSUME Inv, NEW q \in Requests, WriteClient(q)
  PROVE  Inv'
<1>1. /\ clientRevs \in Seq(Configs) /\ req[q].client \in 0 .. Len(clientRevs)
      /\ Len(clientRevs) \in Nat /\ Len(agentRevs) \in Nat
  BY EntryOfRequest DEF Inv, TypeOK, Entry
<1>2. PICK new \in Written(ClientRev(req[q].client), clientRevs) :
        clientRevs' = Append(clientRevs, new)
  BY DEF WriteClient
<1>3. new \in Configs
  BY <1>1, <1>2, ClientRevIsConfig, WrittenAreConfigs DEF Inv
<1>4. clientRevs' \in Seq(Configs) /\ Len(clientRevs') = Len(clientRevs) + 1
  BY <1>1, <1>2, <1>3
<1> DEFINE n == Len(clientRevs) + 1
           e == [req[q] EXCEPT !.pc = "saved", !.client = n]
<1>5. n \in Nat /\ n \in 0 .. n /\ Len(clientRevs) <= n /\ Len(agentRevs) <= Len(agentRevs)
  BY <1>1
<1>6. \A p \in Requests : req[p] \in Entry(n, Len(agentRevs))
  BY <1>1, <1>5, EntryOfRequest, EntriesGrow DEF Inv
<1>7. e \in Entry(n, Len(agentRevs)) /\ e.pc = "saved"
  <2>1. e \in Entry(n, Len(agentRevs))
    <3>1. "saved" \in PCs
      BY DEF PCs
    <3> QED BY <1>1, <1>5, <1>6, <3>1, ClientReadIsEntry, Zenon
  <2> QED BY <1>6, <2>1 DEF Entry
<1>8. req' = [req EXCEPT ![q] = e]
  BY DEF WriteClient
<1> HIDE DEF e
<1>9. req' \in [Requests -> Entry(n, Len(agentRevs))]
  BY <1>6, <1>7, <1>8 DEF Inv, TypeOK
<1>10. Loaded'
  BY <1>7, <1>8 DEF Inv, Loaded, TypeOK
<1>11. TypeOK'
  BY <1>4, <1>9 DEF WriteClient, TypeOK, Inv, Entry, rowVars, passVars
<1> QED BY <1>10, <1>11 DEF Inv

LEMMA PropagateInv ==
  ASSUME Inv, NEW q \in Requests, Propagate(q)
  PROVE  Inv'
<1> DEFINE effective == Effective(agentRevs[req[q].agent], ClientRev(req[q].client))
           pc == IF effective # req[q].cols THEN "committed" ELSE "done"
<1>1. /\ agentRevs \in Seq(Configs) /\ req[q].agent \in 1 .. Len(agentRevs)
      /\ req[q].client \in 0 .. Len(clientRevs) /\ Len(clientRevs) \in Nat
  <2>1. req[q] \in Entry(Len(clientRevs), Len(agentRevs)) /\ req[q].agent > 0
    BY EntryOfRequest DEF Inv, Loaded, Propagate
  <2> QED BY <2>1 DEF Inv, TypeOK, Entry
<1>2. effective \in Configs
  <2>1. agentRevs[req[q].agent] \in Configs
    BY <1>1
  <2> QED BY <1>1, <2>1, ClientRevIsConfig, EffectiveIsConfig DEF Inv
<1>3. columns' \in Configs
  BY <1>2, MirroredIsConfig DEF Propagate, Inv
<1>4. req' \in [Requests -> Entry(Len(clientRevs), Len(agentRevs))] /\ Loaded'
  <2>1. pc \in PCs /\ pc \notin {"agent", "ready", "write"}
    BY DEF PCs
  <2> HIDE DEF pc
  <2>2. Disturb(q, Over(pc), columns' # columns)
    BY DEF Propagate, pc
  <2>3. Over(pc) \in Entry(Len(clientRevs), Len(agentRevs)) /\ Over(pc).pc = pc
    BY <1>1, <2>1, OverIsEntry
  <2> QED BY <1>1, <2>1, <2>2, <2>3, DisturbedOnly
<1>5. TypeOK'
  BY <1>3, <1>4 DEF Propagate, TypeOK, Inv, Entry, passVars, revVars
<1> QED BY <1>4, <1>5 DEF Inv

LEMMA PushInv ==
  ASSUME Inv, NEW q \in Requests, Push(q) \/ PushFails(q)
  PROVE  Inv'
<1>0. /\ Len(clientRevs) \in Nat /\ Len(agentRevs) \in Nat
      /\ req[q] \in Entry(Len(clientRevs), Len(agentRevs)) /\ req[q].cols \in Configs
  BY EntryOfRequest DEF Inv, TypeOK, Entry
<1>1. provider' \in Configs
  BY <1>0, PatchedIsConfig DEF Push, PushFails, Inv, TypeOK
<1>2. req' \in [Requests -> Entry(Len(clientRevs), Len(agentRevs))] /\ Loaded'
  <2>1. [req[q] EXCEPT !.pc = "checking"] \in Entry(Len(clientRevs), Len(agentRevs))
        /\ [req[q] EXCEPT !.pc = "checking"].pc = "checking"
    BY <1>0 DEF Entry, PCs
  <2>2. [req[q] EXCEPT !.pc = "closing", !.outcome = "error"]
          \in Entry(Len(clientRevs), Len(agentRevs))
        /\ [req[q] EXCEPT !.pc = "closing", !.outcome = "error"].pc = "closing"
    BY <1>0 DEF Entry, PCs, Outcomes
  <2>3. CASE Push(q)
    <3>1. Disturb(q, [req[q] EXCEPT !.pc = "checking"], TRUE)
      BY <2>3 DEF Push
    <3> QED BY <1>0, <2>1, <3>1, DisturbedOnly
  <2>4. CASE PushFails(q)
    <3>1. Disturb(q, [req[q] EXCEPT !.pc = "closing", !.outcome = "error"], TRUE)
      BY <2>4 DEF PushFails
    <3> QED BY <1>0, <2>2, <3>1, DisturbedOnly
  <2> QED BY <2>3, <2>4
<1>3. faults' \in 0 .. MaxFaults
  BY FaultType DEF Push, PushFails, Inv, TypeOK
<1>4. TypeOK'
  BY <1>1, <1>2, <1>3 DEF Push, PushFails, TypeOK, Inv, Entry, passVars, revVars, rowVars
<1> QED BY <1>2, <1>4 DEF Inv

LEMMA CloseInv ==
  ASSUME Inv, NEW q \in Requests, Close(q)
  PROVE  Inv'
<1>0. /\ Len(clientRevs) \in Nat /\ Len(agentRevs) \in Nat
      /\ req[q].outcome \in Outcomes /\ req[q].clean \in BOOLEAN
  BY EntryOfRequest DEF Inv, TypeOK, Entry
<1>1. status' \in Outcomes /\ disturbed' \in BOOLEAN
  BY <1>0 DEF Close, Inv, TypeOK
<1>2. req' \in [Requests -> Entry(Len(clientRevs), Len(agentRevs))] /\ Loaded'
  <2>1. Over("done") \in Entry(Len(clientRevs), Len(agentRevs)) /\ Over("done").pc = "done"
    BY <1>0, OverIsEntry DEF PCs
  <2>2. Disturb(q, Over("done"), TRUE)
    BY DEF Close
  <2> QED BY <1>0, <2>1, <2>2, DisturbedOnly
<1>3. TypeOK'
  BY <1>1, <1>2 DEF Close, TypeOK, Inv, Entry, passVars, revVars
<1> QED BY <1>2, <1>3 DEF Inv

LEMMA TickInv ==
  ASSUME Inv, Tick
  PROVE  Inv'
<1>1. pass' \in [on : BOOLEAN, cols : Configs] /\ report' \in {"in_sync", "drift", "error"}
  <2>1. NoPass \in [on : BOOLEAN, cols : Configs]
    BY UnsetIsConfig DEF NoPass
  <2>2. CASE LoadRows
    BY <2>2 DEF LoadRows, Inv, TypeOK
  <2>3. CASE Reconcile \/ FetchFails
    <3>1. pass' = NoPass /\ report' \in {"in_sync", "drift", "error"}
      BY <2>3 DEF Reconcile, FetchFails
    <3> QED BY <2>1, <3>1
  <2> QED BY <2>2, <2>3 DEF Tick
<1>2. faults' \in 0 .. MaxFaults
  BY FaultType DEF Tick, LoadRows, Reconcile, FetchFails, Inv, TypeOK
<1>3. UNCHANGED <<revVars, rowVars, req, provider, astray, disturbed>>
  BY DEF Tick, LoadRows, Reconcile, FetchFails
<1>4. TypeOK'
  BY <1>1, <1>2, <1>3 DEF TypeOK, Inv, revVars, rowVars
<1>5. Loaded'
  BY <1>3 DEF Loaded, Inv
<1> QED BY <1>4, <1>5 DEF Inv

LEMMA EditInv ==
  ASSUME Inv, EditAtProvider
  PROVE  Inv'
<1>1. provider' \in Configs
  BY DEF EditAtProvider, Inv, TypeOK, Configs
<1>2. \A q \in Requests : [req[q] EXCEPT !.clean = FALSE] \in Entry(Len(clientRevs), Len(agentRevs))
  BY EntryOfRequest DEF Inv, Entry
<1>3. req' \in [Requests -> Entry(Len(clientRevs), Len(agentRevs))]
  BY <1>2 DEF EditAtProvider
<1>4. \A q \in Requests : /\ req'[q].pc = req[q].pc /\ req'[q].on = req[q].on
                           /\ req'[q].agent = req[q].agent
  BY EntryOfRequest DEF EditAtProvider, Inv, Entry
<1>5. Loaded'
  BY <1>4 DEF Loaded, Inv
<1>6. TypeOK'
  BY <1>1, <1>3, FaultType DEF EditAtProvider, TypeOK, Inv, Entry, passVars, revVars, rowVars
<1> QED BY <1>5, <1>6 DEF Inv

LEMMA StopInv ==
  ASSUME Inv, Stop
  PROVE  Inv'
<1>0. Len(clientRevs) \in Nat /\ Len(agentRevs) \in Nat
  BY DEF Inv, TypeOK
<1>1. Over("done") \in Entry(Len(clientRevs), Len(agentRevs)) /\ Over("done").pc = "done"
  BY <1>0, OverIsEntry DEF PCs
<1>2. \A q \in Requests : (req'[q] = req[q] /\ req[q].pc = "none") \/ req'[q] = Over("done")
  BY DEF Stop
<1>3. req' \in [Requests -> Entry(Len(clientRevs), Len(agentRevs))]
  BY <1>1, EntryOfRequest DEF Stop, Inv
<1>4. Loaded'
  BY <1>1, <1>2 DEF Loaded
<1>5. pass' \in [on : BOOLEAN, cols : Configs] /\ disturbed' \in BOOLEAN
  BY UnsetIsConfig DEF Stop, NoPass, Inv, TypeOK
<1>6. TypeOK'
  BY <1>3, <1>5, FaultType DEF Stop, TypeOK, Inv, Entry, revVars, rowVars
<1> QED BY <1>4, <1>6 DEF Inv

LEMMA InitInv == Init => Inv
<1> SUFFICES ASSUME Init PROVE Inv
  OBVIOUS
<1>1. agentRevs \in Seq(Configs) /\ Len(agentRevs) = 2 /\ clientRevs \in Seq(Configs) /\ Len(clientRevs) = 0
  BY ConfigAssumption, UnsetIsConfig DEF Init
<1>2. req \in [Requests -> Entry(Len(clientRevs), Len(agentRevs))]
  BY <1>1, NoRequestIsEntry DEF Init
<1>3. TypeOK
  <2>1. pass \in [on : BOOLEAN, cols : Configs]
    BY UnsetIsConfig DEF Init, NoPass
  <2>2. faults \in 0 .. MaxFaults
    BY ConfigAssumption DEF Init
  <2>3. columns \in Configs /\ provider \in Configs
    BY ConfigAssumption DEF Init
  <2>4. /\ status \in Outcomes /\ report \in {"in_sync", "drift", "error"}
        /\ astray \in BOOLEAN /\ disturbed \in BOOLEAN
    BY DEF Init, Outcomes
  <2>5. Len(agentRevs) > 0
    BY <1>1
  <2> QED BY <1>1, <1>2, <2>1, <2>2, <2>3, <2>4, <2>5 DEF TypeOK, Entry
<1>4. Loaded
  BY DEF Init, Loaded, NoRequest
<1> QED BY <1>3, <1>4 DEF Inv

LEMMA NextInv == Inv /\ [Next]_vars => Inv'
<1> SUFFICES ASSUME Inv, [Next]_vars PROVE Inv'
  OBVIOUS
<1>1. ASSUME NEW q \in Requests, NEW on \in {"agent", "client", "resync"}, Begin(q, on)
      PROVE  Inv'
  BY <1>1, BeginInv
<1>2. ASSUME NEW q \in Requests, Serve(q)
      PROVE  Inv'
  BY <1>2, LoadAgentInv, ReadClientInv, WriteAgentInv, WriteClientInv, CollideInv,
     PropagateInv, ReadColumnsInv, PushInv, VerifyInv, CloseInv DEF Serve
<1>3. CASE UNCHANGED vars
  BY <1>3 DEF vars, revVars, rowVars, passVars, Inv, TypeOK, Loaded
<1> QED BY <1>1, <1>2, <1>3, TickInv, EditInv, StopInv DEF Next

(* Every variable keeps its type. *)
THEOREM TypeCorrect == Spec => []TypeOK
<1>1. Inv => TypeOK
  BY DEF Inv
<1> QED BY <1>1, InitInv, NextInv, PTL DEF Spec

-----------------------------------------------------------------------------
(* The columns. *)

LEMMA ColumnsStep ==
  ASSUME Inv, ColumnsFollow, [Next]_vars
  PROVE  ColumnsFollow'
<1>1. ASSUME NEW q \in Requests, WriteAgent(q)
      PROVE  ColumnsFollow'
  <2> SUFFICES ASSUME ~astray'
               PROVE  columns' = Effective(Last(agentRevs'), ClientRev(Len(clientRevs))')
    BY DEF ColumnsFollow
  <2>1. Fresh(q) /\ req[q].cols = columns /\ req[q].client = Len(clientRevs)
    BY <1>1 DEF WriteAgent, Fresh
  <2>2. PICK new \in Written(agentRevs[req[q].agent], agentRevs) :
          /\ agentRevs' = Append(agentRevs, new)
          /\ columns' = Mirrored(q, Effective(new, ClientRev(req[q].client)))
    BY <1>1 DEF WriteAgent
  <2>3. agentRevs \in Seq(Configs) /\ req[q].agent \in 1 .. Len(agentRevs)
        /\ Len(clientRevs) \in 0 .. Len(clientRevs)
    <3>1. req[q] \in Entry(Len(clientRevs), Len(agentRevs)) /\ req[q].agent > 0
      BY <1>1, EntryOfRequest DEF Inv, Loaded, WriteAgent
    <3> QED BY <3>1 DEF Inv, TypeOK, Entry
  <2>4. new \in Configs
    <3>1. agentRevs[req[q].agent] \in Configs
      BY <2>3
    <3> QED BY <2>2, <2>3, <3>1, WrittenAreConfigs
  <2>5. Effective(new, ClientRev(Len(clientRevs))) \in Configs
    BY <2>3, <2>4, ClientRevIsConfig, EffectiveIsConfig DEF Inv
  <2>6. columns' = Effective(new, ClientRev(Len(clientRevs)))
    BY <2>1, <2>2, <2>5, FreshMirrorsAll
  <2>7. Last(agentRevs') = new
    BY <2>2, <2>3, <2>4 DEF Last
  <2>8. ClientRev(Len(clientRevs))' = ClientRev(Len(clientRevs))
    BY <1>1 DEF WriteAgent, ClientRev
  <2> QED BY <2>6, <2>7, <2>8
<1>2. ASSUME NEW q \in Requests, Propagate(q)
      PROVE  ColumnsFollow'
  <2> SUFFICES ASSUME ~astray'
               PROVE  columns' = Effective(Last(agentRevs), ClientRev(Len(clientRevs)))
    BY <1>2 DEF ColumnsFollow, Propagate, revVars, ClientRev
  <2>1. req[q].cols = columns /\ req[q].client = Len(clientRevs) /\ Fresh(q)
    BY <1>2 DEF Propagate, Fresh
  <2>2. req[q].pc = "ready" /\ req[q].agent = Len(agentRevs)
    BY <1>2, <2>1 DEF Propagate, Fresh
  <2>3. /\ agentRevs[Len(agentRevs)] \in Configs /\ Last(agentRevs) = agentRevs[Len(agentRevs)]
        /\ Len(clientRevs) \in 0 .. Len(clientRevs)
    BY DEF Inv, TypeOK, Last
  <2>4. Effective(Last(agentRevs), ClientRev(Len(clientRevs))) \in Configs
    BY <2>3, ClientRevIsConfig, EffectiveIsConfig DEF Inv
  <2>5. columns' = Mirrored(q, Effective(Last(agentRevs), ClientRev(Len(clientRevs))))
    BY <1>2, <2>1, <2>2, <2>3 DEF Propagate
  <2> QED BY <2>1, <2>4, <2>5, FreshMirrorsAll
<1>3. ASSUME NEW q \in Requests, WriteClient(q)
      PROVE  ColumnsFollow'
  BY <1>3 DEF WriteClient, ColumnsFollow
<1>4. ASSUME UNCHANGED <<agentRevs, clientRevs, columns, astray>>
      PROVE  ColumnsFollow'
  BY <1>4 DEF ColumnsFollow, ClientRev
<1>5. ASSUME NEW q \in Requests, Serve(q)
      PROVE  ColumnsFollow'
  BY <1>1, <1>2, <1>3, <1>4, <1>5 DEF Serve, LoadAgent, ReadClient, Collide, ReadColumns,
     Push, PushFails, Verify, VerifyFails, Close, revVars, rowVars
<1>6. ASSUME NEW q \in Requests, NEW on \in {"agent", "client", "resync"}, Begin(q, on)
      PROVE  ColumnsFollow'
  BY <1>4, <1>6 DEF Begin, revVars, rowVars
<1>7. CASE Tick \/ EditAtProvider \/ Stop \/ UNCHANGED vars
  BY <1>4, <1>7 DEF Tick, LoadRows, Reconcile, FetchFails, EditAtProvider, Stop,
     vars, revVars, rowVars
<1> QED BY <1>5, <1>6, <1>7 DEF Next

(* The columns the voice path reads follow the active revisions. *)
THEOREM ColumnsFollowActive == Spec => []ColumnsFollow
<1>1. Init => ColumnsFollow
  <2> SUFFICES ASSUME Init PROVE ColumnsFollow
    OBVIOUS
  <2>1. Last(agentRevs) = Unset /\ ClientRev(Len(clientRevs)) = Unset /\ columns = Standard
    BY DEF Init, Last, ClientRev
  <2>2. Effective(Unset, Unset) = Standard
    BY ConfigAssumption DEF Effective, Unset, Configs
  <2> QED BY <2>1, <2>2 DEF ColumnsFollow
<1>2. Inv /\ ColumnsFollow /\ [Next]_vars => ColumnsFollow'
  BY ColumnsStep
<1> QED BY <1>1, <1>2, InitInv, NextInv, PTL DEF Spec

-----------------------------------------------------------------------------
(* The status.  A sync that is still undisturbed holds the columns and the status
   as they are; one that found them at the provider finds them there until it
   closes; and a status of synced is true wherever no sync is under way. *)

Syncing(q) == req[q].pc \in {"pushing", "checking", "closing"}
Pending(q) == Syncing(q) \/ req[q].pc = "committed"

HeldTrue ==
  \A q \in Requests : Syncing(q) /\ req[q].clean =>
     req[q].cols = columns /\ req[q].mark = status

VerifiedTrue ==
  \A q \in Requests :
     req[q].pc = "closing" /\ req[q].clean /\ req[q].outcome = "synced" => Agrees(columns)

SettledTrue ==
  (\A q \in Requests : ~Pending(q)) /\ ~disturbed /\ status = "synced" => Agrees(columns)

SyncInv == HeldTrue /\ VerifiedTrue /\ SettledTrue

(* A step of q that leaves the columns, the status and the provider alone, and
   is no step of its sync. *)
LEMMA QuietStep ==
  ASSUME Inv, SyncInv, NEW q \in Requests,
         \A p \in Requests : p # q => req'[p] = req[p],
         ~Pending(q), req'[q].pc \notin {"pushing", "checking", "closing", "committed"},
         UNCHANGED <<columns, status, provider, disturbed>>
  PROVE  SyncInv'
<1>1. Agrees(columns)' <=> Agrees(columns)
  BY DEF Agrees
<1>4. HeldTrue'
  BY DEF SyncInv, HeldTrue, Syncing
<1>5. VerifiedTrue'
  BY <1>1 DEF SyncInv, VerifiedTrue
<1>6. SettledTrue'
  BY <1>1 DEF SyncInv, SettledTrue, Pending, Syncing
<1> QED BY <1>4, <1>5, <1>6 DEF SyncInv

(* A step after which every sync that still counts as undisturbed is q's own,
   and q's entry is e. *)
LEMMA CleansOthers ==
  ASSUME Inv, NEW q \in Requests, NEW e, NEW others \in BOOLEAN, Disturb(q, e, others)
  PROVE  /\ req'[q] = e
         /\ \A p \in Requests : p # q =>
              /\ req'[p].pc = req[p].pc /\ req'[p].cols = req[p].cols
              /\ req'[p].mark = req[p].mark /\ req'[p].outcome = req[p].outcome
              /\ req'[p].clean = (req[p].clean /\ ~others)
<1>1. \A p \in Requests : req[p] \in Entry(Len(clientRevs), Len(agentRevs))
  BY EntryOfRequest DEF Inv
<1> QED BY <1>1 DEF Disturb, Entry

(* A commit of the columns: others stay undisturbed only if nothing changed, and
   a change is followed by a sync of its own. *)
LEMMA ColumnsWritten ==
  ASSUME Inv, SyncInv, NEW q \in Requests, NEW pc \in {"committed", "done"},
         Disturb(q, Over(pc), columns' # columns), ~Pending(q),
         pc = "committed" \/ columns' = columns,
         UNCHANGED <<status, provider, disturbed>>
  PROVE  SyncInv'
<1>0. Over(pc).pc = pc
  BY DEF Over, NoRequest
<1>1. /\ req'[q] = Over(pc)
      /\ \A p \in Requests : p # q =>
           /\ req'[p].pc = req[p].pc /\ req'[p].cols = req[p].cols
           /\ req'[p].mark = req[p].mark /\ req'[p].outcome = req[p].outcome
           /\ req'[p].clean = (req[p].clean /\ ~(columns' # columns))
  <2> DEFINE others == columns' # columns
  <2>1. others \in BOOLEAN /\ Disturb(q, Over(pc), others)
    OBVIOUS
  <2> HIDE DEF others
  <2>2. /\ req'[q] = Over(pc)
        /\ \A p \in Requests : p # q =>
             /\ req'[p].pc = req[p].pc /\ req'[p].cols = req[p].cols
             /\ req'[p].mark = req[p].mark /\ req'[p].outcome = req[p].outcome
             /\ req'[p].clean = (req[p].clean /\ ~others)
    BY <2>1, CleansOthers
  <2> QED BY <2>2 DEF others
<1>2. HeldTrue'
  BY <1>0, <1>1 DEF SyncInv, HeldTrue, Syncing
<1>3. VerifiedTrue'
  <2>1. columns' = columns => (Agrees(columns)' <=> Agrees(columns))
    BY DEF Agrees
  <2> QED BY <1>0, <1>1, <2>1 DEF SyncInv, VerifiedTrue
<1>4. SettledTrue'
  <2>1. CASE pc = "committed"
    BY <1>0, <1>1, <2>1 DEF SettledTrue, Pending
  <2>2. CASE columns' = columns
    <3>1. Agrees(columns)' <=> Agrees(columns)
      BY <2>2 DEF Agrees
    <3>2. (\A p \in Requests : ~Pending(p))' => \A p \in Requests : ~Pending(p)
      BY <1>1 DEF Pending, Syncing
    <3> QED BY <2>2, <3>1, <3>2 DEF SyncInv, SettledTrue
  <2> QED BY <2>1, <2>2
<1> QED BY <1>2, <1>3, <1>4 DEF SyncInv

LEMMA ReadColumnsSync ==
  ASSUME Inv, SyncInv, NEW q \in Requests, ReadColumns(q)
  PROVE  SyncInv'
<1>1. /\ req'[q].pc = "pushing" /\ req'[q].cols = columns /\ req'[q].mark = status
      /\ \A p \in Requests : p # q => req'[p] = req[p]
  <2>1. req[q] \in Entry(Len(clientRevs), Len(agentRevs))
    BY EntryOfRequest DEF Inv
  <2> QED BY <2>1 DEF ReadColumns, Inv, TypeOK, Entry
<1>2. UNCHANGED <<columns, status, provider, disturbed>>
  BY DEF ReadColumns, rowVars
<1>3. Agrees(columns)' <=> Agrees(columns)
  BY <1>2 DEF Agrees
<1>4. HeldTrue'
  BY <1>1, <1>2 DEF SyncInv, HeldTrue, Syncing
<1>5. VerifiedTrue'
  BY <1>1, <1>2, <1>3 DEF SyncInv, VerifiedTrue
<1>6. SettledTrue'
  BY <1>1 DEF SettledTrue, Pending, Syncing
<1> QED BY <1>4, <1>5, <1>6 DEF SyncInv

LEMMA PushSync ==
  ASSUME Inv, SyncInv, NEW q \in Requests, Push(q) \/ PushFails(q)
  PROVE  SyncInv'
<1>0. req[q] \in Entry(Len(clientRevs), Len(agentRevs))
  BY EntryOfRequest DEF Inv
<1>1. /\ req'[q].cols = req[q].cols /\ req'[q].mark = req[q].mark
      /\ req'[q].clean = req[q].clean /\ req'[q].pc \in {"checking", "closing"}
      /\ req'[q].pc = "closing" => req'[q].outcome = "error"
      /\ \A p \in Requests : p # q => ~req'[p].clean
  <2> DEFINE pushed == [req[q] EXCEPT !.pc = "checking"]
             failed == [req[q] EXCEPT !.pc = "closing", !.outcome = "error"]
  <2>1. /\ pushed.cols = req[q].cols /\ pushed.mark = req[q].mark
        /\ pushed.clean = req[q].clean /\ pushed.pc = "checking"
        /\ failed.cols = req[q].cols /\ failed.mark = req[q].mark
        /\ failed.clean = req[q].clean /\ failed.pc = "closing" /\ failed.outcome = "error"
    BY <1>0 DEF Entry
  <2>2. Disturb(q, pushed, TRUE) \/ Disturb(q, failed, TRUE)
    BY DEF Push, PushFails
  <2> HIDE DEF pushed, failed
  <2>3. CASE Disturb(q, pushed, TRUE)
    <3>1. req'[q] = pushed /\ \A p \in Requests : p # q => ~req'[p].clean
      BY <2>3, CleansOthers
    <3> QED BY <2>1, <3>1
  <2>4. CASE Disturb(q, failed, TRUE)
    <3>1. req'[q] = failed /\ \A p \in Requests : p # q => ~req'[p].clean
      BY <2>4, CleansOthers
    <3> QED BY <2>1, <3>1
  <2> QED BY <2>2, <2>3, <2>4
<1>3. UNCHANGED <<columns, status>> /\ Syncing(q)
  BY DEF Push, PushFails, rowVars, Syncing
<1>4. HeldTrue'
  BY <1>1, <1>3 DEF SyncInv, HeldTrue, Syncing
<1>5. VerifiedTrue'
  BY <1>1 DEF VerifiedTrue
<1>6. SettledTrue'
  BY <1>1 DEF SettledTrue, Pending, Syncing
<1> QED BY <1>4, <1>5, <1>6 DEF SyncInv

LEMMA VerifySync ==
  ASSUME Inv, SyncInv, NEW q \in Requests, Verify(q) \/ VerifyFails(q)
  PROVE  SyncInv'
<1>1. /\ req'[q].pc = "closing" /\ req'[q].cols = req[q].cols /\ req'[q].mark = req[q].mark
      /\ req'[q].clean = req[q].clean
      /\ req'[q].outcome = "synced" => Agrees(req[q].cols)
      /\ \A p \in Requests : p # q => req'[p] = req[p]
  <2>1. req[q] \in Entry(Len(clientRevs), Len(agentRevs))
    BY EntryOfRequest DEF Inv
  <2>2. CASE Verify(q)
    BY <2>1, <2>2 DEF Verify, Inv, TypeOK, Entry
  <2>3. CASE VerifyFails(q)
    BY <2>1, <2>3 DEF VerifyFails, Inv, TypeOK, Entry
  <2> QED BY <2>2, <2>3
<1>2. UNCHANGED <<columns, status, provider, disturbed>> /\ Syncing(q)
  BY DEF Verify, VerifyFails, rowVars, Syncing
<1>3. Agrees(columns)' <=> Agrees(columns)
  BY <1>2 DEF Agrees
<1>4. HeldTrue'
  BY <1>1, <1>2 DEF SyncInv, HeldTrue, Syncing
<1>5. VerifiedTrue'
  BY <1>1, <1>2, <1>3 DEF SyncInv, HeldTrue, VerifiedTrue
<1>6. SettledTrue'
  BY <1>1 DEF SettledTrue, Pending, Syncing
<1> QED BY <1>4, <1>5, <1>6 DEF SyncInv

LEMMA CloseSync ==
  ASSUME Inv, SyncInv, NEW q \in Requests, Close(q)
  PROVE  SyncInv'
<1>0. Over("done").pc = "done"
  BY DEF Over, NoRequest
<1>1. /\ req'[q] = Over("done")
      /\ \A p \in Requests : p # q => ~req'[p].clean
  BY CleansOthers DEF Close
<1>2. HeldTrue' /\ VerifiedTrue'
  BY <1>0, <1>1 DEF HeldTrue, VerifiedTrue, Syncing
<1>3. SettledTrue'
  <2> SUFFICES ASSUME ~disturbed', status' = "synced"
               PROVE  Agrees(columns)'
    BY DEF SettledTrue
  <2>1. Agrees(columns)' <=> Agrees(columns)
    BY DEF Close, Agrees
  <2>2. req[q].clean /\ req[q].pc = "closing"
    BY DEF Close
  <2>3. CASE req[q].outcome = "synced"
    BY <2>1, <2>2, <2>3 DEF SyncInv, VerifiedTrue
  <2>4. CASE req[q].outcome # "synced"
    <3>1. req[q].mark = status
      BY <2>2 DEF SyncInv, HeldTrue, Syncing
    <3>2. status = "synced" /\ req[q].outcome = req[q].mark
      BY <2>4 DEF Close
    <3> QED BY <2>4, <3>1, <3>2
  <2> QED BY <2>3, <2>4
<1> QED BY <1>2, <1>3 DEF SyncInv

LEMMA OutsideSync ==
  ASSUME Inv, SyncInv, EditAtProvider \/ Stop \/ Tick \/ UNCHANGED vars
  PROVE  SyncInv'
<1>1. CASE EditAtProvider
  <2>1. \A q \in Requests : ~req'[q].clean
    BY <1>1, EntryOfRequest DEF EditAtProvider, Inv, Entry
  <2> QED BY <1>1, <2>1 DEF EditAtProvider, SyncInv, HeldTrue, VerifiedTrue, SettledTrue
<1>2. CASE Stop
  <2>1. \A q \in Requests : ~Pending(q)'
    BY <1>2 DEF Stop, Pending, Syncing, Over, NoRequest, Inv, TypeOK
  <2>2. UNCHANGED <<columns, status, provider>>
    BY <1>2 DEF Stop, rowVars
  <2>3. Agrees(columns)' <=> Agrees(columns)
    BY <2>2 DEF Agrees
  <2>4. ~disturbed' => ~disturbed /\ \A q \in Requests : ~Pending(q)
    BY <1>2 DEF Stop, Pending, Syncing
  <2> QED BY <2>1, <2>2, <2>3, <2>4 DEF SyncInv, HeldTrue, VerifiedTrue, SettledTrue, Pending, Syncing
<1>3. CASE Tick \/ UNCHANGED vars
  <2>1. UNCHANGED <<columns, status, req, provider, disturbed>>
    BY <1>3 DEF Tick, LoadRows, Reconcile, FetchFails, vars, rowVars
  <2> QED BY <2>1 DEF SyncInv, HeldTrue, VerifiedTrue, SettledTrue, Agrees, Pending, Syncing
<1> QED BY <1>1, <1>2, <1>3

LEMMA SyncStep ==
  ASSUME Inv, SyncInv, [Next]_vars
  PROVE  SyncInv'
<1>0. \A q \in Requests : req[q] \in Entry(Len(clientRevs), Len(agentRevs))
  BY EntryOfRequest DEF Inv
<1>1. ASSUME NEW q \in Requests, WriteAgent(q) PROVE SyncInv'
  BY <1>1, ColumnsWritten DEF WriteAgent, Pending, Syncing
<1>2. ASSUME NEW q \in Requests, Propagate(q) PROVE SyncInv'
  <2> DEFINE effective == Effective(agentRevs[req[q].agent], ClientRev(req[q].client))
             pc == IF effective # req[q].cols THEN "committed" ELSE "done"
  <2>1. pc = "committed" \/ columns' = columns
    <3>1. columns \in Configs /\ columns' = Mirrored(q, effective)
      BY <1>2 DEF Inv, TypeOK, Propagate
    <3>2. effective = req[q].cols => Mirrored(q, effective) = columns
      BY <3>1 DEF Mirrored, Configs
    <3> QED BY <3>1, <3>2
  <2>2. Disturb(q, Over(pc), columns' # columns) /\ ~Pending(q)
        /\ UNCHANGED <<status, provider, disturbed>>
    BY <1>2 DEF Propagate, Pending, Syncing
  <2>3. pc \in {"committed", "done"}
    OBVIOUS
  <2> HIDE DEF pc
  <2> QED BY <2>1, <2>2, <2>3, ColumnsWritten
<1>4. ASSUME NEW q \in Requests,
             LoadAgent(q) \/ ReadClient(q) \/ WriteClient(q) \/ Collide(q)
      PROVE  SyncInv'
  <2>1. /\ req'[q].pc \in {"write", "ready", "saved", "done"}
        /\ \A p \in Requests : p # q => req'[p] = req[p]
    <3>1. CASE LoadAgent(q)
      BY <1>0, <3>1 DEF LoadAgent, Entry, Inv, TypeOK
    <3>2. CASE ReadClient(q)
      BY <1>0, <3>2 DEF ReadClient, Entry, Inv, TypeOK
    <3>3. CASE WriteClient(q)
      BY <1>0, <3>3 DEF WriteClient, Entry, Inv, TypeOK
    <3>4. CASE Collide(q)
      BY <3>4 DEF Collide, Over, NoRequest, Inv, TypeOK
    <3> QED BY <1>4, <3>1, <3>2, <3>3, <3>4
  <2>2. ~Pending(q) /\ UNCHANGED <<columns, status, provider, disturbed>>
    BY <1>4 DEF LoadAgent, ReadClient, WriteClient, Collide, Pending, Syncing, rowVars
  <2> QED BY <2>1, <2>2, QuietStep
<1>5. ASSUME NEW q \in Requests, NEW on \in {"agent", "client", "resync"}, Begin(q, on)
      PROVE  SyncInv'
  <2>1. /\ req'[q].pc \in {"client", "write", "agent"}
        /\ \A p \in Requests : p # q => req'[p] = req[p]
    BY <1>0, <1>5 DEF Begin, Entry, Inv, TypeOK
  <2>2. ~Pending(q) /\ UNCHANGED <<columns, status, provider, disturbed>>
    BY <1>5 DEF Begin, Pending, Syncing, rowVars
  <2> QED BY <2>1, <2>2, QuietStep
<1>6. ASSUME NEW q \in Requests, Serve(q) PROVE SyncInv'
  BY <1>1, <1>2, <1>4, <1>6, ReadColumnsSync, PushSync, VerifySync, CloseSync DEF Serve
<1> QED BY <1>5, <1>6, OutsideSync DEF Next

(* A status of synced is true, for any number of requests and faults. *)
THEOREM SyncedStatusIsTrue == Spec => []SyncedIsTrue
<1>1. Init => SyncInv
  <2> SUFFICES ASSUME Init PROVE SyncInv
    OBVIOUS
  <2>1. \A q \in Requests : req[q].pc = "none"
    BY DEF Init, NoRequest
  <2>2. Agrees(columns)
    BY DEF Init, Agrees
  <2> QED BY <2>1, <2>2 DEF SyncInv, HeldTrue, VerifiedTrue, SettledTrue, Syncing
<1>2. Inv /\ SyncInv /\ [Next]_vars => SyncInv'
  BY SyncStep
<1>3. SyncInv => SyncedIsTrue
  BY DEF SyncInv, SettledTrue, SyncedIsTrue, Quiet, Pending, Syncing
<1> QED BY <1>1, <1>2, <1>3, InitInv, NextInv, PTL DEF Spec

-----------------------------------------------------------------------------
(* The CRM integration. *)

Held == [pc : {"loaded", "invalidated"}, op : Ops, seen : Rows \union {Absent}]

(* What is not a connection was asked for of a row. *)
Meant ==
  \A q \in Writers :
    route[q].pc \in {"loaded", "invalidated"} /\ route[q].op.op # "connect" => route[q].seen # Absent

Typed == CrmTypeOK /\ Meant

(* Nothing known of a configuration is younger than its end: neither the entry
   of the cache nor what a reader has found.  ServedIsRecent is not inductive
   without the readers, whose answers arrive later than they were read. *)
Younger ==
  /\ gone[ConfigOf(row)] = 0
  /\ gone[cache.cfg] <= cache.age
  /\ \A r \in Readers : get[r].pc = "found" => gone[get[r].cfg] <= get[r].age

CrmInv == Typed /\ Younger

-----------------------------------------------------------------------------
(* What the operators return. *)

LEMMA ConfigOfRow ==
  ASSUME NEW r \in Rows \union {Absent}
  PROVE  ConfigOf(r) \in Served
BY DEF ConfigOf, Served, Rows

LEMMA JudgedIsStatus ==
  ASSUME NEW n, NEW known
  PROVE  Judged(n, known) \in Statuses /\ (Judged(n, known) = "ok" <=> Resolves(n, known))
BY DEF Judged, Statuses

LEMMA OldersAreTicks ==
  ASSUME NEW n \in 0 .. TTL
  PROVE  Older(n) \in 0 .. TTL /\ (n < TTL => Older(n) = n + 1) /\ (n = TTL => Older(n) = TTL)
BY CrmConfigAssumption DEF Older

LEMMA OlderGrows ==
  ASSUME NEW n \in 0 .. TTL, NEW k \in 0 .. TTL, n <= k
  PROVE  Older(n) <= Older(k)
BY CrmConfigAssumption DEF Older

(* A route past its look-up holds an operation and the row it loaded. *)
LEMMA RouteHolds ==
  ASSUME CrmTypeOK, NEW q \in Writers, route[q].pc \in {"loaded", "invalidated"}
  PROVE  route[q] \in Held /\ route[q].op \in Ops /\ route[q].seen \in Rows \union {Absent}
<1>1. route[q] \in {Idle, [pc |-> "done"]} \union Held
  BY DEF CrmTypeOK, Held
<1>2. route[q] # Idle /\ route[q] # [pc |-> "done"]
  BY DEF Idle
<1> QED BY <1>1, <1>2 DEF Held

LEMMA OpFields ==
  ASSUME NEW op \in Ops
  PROVE  /\ op.op \in {"connect", "update"} => op.base \in Bases /\ op.key \in Keys
         /\ op.op = "mappings" => op.map \in Maps
BY DEF Ops

LEMMA NameIsName ==
  ASSUME NEW op \in Ops, op.op \in {"connect", "update"}, NEW old \in Names
  PROVE  NameAfter(op, old) \in Names
<1>1. op.key \in Keys
  BY OpFields
<1>2. op.key.kind = "env" => op.key.name \in Names
  BY <1>1 DEF Keys
<1> QED BY <1>2 DEF NameAfter

LEMMA ConfigAfterIsConfig ==
  ASSUME NEW op \in Ops, NEW cfg \in CrmConfigs
  PROVE  ConfigAfter(op, cfg) \in CrmConfigs
<1>1. CASE op.op = "update"
  <2>1. NameAfter(op, cfg.name) \in Names /\ op.base \in Bases
    BY <1>1, NameIsName, OpFields DEF CrmConfigs
  <2> QED BY <1>1, <2>1 DEF ConfigAfter, CrmConfigs
<1>2. CASE op.op = "mappings"
  BY <1>2, OpFields DEF ConfigAfter, CrmConfigs
<1>3. CASE op.op \notin {"update", "mappings"}
  BY <1>3 DEF ConfigAfter
<1> QED BY <1>1, <1>2, <1>3

LEMMA SecretsStayNames ==
  ASSUME CrmTypeOK, NEW op, NEW n \in Names
  PROVE  SecretsAfter(op, n) \subseteq Names
BY DEF SecretsAfter, CrmTypeOK

(* A row that is written over stays a row with its id. *)
LEMMA WrittenIsRow ==
  ASSUME CrmTypeOK, NEW q \in Writers, route[q].op \in Ops, row \in Rows, route[q].seen \in Rows
  PROVE  /\ RowWritten(q) \in Rows
         /\ RowWritten(q).id = row.id
         /\ row = route[q].seen =>
              LET cfg == ConfigAfter(route[q].op, row.cfg)
              IN  /\ RowWritten(q).cfg = cfg
                  /\ RowWritten(q).status = Judged(cfg.name, SecretsAfter(route[q].op, cfg.name))
<1> DEFINE op == route[q].op  seen == route[q].seen
           cfg == ConfigAfter(op, seen.cfg)
           judged == Judged(cfg.name, SecretsAfter(op, cfg.name))
           newCfg == Changed(cfg, seen.cfg, row.cfg)
           newStatus == Changed(judged, seen.status, row.status)
<1>1. cfg \in CrmConfigs /\ seen.cfg \in CrmConfigs
  BY ConfigAfterIsConfig DEF Rows
<1>2. judged \in Statuses
  BY JudgedIsStatus
<1>3. newCfg \in CrmConfigs /\ newStatus \in Statuses
  BY <1>1, <1>2 DEF Changed, Rows
<1>4. RowWritten(q) = [row EXCEPT !.cfg = newCfg, !.status = newStatus]
  BY DEF RowWritten
<1>5. RowWritten(q) \in Rows /\ RowWritten(q).id = row.id /\ RowWritten(q).cfg = newCfg
      /\ RowWritten(q).status = newStatus
  BY <1>3, <1>4 DEF Rows
<1>6. row = seen => newCfg = cfg /\ newStatus = judged
  BY DEF Changed
<1> QED BY <1>5, <1>6

-----------------------------------------------------------------------------
(* Type correctness. *)

(* A route that ends, or moves on with what it holds. *)
LEMMA RouteStep ==
  ASSUME Typed, NEW q \in Writers,
         NEW e \in {Idle, [pc |-> "done"]} \union Held, route' = [route EXCEPT ![q] = e],
         e.pc \in {"loaded", "invalidated"} /\ e.op.op # "connect" => e.seen # Absent
  PROVE  route' \in [Writers -> {Idle, [pc |-> "done"]} \union Held] /\ Meant'
<1>1. route' \in [Writers -> {Idle, [pc |-> "done"]} \union Held]
  BY DEF Typed, CrmTypeOK, Held
<1>2. \A p \in Writers : route'[p] = IF p = q THEN e ELSE route[p]
  BY DEF Typed, CrmTypeOK
<1> QED BY <1>1, <1>2 DEF Typed, Meant

LEMMA EndStep ==
  ASSUME Typed, NEW q \in Writers, End(q)
  PROVE  route' \in [Writers -> {Idle, [pc |-> "done"]} \union Held] /\ Meant'
BY RouteStep DEF End

LEMMA AgedType ==
  ASSUME CrmTypeOK, Aged
  PROVE  gone' \in [Served -> 0 .. TTL]
BY CrmConfigAssumption DEF Aged, CrmTypeOK

THEOREM CrmTypeInitial == CrmInit => CrmTypeOK
<1> SUFFICES ASSUME CrmInit PROVE CrmTypeOK
  OBVIOUS
<1>1. row \in Rows \union {Absent} /\ made \in Nat
  BY JudgedIsStatus DEF CrmInit, Rows, CrmConfigs
<1>2. cache \in [cfg : Served, age : 0 .. TTL]
  BY CrmConfigAssumption DEF CrmInit, NoEntry, Served
<1>3. gone \in [Served -> 0 .. TTL]
  BY CrmConfigAssumption DEF CrmInit
<1> QED BY <1>1, <1>2, <1>3 DEF CrmInit, CrmTypeOK

LEMMA TypedKept == Typed /\ [CrmNext]_crmVars => Typed'
<1> SUFFICES ASSUME Typed, [CrmNext]_crmVars PROVE Typed'
  OBVIOUS
<1>0. CrmTypeOK /\ Meant
  BY DEF Typed
<1>1. ASSUME NEW q \in Writers, Load(q) PROVE Typed'
  <2>1. PICK op \in Ops : /\ Accepted(op, row)
                         /\ route' = [route EXCEPT ![q] = [pc |-> "loaded", op |-> op, seen |-> row]]
    BY <1>1 DEF Load
  <2>2. op.op # "connect" => row # Absent
    BY <2>1 DEF Accepted
  <2>3. [pc |-> "loaded", op |-> op, seen |-> row] \in Held
    BY <1>0 DEF Held, CrmTypeOK
  <2>4. route' \in [Writers -> {Idle, [pc |-> "done"]} \union Held] /\ Meant'
    BY <2>1, <2>2, <2>3, RouteStep
  <2> QED BY <1>0, <1>1, <2>4 DEF Load, Typed, CrmTypeOK, Held
<1>2. ASSUME NEW q \in Writers, Invalidate(q) PROVE Typed'
  <2> DEFINE e == [route[q] EXCEPT !.pc = "invalidated"]
  <2>1. route[q] \in Held
    BY <1>0, <1>2, RouteHolds DEF Invalidate
  <2>2. e \in Held /\ e.op = route[q].op /\ e.seen = route[q].seen
    BY <2>1 DEF Held
  <2>3. route' = [route EXCEPT ![q] = e]
    BY <1>2 DEF Invalidate
  <2>4. e.op.op # "connect" => e.seen # Absent
    BY <1>0, <1>2, <2>2 DEF Meant, Invalidate
  <2>5. route' \in [Writers -> {Idle, [pc |-> "done"]} \union Held] /\ Meant'
    BY <2>2, <2>3, <2>4, RouteStep
  <2>6. NoEntry \in [cfg : Served, age : 0 .. TTL]
    BY CrmConfigAssumption DEF NoEntry, Served
  <2> QED BY <1>0, <1>2, <2>5, <2>6 DEF Invalidate, Typed, CrmTypeOK, Held
<1>3. ASSUME NEW q \in Writers, Connect(q) PROVE Typed'
  <2> DEFINE op == route[q].op  name == NameAfter(op, Canonical)
  <2>1. op \in Ops /\ op.op = "connect"
    BY <1>0, <1>3, RouteHolds DEF Connect
  <2>2. name \in Names /\ op.base \in Bases
    BY <2>1, NameIsName, OpFields, CrmConfigAssumption
  <2>3. row' \in Rows /\ made' \in Nat
    BY <1>0, <1>3, <2>2, JudgedIsStatus DEF Connect, Created, Rows, CrmConfigs, CrmTypeOK
  <2>4. secrets' \subseteq Names
    BY <1>0, <1>3, <2>2, SecretsStayNames DEF Connect
  <2> QED BY <1>0, <1>3, <2>3, <2>4, EndStep, AgedType DEF Connect, Typed, CrmTypeOK, Held
<1>4. ASSUME NEW q \in Writers, Write(q) PROVE Typed'
  <2>1. route[q].op \in Ops /\ route[q].seen \in Rows /\ row \in Rows
    BY <1>0, <1>4, RouteHolds DEF Write, Same, Meant, CrmTypeOK
  <2>2. row' \in Rows
    BY <1>0, <1>4, <2>1, WrittenIsRow DEF Write
  <2>3. ConfigAfter(route[q].op, route[q].seen.cfg).name \in Names
    BY <2>1, ConfigAfterIsConfig DEF Rows, CrmConfigs
  <2>4. secrets' \subseteq Names
    BY <1>0, <1>4, <2>3, SecretsStayNames DEF Write
  <2> QED BY <1>0, <1>4, <2>2, <2>4, EndStep, AgedType DEF Write, Typed, CrmTypeOK, Held
<1>5. ASSUME NEW q \in Writers, Store(q) PROVE Typed'
  <2>1. route[q].op \in Ops /\ route[q].seen \in Rows
    BY <1>0, <1>5, RouteHolds DEF Store, Meant
  <2>2. row' \in Rows \union {Absent}
    BY <1>0, <1>5, JudgedIsStatus DEF Store, Rejudged, CrmTypeOK, Rows
  <2>3. secrets' \subseteq Names
    BY <1>0, <1>5, <2>1, SecretsStayNames DEF Store, Rows, CrmConfigs
  <2> QED BY <1>0, <1>5, <2>2, <2>3, EndStep, AgedType DEF Store, Typed, CrmTypeOK, Held
<1>6. ASSUME NEW q \in Writers, Disconnect(q) PROVE Typed'
  BY <1>0, <1>6, EndStep, AgedType DEF Disconnect, Typed, CrmTypeOK, Held
<1>7. ASSUME NEW q \in Writers, Fail(q) PROVE Typed'
  BY <1>0, <1>7, EndStep DEF Fail, Typed, CrmTypeOK, Held
<1>8. ASSUME NEW r \in Readers, Miss(r) \/ Query(r) \/ Keep(r) PROVE Typed'
  <2>1. Meant'
    BY <1>0, <1>8 DEF Miss, Query, Keep, Meant
  <2>2. CASE Miss(r)
    BY <1>0, <2>1, <2>2, CrmConfigAssumption DEF Miss, Typed, CrmTypeOK
  <2>3. CASE Query(r)
    <3>1. get[r] \in [pc : {"query"}, age : 0 .. TTL]
      BY <1>0, <2>3 DEF Query, CrmTypeOK, Idle
    <3>2. ConfigOf(row) \in Served
      BY <1>0, ConfigOfRow DEF CrmTypeOK
    <3> QED BY <1>0, <2>1, <2>3, <3>1, <3>2 DEF Query, Typed, CrmTypeOK
  <2>4. CASE Keep(r)
    <3>1. get[r] \in [pc : {"found"}, age : 0 .. TTL, cfg : Served]
      BY <1>0, <2>4 DEF Keep, CrmTypeOK, Idle
    <3> QED BY <1>0, <2>1, <2>4, <3>1 DEF Keep, Typed, CrmTypeOK
  <2> QED BY <1>8, <2>2, <2>3, <2>4
<1>9. ASSUME TimePasses PROVE Typed'
  <2>1. Meant'
    BY <1>0, <1>9 DEF TimePasses, Meant
  <2>2. cache' \in [cfg : Served, age : 0 .. TTL]
    BY <1>0, <1>9, OldersAreTicks DEF TimePasses, CrmTypeOK
  <2>3. gone' \in [Served -> 0 .. TTL]
    BY <1>0, <1>9, OldersAreTicks, CrmConfigAssumption DEF TimePasses, CrmTypeOK
  <2>4. ASSUME NEW r \in Readers
        PROVE  get'[r] \in {Idle} \union [pc : {"query"}, age : 0 .. TTL]
                 \union [pc : {"found"}, age : 0 .. TTL, cfg : Served]
    <3>1. get[r] \in {Idle} \union [pc : {"query"}, age : 0 .. TTL]
                 \union [pc : {"found"}, age : 0 .. TTL, cfg : Served]
      BY <1>0 DEF CrmTypeOK
    <3>2. get'[r] = IF get[r] = Idle THEN Idle ELSE [get[r] EXCEPT !.age = Older(@)]
      BY <1>9 DEF TimePasses
    <3> QED BY <3>1, <3>2, OldersAreTicks
  <2>5. DOMAIN get' = Readers /\ get' = [r \in Readers |-> get'[r]]
    BY <1>9 DEF TimePasses
  <2> QED BY <1>0, <1>9, <2>1, <2>2, <2>3, <2>4, <2>5 DEF TimePasses, Typed, CrmTypeOK
<1>10. CASE UNCHANGED crmVars
  BY <1>0, <1>10 DEF crmVars, Typed, CrmTypeOK, Meant
<1> QED
  BY <1>1, <1>2, <1>3, <1>4, <1>5, <1>6, <1>7, <1>8, <1>9, <1>10 DEF CrmNext, Route

(* The row, the credentials, the cache, the routes and the readers keep their types. *)
THEOREM CrmTypeCorrect == CrmSpec => []CrmTypeOK
<1>1. CrmInit => Typed
  BY CrmTypeInitial DEF CrmInit, Typed, Meant, Idle
<1>2. Typed => CrmTypeOK
  BY DEF Typed
<1> QED BY <1>1, <1>2, TypedKept, PTL DEF CrmSpec

-----------------------------------------------------------------------------
(* The cache. *)

(* A commit leaves nothing younger than its end. *)
LEMMA AgedStep ==
  ASSUME CrmInv, Typed', Aged, UNCHANGED <<cache, get>>
  PROVE  Younger'
<1>1. ConfigOf(row') \in Served
  BY ConfigOfRow DEF Typed, CrmTypeOK
<1>2. gone'[ConfigOf(row')] = 0
  BY <1>1 DEF Aged
<1>3. \A c \in Served : gone'[c] <= gone[c]
  BY CrmConfigAssumption DEF Aged, CrmInv, Typed, CrmTypeOK
<1>4. cache \in [cfg : Served, age : 0 .. TTL] /\ gone[cache.cfg] <= cache.age
      /\ gone[cache.cfg] \in 0 .. TTL /\ gone'[cache.cfg] \in 0 .. TTL
  BY DEF CrmInv, Younger, Typed, CrmTypeOK
<1>5. gone'[cache'.cfg] <= cache'.age
  BY <1>3, <1>4, CrmConfigAssumption
<1>6. ASSUME NEW r \in Readers, get[r].pc = "found"
      PROVE  gone'[get[r].cfg] <= get[r].age
  <2>1. get[r] \in [pc : {"found"}, age : 0 .. TTL, cfg : Served]
    BY <1>6 DEF CrmInv, Typed, CrmTypeOK, Idle
  <2>2. gone[get[r].cfg] \in 0 .. TTL /\ gone'[get[r].cfg] \in 0 .. TTL
    BY <2>1 DEF CrmInv, Typed, CrmTypeOK
  <2> QED BY <1>3, <1>6, <2>1, <2>2, CrmConfigAssumption DEF CrmInv, Younger
<1> QED BY <1>2, <1>5, <1>6 DEF Younger

LEMMA YoungerKept == CrmInv /\ [CrmNext]_crmVars => CrmInv'
<1> SUFFICES ASSUME CrmInv, [CrmNext]_crmVars PROVE CrmInv'
  OBVIOUS
<1>0. CrmTypeOK /\ Younger /\ Typed /\ Typed'
  BY TypedKept DEF CrmInv, Typed
<1>1. ASSUME NEW q \in Writers,
             Connect(q) \/ Write(q) \/ Store(q) \/ Disconnect(q)
      PROVE  Younger'
  BY <1>0, <1>1, AgedStep DEF Connect, Write, Store, Disconnect
<1>2. ASSUME NEW q \in Writers, Invalidate(q) PROVE Younger'
  <2>1. gone[Absent] \in 0 .. TTL
    BY <1>0 DEF CrmTypeOK, Served
  <2> QED BY <1>0, <1>2, <2>1, CrmConfigAssumption DEF Invalidate, NoEntry, Younger
<1>3. ASSUME NEW q \in Writers, Load(q) \/ Fail(q) PROVE Younger'
  BY <1>0, <1>3 DEF Load, Fail, Younger
<1>4. ASSUME NEW r \in Readers, Miss(r) PROVE Younger'
  BY <1>0, <1>4 DEF Miss, Younger, CrmTypeOK
<1>5. ASSUME NEW r \in Readers, Query(r) PROVE Younger'
  <2>1. get[r] \in [pc : {"query"}, age : 0 .. TTL]
    BY <1>0, <1>5 DEF Query, CrmTypeOK, Idle
  <2>2. \A p \in Readers : get'[p] =
          IF p = r THEN [pc |-> "found", age |-> get[r].age, cfg |-> ConfigOf(row)] ELSE get[p]
    BY <1>0, <1>5 DEF Query, CrmTypeOK
  <2> QED BY <1>0, <1>5, <2>1, <2>2, CrmConfigAssumption DEF Query, Younger
<1>6. ASSUME NEW r \in Readers, Keep(r) PROVE Younger'
  <2>1. \A p \in Readers : get'[p] = IF p = r THEN Idle ELSE get[p]
    BY <1>0, <1>6 DEF Keep, CrmTypeOK
  <2> QED BY <1>0, <1>6, <2>1 DEF Keep, Younger, Idle
<1>7. ASSUME TimePasses PROVE Younger'
  <2>1. ConfigOf(row) \in Served /\ row' = row
    BY <1>0, <1>7, ConfigOfRow DEF TimePasses, CrmTypeOK
  <2>2. gone'[ConfigOf(row')] = 0
    BY <1>7, <2>1 DEF TimePasses
  <2>3. ASSUME NEW c \in Served, NEW k \in 0 .. TTL, gone[c] <= k
        PROVE  gone'[c] <= Older(k)
    <3>1. gone[c] \in 0 .. TTL
      BY <1>0 DEF CrmTypeOK
    <3>2. gone'[c] = IF c = ConfigOf(row) THEN 0 ELSE Older(gone[c])
      BY <1>7 DEF TimePasses
    <3> QED BY <2>3, <3>1, <3>2, OlderGrows, OldersAreTicks, CrmConfigAssumption
  <2>4. gone'[cache'.cfg] <= cache'.age
    <3>1. cache.cfg \in Served /\ cache.age \in 0 .. TTL /\ gone[cache.cfg] <= cache.age
      BY <1>0 DEF CrmTypeOK, Younger
    <3>2. cache'.cfg = cache.cfg /\ cache'.age = Older(cache.age)
      BY <1>0, <1>7 DEF TimePasses, CrmTypeOK
    <3> QED BY <2>3, <3>1, <3>2
  <2>5. ASSUME NEW r \in Readers, get'[r].pc = "found"
        PROVE  gone'[get'[r].cfg] <= get'[r].age
    <3>1. get'[r] = IF get[r] = Idle THEN Idle ELSE [get[r] EXCEPT !.age = Older(@)]
      BY <1>7 DEF TimePasses
    <3>2. get[r] \in {Idle} \union [pc : {"query"}, age : 0 .. TTL]
            \union [pc : {"found"}, age : 0 .. TTL, cfg : Served]
      BY <1>0 DEF CrmTypeOK
    <3>3. get[r] \in [pc : {"found"}, age : 0 .. TTL, cfg : Served] /\ get[r] # Idle
      BY <2>5, <3>1, <3>2 DEF Idle
    <3>4. get'[r].cfg = get[r].cfg /\ get'[r].age = Older(get[r].age)
      BY <3>1, <3>3
    <3>5. gone[get[r].cfg] <= get[r].age
      BY <1>0, <3>3 DEF Younger
    <3> QED BY <2>3, <3>3, <3>4, <3>5
  <2> QED BY <2>2, <2>4, <2>5 DEF Younger
<1>8. ASSUME UNCHANGED crmVars PROVE Younger'
  BY <1>0, <1>8 DEF crmVars, Younger
<1>9. Younger'
  BY <1>1, <1>2, <1>3, <1>4, <1>5, <1>6, <1>7, <1>8 DEF CrmNext, Route
<1> QED BY <1>0, <1>9 DEF CrmInv

(* Whatever the cache serves was the committed configuration less than a time
   to live ago, however many readers and routes interleave. *)
THEOREM ServedRecently == CrmSpec => []ServedIsRecent
<1>1. CrmInit => CrmInv
  <2> SUFFICES ASSUME CrmInit PROVE CrmInv
    OBVIOUS
  <2>1. CrmTypeOK /\ Meant
    BY CrmTypeInitial DEF CrmInit, Meant, Idle
  <2>2. ConfigOf(row) \in Served /\ Absent \in Served
    BY <2>1, ConfigOfRow DEF CrmTypeOK, Served
  <2>3. Younger
    BY <2>1, <2>2, CrmConfigAssumption DEF CrmInit, Younger, NoEntry, Idle
  <2> QED BY <2>1, <2>3 DEF CrmInv, Typed
<1>2. CrmInv => ServedIsRecent
  BY CrmConfigAssumption DEF CrmInv, Younger, Typed, CrmTypeOK, ServedIsRecent
<1> QED BY <1>1, <1>2, YoungerKept, PTL DEF CrmSpec

-----------------------------------------------------------------------------
(* The status, and rows that were replaced. *)

LEMMA StatusKept == Typed /\ StatusTrue /\ [CrmNext]_crmVars => StatusTrue'
<1> SUFFICES ASSUME Typed, StatusTrue, [CrmNext]_crmVars PROVE StatusTrue'
  OBVIOUS
<1>0. CrmTypeOK /\ Meant
  BY DEF Typed
<1>1. ASSUME NEW q \in Writers, Connect(q) PROVE StatusTrue'
  <2> DEFINE op == route[q].op  name == NameAfter(op, Canonical)
  <2>1. row'.cfg.name = name /\ row'.status = Judged(name, SecretsAfter(op, name))
        /\ secrets' = SecretsAfter(op, name)
    BY <1>1 DEF Connect, Created
  <2> QED BY <2>1, JudgedIsStatus DEF StatusTrue
<1>2. ASSUME NEW q \in Writers, Write(q) PROVE StatusTrue'
  <2>1. route[q].op \in Ops /\ route[q].seen \in Rows /\ row \in Rows
    BY <1>0, <1>2, RouteHolds DEF Write, Same, Meant, CrmTypeOK
  <2>2. CASE row = route[q].seen
    <3> DEFINE cfg == ConfigAfter(route[q].op, row.cfg)
    <3>1. row'.cfg = cfg /\ row'.status = Judged(cfg.name, SecretsAfter(route[q].op, cfg.name))
      BY <1>0, <1>2, <2>1, <2>2, WrittenIsRow DEF Write
    <3>2. secrets' = SecretsAfter(route[q].op, cfg.name)
      BY <1>2, <2>2 DEF Write
    <3> QED BY <3>1, <3>2, JudgedIsStatus DEF StatusTrue
  <2>3. CASE row # route[q].seen
    BY <1>2, <2>3 DEF Write, StatusTrue
  <2> QED BY <2>2, <2>3
<1>3. ASSUME NEW q \in Writers, Store(q) PROVE StatusTrue'
  <2> DEFINE known == SecretsAfter(route[q].op, route[q].seen.cfg.name)
  <2>1. secrets' = known
    BY <1>3 DEF Store
  <2>2. CASE row = Absent
    BY <1>3, <2>2 DEF Store, StatusTrue
  <2>3. CASE row # Absent
    <3>1. row \in Rows /\ row' = [row EXCEPT !.status = Judged(row.cfg.name, known)]
      BY <1>0, <1>3, <2>3 DEF Store, Rejudged, CrmTypeOK
    <3>2. row'.cfg = row.cfg /\ row'.status = Judged(row.cfg.name, known)
      BY <3>1 DEF Rows
    <3> QED BY <2>1, <3>2, JudgedIsStatus DEF StatusTrue
  <2> QED BY <2>2, <2>3
<1>4. ASSUME NEW q \in Writers, Disconnect(q) PROVE StatusTrue'
  BY <1>4 DEF Disconnect, StatusTrue, Resolves
<1>5. CASE UNCHANGED <<row, secrets, overtaken>>
  BY <1>5 DEF StatusTrue, Resolves
<1> QED
  BY <1>1, <1>2, <1>3, <1>4, <1>5
  DEF CrmNext, Route, Load, Invalidate, Fail, Miss, Query, Keep, TimePasses, crmVars

(* The status says whether the credential resolves, unless the last write met a
   row that had moved since its route loaded it. *)
THEOREM StatusIsTrue == CrmSpec => []StatusTrue
<1>1. CrmInit => Typed /\ StatusTrue
  <2> SUFFICES ASSUME CrmInit PROVE Typed /\ StatusTrue
    OBVIOUS
  <2>1. Typed
    BY CrmTypeInitial DEF CrmInit, Typed, Meant, Idle
  <2>2. StatusTrue
    BY JudgedIsStatus DEF CrmInit, StatusTrue
  <2> QED BY <2>1, <2>2
<1> QED BY <1>1, TypedKept, StatusKept, PTL DEF CrmSpec

(* A change dies with the row it was meant for: no step of a route brings a
   disconnected integration back, nor reaches the one connected after it. *)
THEOREM NeverResurrected == CrmSpec => NotResurrected
<1> DEFINE Astep ==
      \A q \in Writers :
        route[q].pc = "invalidated" /\ route'[q].pc = "done" /\ route[q].op.op # "connect" =>
          \/ ConfigOf(row') = ConfigOf(row)
          \/ row # Absent /\ row.id = route[q].seen.id
<1>1. Typed /\ [CrmNext]_crmVars => [Astep]_crmVars
  <2> SUFFICES ASSUME Typed, [CrmNext]_crmVars, NEW q \in Writers,
                      route[q].pc = "invalidated", route'[q].pc = "done", route[q].op.op # "connect"
               PROVE  \/ ConfigOf(row') = ConfigOf(row)
                      \/ row # Absent /\ row.id = route[q].seen.id
    OBVIOUS
  <2>0. CrmTypeOK
    BY DEF Typed
  <2>1. CASE row' = row
    BY <2>1
  <2>2. ASSUME NEW p \in Writers, End(p) PROVE p = q
    BY <2>0, <2>2 DEF End, CrmTypeOK
  <2>3. ASSUME NEW p \in Writers, Write(p) \/ Disconnect(p)
        PROVE  ConfigOf(row') = ConfigOf(row) \/ (row # Absent /\ row.id = route[q].seen.id)
    BY <2>2, <2>3 DEF Write, Disconnect, Same
  <2>4. ASSUME NEW p \in Writers, Connect(p) PROVE FALSE
    BY <2>2, <2>4 DEF Connect
  <2>5. ASSUME NEW p \in Writers, Store(p) PROVE ConfigOf(row') = ConfigOf(row)
    <3>1. CASE row = Absent
      BY <2>5, <3>1 DEF Store
    <3>2. CASE row # Absent
      <4>1. row \in Rows /\ row' = Rejudged(p)
        BY <2>0, <2>5, <3>2 DEF Store, CrmTypeOK
      <4>2. row'.cfg = row.cfg /\ row' \in Rows
        BY <4>1, JudgedIsStatus DEF Rejudged, Rows
      <4> QED BY <3>2, <4>2, CrmConfigAssumption DEF ConfigOf
    <3> QED BY <3>1, <3>2
  <2> QED
    BY <2>1, <2>3, <2>4, <2>5
    DEF CrmNext, Route, Load, Invalidate, Fail, Miss, Query, Keep, TimePasses, crmVars
<1>2. CrmInit => Typed
  BY CrmTypeInitial DEF CrmInit, Typed, Meant, Idle
<1>3. [][Astep]_crmVars <=> NotResurrected
  BY DEF NotResurrected
<1> QED BY <1>1, <1>2, <1>3, TypedKept, PTL DEF CrmSpec
=============================================================================
