------------------------------ MODULE CrmConfig ------------------------------
(***************************************************************************)
(* The CRM integration of one client: its row in client_integrations, the  *)
(* encrypted credentials beside it, the routes that change them            *)
(* (backend/app/integrations/crm_config_router.py) and the cache through   *)
(* which syncs, imports and voice turns read it                            *)
(* (integrations/integration_store.py).                                    *)
(*                                                                         *)
(* A route loads the row, drops the cache entry, and then flushes, judges  *)
(* the credential and commits in one transaction, which holds the write    *)
(* lock from its first flush.  Its UPDATE names the row it loaded and only *)
(* the columns that differ from what it loaded.  A reader that misses      *)
(* takes the time, queries, and stores what it found.                      *)
(*                                                                         *)
(* A master key is configured; enabled is never changed; configurations    *)
(* that no longer parse are not here.                                      *)
(***************************************************************************)
EXTENDS Naturals

CONSTANTS
  Bases, Maps,     \* the Airtable base, the field mappings
  Names,           \* names of credentials; a submitted name looks like a variable's
  Canonical,       \* f"{provider}_api_key"
  EnvSet,          \* variables of the environment that are set
  Absent,
  TTL,             \* _DEFAULT_TTL_SECONDS, in ticks
  Writers,         \* bound: requests that change the configuration
  Readers          \* calls of IntegrationStore.get under way at once

VARIABLES
  row,             \* client_integrations: Absent, or its id, config and status
  secrets,         \* client_secrets: the names that have a value
  cache,           \* _cache: NoEntry, or a config (Absent: "not connected") and its age
  route,           \* route[q]: where a route is, what it loaded, what it will change
  get,             \* get[r]: where a reader is, what its query returned
  made,            \* rows ever created, which numbers them
  gone,            \* history: ticks since a config was last the committed one
  overtaken        \* history: the last write met a row that had moved since its load

crmVars == <<row, secrets, cache, route, get, made, gone, overtaken>>

-----------------------------------------------------------------------------
CrmConfigs == [base : Bases, map : Maps, name : Names]
Served == CrmConfigs \union {Absent}
Statuses == {"ok", "degraded"}

(* What a route may ask for; a key is a variable's name or a literal value. *)
Keys == {[kind |-> "env", name |-> n] : n \in Names \ {Canonical}}
          \union {[kind |-> "literal"], [kind |-> "keep"]}

Ops == [op : {"connect", "update"}, base : Bases, key : Keys]
         \union [op : {"mappings"}, map : Maps]
         \union {[op |-> "disconnect"], [op |-> "secret"], [op |-> "import"]}

Rows == [id : Nat, cfg : CrmConfigs, status : Statuses]

ASSUME CrmConfigAssumption ==
  /\ TTL \in Nat \ {0}
  /\ Canonical \in Names /\ EnvSet \subseteq Names \ {Canonical}
  /\ Absent \notin CrmConfigs /\ Absent \notin Rows

NoEntry == [cfg |-> Absent, age |-> TTL]
Idle == [pc |-> "idle"]

CrmTypeOK ==
  /\ row \in Rows \union {Absent}
  /\ secrets \subseteq Names
  /\ cache \in [cfg : Served, age : 0 .. TTL]
  /\ route \in [Writers -> {Idle, [pc |-> "done"]}
                \union [pc : {"loaded", "invalidated"}, op : Ops, seen : Rows \union {Absent}]]
  /\ get \in [Readers -> {Idle} \union [pc : {"query"}, age : 0 .. TTL]
                \union [pc : {"found"}, age : 0 .. TTL, cfg : Served]]
  /\ made \in Nat
  /\ gone \in [Served -> 0 .. TTL]
  /\ overtaken \in BOOLEAN

(* resolve_client_secret: the database, then the environment. *)
Resolves(name, known) == name \in known \/ name \in EnvSet

Judged(name, known) == IF Resolves(name, known) THEN "ok" ELSE "degraded"

ConfigOf(r) == IF r = Absent THEN Absent ELSE r.cfg

(* Nothing is connected, or one integration whose key is in the environment. *)
CrmInit ==
  /\ \/ row = Absent /\ made = 0
     \/ /\ \E b \in Bases, m \in Maps, n \in Names \ {Canonical} :
             row = [id |-> 1, cfg |-> [base |-> b, map |-> m, name |-> n],
                    status |-> Judged(n, {})]
        /\ made = 1
  /\ secrets = {}
  /\ cache = NoEntry
  /\ route = [q \in Writers |-> Idle]
  /\ get = [r \in Readers |-> Idle]
  /\ gone = [c \in Served |-> IF c = ConfigOf(row) THEN 0 ELSE TTL]
  /\ overtaken = FALSE

-----------------------------------------------------------------------------
(* The routes. *)

(* 404 when there is no row, 409 when there is one; an import needs a name that
   is a variable's, and the variable. *)
Accepted(op, r) ==
  CASE op.op = "connect" -> r = Absent /\ op.key.kind # "keep"
    [] op.op = "import"  -> r # Absent /\ r.cfg.name \in EnvSet
    [] OTHER             -> r # Absent

Load(q) ==
  /\ route[q] = Idle
  /\ \E op \in Ops :
       /\ Accepted(op, row)
       /\ route' = [route EXCEPT ![q] = [pc |-> "loaded", op |-> op, seen |-> row]]
  /\ UNCHANGED <<row, secrets, cache, get, made, gone, overtaken>>

(* IntegrationStore.invalidate, which every route calls before it commits. *)
Invalidate(q) ==
  /\ route[q].pc = "loaded"
  /\ route' = [route EXCEPT ![q].pc = "invalidated"]
  /\ cache' = NoEntry
  /\ UNCHANGED <<row, secrets, get, made, gone, overtaken>>

(* The name the configuration will have, and the credentials stored with it: a
   literal key goes under the name that is in use. *)
NameAfter(op, old) == IF op.key.kind = "env" THEN op.key.name ELSE old

ConfigAfter(op, cfg) ==
  CASE op.op = "update"   -> [cfg EXCEPT !.base = op.base, !.name = NameAfter(op, cfg.name)]
    [] op.op = "mappings" -> [cfg EXCEPT !.map = op.map]
    [] OTHER              -> cfg

SecretsAfter(op, name) ==
  IF op.op \in {"secret", "import"} \/ (op.op \in {"connect", "update"} /\ op.key.kind = "literal")
  THEN secrets \union {name} ELSE secrets

Changed(new, old, now) == IF new # old THEN new ELSE now

(* A mutant: the credential is judged before the new name is in the row. *)
RowWritten_Early(q) ==
  LET op == route[q].op  seen == route[q].seen
      cfg == ConfigAfter(op, seen.cfg)
      status == Judged(seen.cfg.name, SecretsAfter(op, seen.cfg.name))
  IN  [row EXCEPT !.cfg = Changed(cfg, seen.cfg, @), !.status = Changed(status, seen.status, @)]

(* The row it loaded, changed: recompute_and_persist_status reads the object
   the session holds, not the row as it is by now. *)
RowWritten(q) ==
  LET op == route[q].op  seen == route[q].seen
      cfg == ConfigAfter(op, seen.cfg)
      status == Judged(cfg.name, SecretsAfter(op, cfg.name))
  IN  [row EXCEPT !.cfg = Changed(cfg, seen.cfg, @), !.status = Changed(status, seen.status, @)]

(* A credential for a row that was replaced: the new row is read and judged. *)
Rejudged(q) ==
  [row EXCEPT !.status = Judged(row.cfg.name, SecretsAfter(route[q].op, route[q].seen.cfg.name))]

(* _upsert_integration_row, with the mappings a connection starts with. *)
Created(q) ==
  LET op == route[q].op  name == NameAfter(op, Canonical)
  IN  \E m \in Maps :
        row' = [id |-> made + 1, cfg |-> [base |-> op.base, map |-> m, name |-> name],
                status |-> Judged(name, SecretsAfter(op, name))]

End(q) == route' = [route EXCEPT ![q] = [pc |-> "done"]]

(* Every commit moves the clocks of the configs that stop being the committed one. *)
Aged == gone' = [c \in Served |-> IF c = ConfigOf(row') THEN 0 ELSE gone[c]]

Connect(q) ==
  /\ route[q].pc = "invalidated" /\ route[q].op.op = "connect"
  /\ row = Absent
  /\ Created(q)
  /\ made' = made + 1
  /\ secrets' = SecretsAfter(route[q].op, NameAfter(route[q].op, Canonical))
  /\ overtaken' = FALSE
  /\ End(q) /\ Aged
  /\ UNCHANGED <<cache, get>>

(* A mutant: whatever row the client has by now is written. *)
Same_Any(q) == row # Absent

Same(q) == row # Absent /\ row.id = route[q].seen.id

(* update_integration, save_integration_mappings, put_integration_secret and
   import_secret_from_env, on the row they loaded. *)
Write(q) ==
  /\ route[q].pc = "invalidated" /\ route[q].op.op \in {"update", "mappings", "secret", "import"}
  /\ Same(q)
  /\ row' = RowWritten(q)
  /\ secrets' = SecretsAfter(route[q].op, ConfigAfter(route[q].op, route[q].seen.cfg).name)
  /\ overtaken' = (row # route[q].seen)
  /\ End(q) /\ Aged
  /\ UNCHANGED <<cache, get, made>>

(* A credential is stored although the row it was meant for is gone. *)
Store(q) ==
  /\ route[q].pc = "invalidated" /\ route[q].op.op \in {"secret", "import"}
  /\ ~Same(q)
  /\ row' = IF row = Absent THEN Absent ELSE Rejudged(q)
  /\ secrets' = SecretsAfter(route[q].op, route[q].seen.cfg.name)
  /\ overtaken' = FALSE
  /\ End(q) /\ Aged
  /\ UNCHANGED <<cache, get, made>>

(* disconnect_integration: the DELETE names the row that was loaded; the
   credentials stay. *)
Disconnect(q) ==
  /\ route[q].pc = "invalidated" /\ route[q].op.op = "disconnect"
  /\ row' = IF Same(q) THEN Absent ELSE row
  /\ End(q) /\ Aged
  /\ UNCHANGED <<secrets, cache, get, made, overtaken>>

(* Nothing is written: the row it meant is gone (the UPDATE matches nothing) or
   was made by somebody else (unique constraint), or the values are refused. *)
Fail(q) ==
  /\ route[q].pc \in {"loaded", "invalidated"}
  /\ End(q)
  /\ UNCHANGED <<row, secrets, cache, get, made, gone, overtaken>>

-----------------------------------------------------------------------------
(* IntegrationStore.get. *)

Miss(r) ==
  /\ get[r] = Idle /\ cache.age >= TTL
  /\ get' = [get EXCEPT ![r] = [pc |-> "query", age |-> 0]]
  /\ UNCHANGED <<row, secrets, cache, route, made, gone, overtaken>>

Query(r) ==
  /\ get[r].pc = "query"
  /\ get' = [get EXCEPT ![r] = [pc |-> "found", age |-> get[r].age, cfg |-> ConfigOf(row)]]
  /\ UNCHANGED <<row, secrets, cache, route, made, gone, overtaken>>

(* A mutant: the entry is as young as its arrival. *)
Keep_Late(r) ==
  /\ get[r].pc = "found"
  /\ cache' = [cfg |-> get[r].cfg, age |-> 0]
  /\ get' = [get EXCEPT ![r] = Idle]
  /\ UNCHANGED <<row, secrets, route, made, gone, overtaken>>

(* The entry is as old as the request: the time was taken before the query. *)
Keep(r) ==
  /\ get[r].pc = "found"
  /\ cache' = [cfg |-> get[r].cfg, age |-> get[r].age]
  /\ get' = [get EXCEPT ![r] = Idle]
  /\ UNCHANGED <<row, secrets, route, made, gone, overtaken>>

(* Time passes; past the time to live nothing tells two ages apart. *)
Older(n) == IF n < TTL THEN n + 1 ELSE n

TimePasses ==
  /\ cache' = [cache EXCEPT !.age = Older(@)]
  /\ get' = [r \in Readers |-> IF get[r] = Idle THEN Idle ELSE [get[r] EXCEPT !.age = Older(@)]]
  /\ gone' = [c \in Served |-> IF c = ConfigOf(row) THEN 0 ELSE Older(gone[c])]
  /\ UNCHANGED <<row, secrets, route, made, overtaken>>

Route(q) ==
  \/ Load(q) \/ Invalidate(q)
  \/ Connect(q) \/ Write(q) \/ Store(q) \/ Disconnect(q) \/ Fail(q)

CrmNext ==
  \/ \E q \in Writers : Route(q)
  \/ \E r \in Readers : Miss(r) \/ Query(r) \/ Keep(r)
  \/ TimePasses

CrmSpec == CrmInit /\ [][CrmNext]_crmVars

-----------------------------------------------------------------------------
(* The cache "plus a short TTL safety net": an entry that is served was the
   committed configuration less than a time to live ago, although a route drops
   the entry before it commits and a reader may put the old one back. *)
ServedIsRecent == cache.age < TTL => gone[cache.cfg] < TTL

(* The status says whether the credential resolves, once a route has written
   over the row it had loaded and until one writes over a row that moved. *)
StatusTrue ==
  row # Absent /\ ~overtaken => (row.status = "ok" <=> Resolves(row.cfg.name, secrets))

(* A change that was meant for an integration disconnected meanwhile shows
   neither as a row that comes back nor in the one connected after it; the
   status alone may be judged again. *)
NotResurrected ==
  [][\A q \in Writers :
       route[q].pc = "invalidated" /\ route'[q].pc = "done" /\ route[q].op.op # "connect" =>
         \/ ConfigOf(row') = ConfigOf(row)
         \/ row # Absent /\ row.id = route[q].seen.id]_crmVars
=============================================================================
