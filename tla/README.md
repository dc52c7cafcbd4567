# Verification of Qora's call automation

TLA+ models, TLC runs and TLAPS proofs of the parts of Qora (`src/backend/app`)
that decide which lead is called, how often, and what is remembered of it.

## The system

Qora sells by telephone with ElevenLabs voice agents. One FastAPI process on
asyncio owns a SQLite database (WAL mode). There are no threads in the domain
code: a *step* of the program is what runs between two `await`s, and what other
sessions see of it is a *commit*. Three facts of the platform shape every model:

* `get_session` (`core/database.py:99`) commits on exit and rolls back on
  `Exception`, not on `CancelledError`;
* objects keep the column values they were loaded with across commits
  (`expire_on_commit=False`), and an ORM write is an UPDATE by primary key of
  the changed columns. A check on a loaded object followed by a write is a
  check on stale data followed by a *blind* write;
* a full rollback expires every loaded object, and reading an expired attribute
  in async code raises.

### Components

| Component | State | Operations | Interacts with |
|---|---|---|---|
| Durable jobs (`jobs/`) | `background_jobs` rows; `_active_job_ids`, task set; listeners on callers' sessions | enqueue, run with retry and dead-letter, shutdown, recover | close of a call enqueues `summarize` and `transcript_flush`; the summarizer enqueues `crm_sync` |
| Scheduler and auto-dialer (`scheduler/`) | `scheduled_calls` rows | create (rules engine, tool, manual, technical retry), cancel, complete, reschedule, claim, dial, resolve, reap | dials through outbound; resolved by the close of a call |
| Outbound dial (`outbound/`) | `call_sessions.telephony_status`, lead locks | dial under a per-lead lock, probe, webhook linkage, sweep, reconciliation | ElevenLabs API, webhooks, scheduler |
| Call sessions (`calls/`, `sweeper.py`) | `call_sessions`, `transcript_turns` | create, add turn, close, merge siblings, reconcile, sweep | jobs, scheduler, leads |
| Voice (`voice/`) | in-memory session store | initiation, custom-LLM turns, cleanup | call sessions, tools |
| Summarizer (`summarizer.py`, `analysis/`) | analysis columns, facts, interest history | read, ten LLM calls, next-action rules, write in a savepoint, failure marker | runs as a job or at an operator's request; creates scheduled calls, enqueues CRM sync |
| Leads, tools (`leads/`, `tools/`) | lead status, do-not-call, counters, custom fields, profile facts | transitions, capture, follow-up | scheduler, summarizer, CRM import |
| Agent configuration (`tenants/`, `agents/`, `elevenlabs/`) | revisions, mirrored columns, sync status, drift report | edit, roll back, sync, reconcile | remote API, voice |
| CRM (`integrations/`) | integration row, encrypted credentials, cache; leads | connect, edit, disconnect, cached read, batch import, sync | leads, summarizer |
| Entitlements, auth, skills, onboarding, analytics | CRUD tables | checks and edits | routes |

### What makes each part correct

| Component | Properties |
|---|---|
| Durable jobs | One task per job; no task for an uncommitted row; executed at least once before completed, at most once more per interruption; attempts bounded; every accepted job settles. |
| Auto-dialer | One dial of a row calls unless a stop cut that dial short; a row with a recorded session is not claimed again; terminal rows stay terminal; one parked technical retry per lead; no row stays claimed. |
| Outbound dial | One live call per lead; a late answer does not undo a webhook; no completion without evidence; a blocked lead is freed. |
| Call sessions | A close counts and resolves once; a row is merged once and loses no turn; every row ends. |
| Voice | A call's turns are in rows of that call; one row per call unless a named accident made another; a closed row counts the turns it holds. |
| Summarizer | Hard stops come before promises; computed times are callable; an analysis is raised for an outage or a refusal and nothing less, and a call that could not be read never closes a lead. Facts of one call are written together or not at all; duplicates come from a cut-short run or an operator; a completed job wrote its analysis and handed the push over; do-not-call is final. |
| Leads, tools | A captured field and its fact agree until somebody else writes the field. |
| Agent configuration | The columns follow the active revisions unless changes overlapped; "synced" is true; a lasting difference is reported. |
| CRM | The cache serves what was committed within a time to live; the status is true of the configuration; a change meant for a disconnected integration does not come back; two leads with one phone come from overlapping look-ups; an import moves a lead forward only. |
| Entitlements | A cap holds under concurrent checks. |

### What is hard

* **Interleavings between awaits.** Webhooks, sweeps, the reaper, operators and
  dials write the same two tables; most writes are blind.
* **Crashes.** The provider may have placed a call that the database does not
  know of; a handler may have committed what its job row does not say.
* **Ambiguity.** A timeout of the provider request may or may not have placed a
  call, and a call costs money and annoys a lead.
* **Commits one does not see.** The RELEASE of a savepoint commits when it is the
  outermost transaction of the driver, so what follows it in the same function is
  a second step that may never come.
* **Rollback as a broadcast.** One lost race expires the rows of a whole cycle.
* **Liveness.** Something must move every claimed row, every live session and
  every accepted job to an end.

## Modules

| Module | Models |
|---|---|
| `DurableJob` | What the executor promises a submitter: an accepted job is executed at least once before it is completed, and an outcome is final. |
| `JobExecutor` | `jobs/executor.py` and the session semantics it relies on. |
| `AutoDialer` | The scheduler cycle, its operators, the dial and the ends of calls. |
| `CallLife` | What the call rows of a lead promise: opened once and one at a time, settled, never reopened; evidence that a call ended is kept and belongs to settled rows. |
| `OutboundCall` | The `call_sessions` rows of one lead under the dial, the webhooks, `/end`, the probe and both sweeps. |
| `SipEvidence` | How the rows of an agent's calls get the network's answer: the probe after each dial and the reconciliation pass of the sweep. |
| `CallWindow` | The arithmetic of the hours in which a client may be called. |
| `CallAnalysis` | One run of the post-call analysis: what came back, and what the next-action rules make of it. |
| `PostCall` | The summarize jobs of several calls of a lead, an operator's re-analysis, the CRM hand-over. |
| `VoiceTurns` | Custom-LLM requests, the in-memory session store, and the rows turns are written to and merged between. |
| `AgentConfig` | Configuration revisions, the mirrored columns, the sync to the voice provider and the reconciler. |
| `CrmConfig` | The CRM integration of a client, its credentials and its cached reader. |
| `LeadRecords` | Leads as imports, routes and `capture_data` write them. |
| `JobExecutorProofs`, `AutoDialerProofs`, `OutboundCallProofs`, `SipEvidenceProofs`, `VoiceTurnsProofs`, `LeadRecordsProofs` | TLAPS proofs about the module they are named for. |
| `SummaryProofs` | TLAPS proofs about `CallWindow`, `CallAnalysis` and `PostCall`. |
| `ConfigProofs` | TLAPS proofs about `AgentConfig` and `CrmConfig`. |
| `MCJobExecutor`, `MCAutoDialer`, `MCOutboundCall`, `MCSipEvidence`, `MCCallAnalysis`, `MCPostCall`, `MCVoiceTurns`, `MCAgentConfig`, `MCCrmConfig`, `MCLeadRecords` | Instances for TLC. |

How they fit together:

* `AutoDialer` and `OutboundCall` model the same dial from its two sides.
  `AutoDialer` keeps of a session only whether it is live, completed or otherwise
  ended, because that is all the mapping of `resolve_scheduled_call_for_session`
  asks; `OutboundCall` keeps every telephony status and leaves the scheduled rows
  out.
* `SipEvidence` takes up where `OutboundCall` stops: the same probe and the same
  sweep, for what they read and keep of the network's answer rather than for what
  they do to the status. Its dials, webhooks and verdicts are those of
  `OutboundCall`, reduced to what makes a row a candidate.
* `JobExecutor` takes a handler as a black box that commits once when it
  succeeds; `PostCall` opens the box for the summarize and CRM handlers and keeps
  of the executor what matters to them (attempts, backoff, recovery).
* `CallAnalysis` computes, without a database, what `PostCall` lets the model
  answer; it EXTENDS `CallWindow`, which the scheduler computes its times with.
* `VoiceTurns` has the turns and the sibling merge that `OutboundCall` leaves
  out, and leaves out the telephony.
* `CrmConfig` is how an import finds its integration, `LeadRecords` what the
  import then does to the leads.

`DurableJob` and `CallLife` are the abstract specifications; `JobExecutor` and
`OutboundCall` are shown to implement them (by TLC and by proof).

### JobExecutor

`status`, `attempts`, `limit` are the committed rows; `active` is
`_active_job_ids`; `task` holds, for each job, two possible asyncio tasks and
where each is suspended (two slots are enough to see a job dispatched twice);
`sess`, `onCommit`, `onRollback` are the caller's session and the listeners
armed on it. An action is the code between two awaits: `EnqueueInSession` and
`EnqueueAlone` the two branches of `enqueue`; `SessionCommit`,
`SessionRollback`, `SessionClose` what the caller's `get_session` does, with
the listeners it fires; `Load`, `HandlerSucceeds`, `HandlerRaises`,
`SaveCompleted`, `SaveDead`, `SaveFailed`, `Wake` the body of `_run_job`;
`TaskDies` an uncaught database error; `Stop` a crash or `shutdown`; `Recover`
the startup scan. `effects`, `interrupted` are history variables: handler
commits, and attempts cut short.

The handler is a black box that commits once when it succeeds. Its backoff
time is abstract. A job id is used once.

### AutoDialer

`status`, `tech` (trigger reason `tech_retry`) and `outcome`
(`outcome_session_id`) are the rows; `sess[l]` is the sequence of call sessions
of lead `l`, each `active`, `completed` or `ended`, which is all that the
mapping table of the scheduler distinguishes. `pc` is the step of
`run_scheduler_cycle`, `todo` the rows the current loop has loaded and not
visited, `won` the rows claimed and not dialed, `cur`, `seen`, `call` the row
in hand, the session status the reaper read and the session the dial returned.
`line` and `by` are the lead lock and its owner: `line` is `"free"` or which of the
dial's two requests is being waited for, and `rung` those the provider acted on.
After a transient answer (5xx, 429, a reset) the request is repeated under the same
lock (`Transient`), whether or not the provider had placed the call; so one dial may
make it call twice, and `placed` counts the dials of a row that made it call at
all. `op` is an operator's request between its read and its write.

The conditional UPDATEs (`Claim`, `ReapA`) test the committed row; every other
write (`OpWrite`, `Forgo`, `FailRow`, `ReapB`) does not, as in the code. A lost
release and an index conflict end the cycle (`EndCycle`), because they roll the
session back and the next row read raises. Time is nondeterministic: whether a
stranded row has passed the claim timeout, whether a pending row is due,
whether a lead is callable.

Assumption on time: the probe (8 s after a dial) and the sweep (5 or 30 minutes)
do not end a session whose dial is still waiting for the provider.

### OutboundCall

`tel`, `status`, `conv`, `pcid`, `ser` are the columns `telephony_status`,
`status`, `elevenlabs_conversation_id`, `provider_call_id` and
`session_end_received` of row *n*, the *n*-th dial of the lead; conversation *n*
is the call that dial asks the provider for. `rung` and `over` are the
provider: calls placed, conversations ended. `line`, `placed` is the dial in
progress (first attempt or retry; has the provider acted yet), `probes` the
probes in flight, `swept` and `stale` the rows the two sweeps hold between
SELECT and commit, `req` the requests with the row each has loaded, `age` how
many of the thresholds 5, 10 and 30 minutes a row has passed.

The dial is `Dial` (guard 3 and the committed `dialing` row), `PlaceCall` (the
provider acts), and one action per classified answer. A request goes
`Known` or `Unknown`, then `ByProviderCall`, `ByLead` or `Reconcile`, then
`Link` and `Close`, or `Adopt`: each is what lies between two awaits, and each
lookup copies the row into `req`, because the code decides by that copy.
`Written` is the ORM's rule that only a changed attribute is in the UPDATE: when
the value computed from the copy equals the copy, what others stored survives.
Only `Persist` and `Probe` are UPDATEs with a condition on the stored status.

Assumptions on time: a dial in progress and a waiting probe are over within
five minutes (the provider request times out after seconds and is tried twice;
a probe waits eight seconds), so `Tick` waits for them; older rows are not
younger than newer ones. A request or a sweep may last any time.

Left out: the merge of sibling rows and the transcripts, the jobs a close
enqueues, the SIP fields the probe and the reconciliation pass fill in
(`SipEvidence`), and validation before the lock.

### SipEvidence

Row *n* is the *n*-th dial of an agent, conversation *n* the call it asks for.
`tel` is what `telephony_status` amounts to for the pass (a candidate or not),
`lead`, `conv`, `sip`, `source` and `attempts` are the columns `lead_id`,
`elevenlabs_conversation_id`, `sip_*`, `reconciliation_source` (`reconciled_at` is
set with it) and `reconciliation_attempts`; `"failed"` stands for `failed` and
`stale_in_call`, which the pass treats alike. `dialog` is the last INVITE of each
call and the response to it, `over` the conversations that ended: a call that was
challenged is asked again, one that was refused or answered ends. A dial that is
repeated on a transient error and rings twice counts as one call.

`Webhook(k, n)` is the end of call `k` as it reaches row `n`: its own, or another row
of the same lead, which the look-up by lead finds as an orphan
(`outbound/linkage.py:134`) and which `_reconcile_session` may also take. Which row
is found is the subject of `OutboundCall`; here any dialed row of the lead may be,
because a handler may write long after it has looked. A row keeps the conversation
it was loaded with, and one without gets the call's. From then on the probe and the
pass take that stored conversation, so the row's evidence is the other call's:
`linked` (history) says which rows those are.

`probe[n]` is the task of a dial: `Leaves` when the row is reconciled already,
`ProbeMatches` (the stored conversation or the one match by time, and its status at
that moment), `ProbeGivesUp` at any early return, `ProbeWrites` (the messages, later
than the status, and one of two writes: a conditional UPDATE on a routing failure,
else a blind ORM write). The pass is `SelectCandidates` (oldest first, up to `Cap`),
per row `PassMatches`, `PassSkips` or `ListFails` and then `PassFails`,
`PassFindsNothing` or `PassFinds`, and one commit of the cycle, `PassCommits` or
`CommitFails`. `batch`, `hand`, `writes` are the rows loaded, in hand, and changed
but not committed. The query of the rows and the list the provider gives are one
step with the match made of it: nothing of the program runs between them that
another actor could see.

The provider lists the newest `PageSize` conversations of the agent:
`list_recent_conversations` accepts a time window and does not send it
(`elevenlabs/service.py:461`). `Near` says which calls start within
`_MATCH_WINDOW_SECONDS` of which rows; a row's own call always does.

Assumptions on time: cycles are five minutes apart, a dial and its probe are over in
less, so each is met by one cycle at most (`met`). With `MaxAttempts` of at least 2
(the default is 5) a probe therefore never writes over a row that was given up.
`routed` and `unlisted` are history too: the conversation a routing failure came
from, and the rows matched with another call while their own was not listed.

### CallWindow

`calculate_scheduled_at` (`scheduler/service.py`), its twin in the next-action
engine, and the check before a dial. A local time is a day, an hour and a
position in the hour, so that days, hours and minutes of any length are covered;
a timezone is an offset, without changes for daylight saving. `Clamp` moves a
time into the half-open window; `MayDialAt` is the dial's own test, which compares
for equality what the scheduling computed.

### CallAnalysis

`_call_gpt_summarize` asks six dimensions and four pipelines at once
(`Gather`: each answers, fails, or is refused), runs the interest blend, and hands
what came back to the rules engine: `Decide` (seven rules in the order of
`next_action.py`), `Validate` (the second LLM call, which may correct or fail) or
`Guess` (no rule matched). `snapshot` is the lead as it was read before the calls,
`answer` what they returned, `proposal` what the engine decided, `decision` what the
summarizer goes on with. A rule is an operator that yields at most one result;
`Rules` lists them in the code's order and the first that matches decides.

A refusal is not an error: `.parse()` returns `parsed = None`, five of the six
dimensions hand that on (`outcome.py:184`), and nothing counts it as a failure. The
engine reads it as the default, and `PostCallAnalysis(**fields)`, whose fields admit
no None, raises after it (`summarizer.py:1024`): `Conclude` ends a run with a
`Refusal` in `"raised"`, as `Gather` does when there is no lead to decide for. The
summary and the interest agents turn a refusal into an ordinary failure.

### PostCall

For each call: `call`, `turns` (none, one still in memory, saved), the lead's
`status` and `dnc`, the `analysis` row's status, the number of active `facts` of
a key, the parked recontact row `retry`, the `job` with `attempts` and `waiting`,
and for each runner (the job, or an operator) its position `run`. A runner goes
`Ask` (reads and ends its transaction), the model answers (`GptFails` or not),
`Write` (everything in one savepoint, whose RELEASE is the commit), `Hand` (the
`crm_sync` enqueue, a second transaction), and the executor saves the outcome.
`Stop` may come between any two. `written`, `cut`, `reruns`, `skipped`, `lost` are
histories: they say which executions the properties excuse.

The database errors of the executor are left out here (`JobExecutor` has them),
as is the mode without an executor.

### VoiceTurns

`store` and `entry` are `SessionStore` (the entries in it, of all ever made),
`req[q]` a request with the entry it found and the row it writes to, `user[q]`
the row the task that writes the user's turn will write to, `row` the
`call_sessions`. A turn is a request and its speaker (`Turns`: a request says one
thing and is answered once), and `turn[t]` is the row it is in, 0 while it is in none;
so a merge is a reassignment (`Merged`) and a count a cardinality. A row's `counted`
is what `total_user_turns` and `total_agent_turns` say of it, `late` (history) the
turns written after its close. `Ask`, `Create` or `Refuse`, and `Reply`,
`ReplyTimesOut` or `ReplyLost` (the stream breaks, or only the write fails, which the
entry's turn count does not notice) are a request between its awaits; `SaveUserTurn`
is the task nobody waits for. `EndById`, `PostCall`, `Reconcile` and `EndByRow` are
the four ways to close a row; each merges any subset of the siblings (the window
of ten minutes around the start). `Expire` is the five minutes of the store,
`Abandon` the ten-minute sweep, and both count as faults, since the call may
still run.

### AgentConfig

`agentRevs`, `clientRevs` are the numbered revisions, `columns` what the voice
path reads, `provider` the remote copy, `status` what the last sync said.
A request loads the client's and the agent's row at two moments (`Begin`,
`LoadAgent`, `ReadClient`), writes a revision and the columns that differ from
those it loaded (`WriteAgent`; `WriteClient` and `Propagate`, which are two
commits), or meets a number already taken (`Collide`). Then it syncs:
`ReadColumns`, `Push`, `Verify`, `Close`, with their failures. `LoadRows` and
`Reconcile` are the reconciler, which reports and never pushes.
`astray` records that the last change wrote over something that had moved;
`disturbed` that a sync was not alone or the provider was edited behind it.

### CrmConfig

`row` is the client's line in `client_integrations`, `secrets` the names that
have a value, `cache` the entry and its age, `route[q]` a route with the row it
loaded and what it will change, `get[r]` a call of `IntegrationStore.get`. A route
is `Load`, `Invalidate`, and one of `Connect`, `Write`, `Store`, `Disconnect`,
`Fail`: the cache entry is dropped before the commit, as in every route of
`crm_config_router.py`. The row has an identity (`id`): an UPDATE meets the row
that was loaded or nothing. A reader is `Miss`, `Query`, `Keep`. `gone` counts the
ticks since a configuration was the committed one; `overtaken` records that the last
write met a row that had moved since it was loaded.

### LeadRecords

`leads` are the rows, each with one custom field and the `captured:` fact that
must tell the same; `imp[i]` an import (`Fetch`, then per record `SkipRecord` or
`LookUp` and `Update`, `Create` or `PersistFails`), with the statuses its session
has loaded and does not refresh; `cap[c]` a `capture_data` (`ReadField`,
`Capture`, `CaptureFails`); `route[o]` a status change. `looked` and `captured` in
a row are history: how many rows there were when its creator looked for one with
its phone, and whether the field was last written by a capture.

## Runs

| Run | Instance | Shows |
|---|---|---|
| `job_executor` | 2 jobs, limits {1, 3}, 2 stops, 1 database error, fair | one task per job; attempts and effects bounded by what was interrupted; a committed job is settled unless a stop caught it in backoff; the executor refines `DurableJob` |
| `dialer` | 2 rows of one lead, 2 dials, 1 operator request, 1 stop, fair | a second dial that calls for a row needs a stop; one live call and one parked technical retry per lead; terminal rows stay terminal but for operators; no claimed row is stranded |
| `call_safety` | 2 dials, 1 request at a time, no stop | the probe takes nothing back; the rows refine `CallLife`, which forbids a completion without evidence |
| `call_liveness` | 1 dial, 2 requests, 1 stop | every row that blocks the lead settles, and none stays initiated |
| `sip_evidence` | 2 dials in each other's window, cap 1, 2 attempts, fair | no answered call is failed for its routing; rows are given up exactly when their attempts are used up; evidence of another call has a named cause; the pass comes to every row that `Cap` older ones do not block |
| `call_counted_twice` | violation | two requests that close one row both count it on the lead |
| `call_analysis` | days of 4 hours of 2 ticks, 3 clocks, 2 commitments | hard stops come before anything promised; every time computed is callable; only an outage or a refusal raises; a call that could not be read never closes a lead |
| `post_call` | 2 calls, 1 fact key, 1 recontact, 2 runs a job, 1 fault, 1 re-analysis | summaries are whole; duplicates are accounted for; a completed job has done its work; do-not-call is final |
| `voice_turns` | 2 calls of one lead, one names its conversation, 3 requests, 2 rows, 1 fault | turns stay in their call; the totals of a closed row are those of its turns; a call makes one row |
| `agent_config` | 2 requests, 2 fields (one whose standard is NULL), 1 value, 2 faults | columns follow the active revisions; "synced" is true; a lasting difference is reported |
| `crm_config` | 3 requests, 1 reader, 3 credential names, a time to live of 2 ticks | what the cache serves is recent; the status is true; a change meant for a disconnected integration does not come back |
| `lead_records` | 2 imports of 3 tables, 1 capture, 1 status change, 2 leads | duplicates are accounted for; a captured field and its fact agree; an import goes forward only |

### Bounds

* `job_executor`: jobs share only `active`, and each step names one job (the
  proofs make this precise), so two suffice. Two stops allow a stop during
  recovery from a stop.
* `dialer`: two rows of one lead are the least with a row in progress and a parked
  retry; two sessions per lead are the least with a redial, and each dial may
  repeat its request. `OpRequests` is what
  operators ask for: the rows are interchangeable and every end an operator may
  write is terminal, so one request stands for all. A third row, beside a parked
  retry and a dial, is covered by the proofs only.
* `call_*`: two dials are the least at which a webhook may find the wrong row and
  an open row must block the next dial; with them one request at a time and no
  stop is what TLC exhausts in the time a run may take (1.2 million states), and
  two overlapping requests and a stop are run on one dial. The proofs lift these
  bounds. `MaxSessions`, `Requests` and `MaxStops` are the only bounds of
  `OutboundCall`; `age` is capped by the last threshold the code knows.
* `sip_evidence`: two dials are the least with an ambiguous match and with a row
  that one older one can keep from its turn (`Cap` 1); they go to one lead or to
  two. `Responses` is what the network may do with each call: a challenge or an
  answer with the first, a refusal with the second, which is enough to tell two
  calls apart. The proofs lift all of these.
* `call_analysis`: a clock before, inside and after the window, and commitments on
  both sides of each; rules look at one commitment at a time, and two show that
  the first usable one is taken. Scores lie on both sides of `MinInterest`. The
  commitments and objections answer, fail or are refused together, and of the other
  three dimensions all fail or none does: an outage by one answer only is
  in reach of each group.
* `post_call`: two overlapping summaries of one lead, one of which is retried;
  one fault puts a stop, a failed call or a failed write at every step.
* `voice_turns`: a second call is what the look-up by lead may confuse; two
  requests of the first race to make its row; two rows are the least with a merge.
  `SoleAgent` is TRUE: with several active agents the cached path refuses every
  turn (see Observations), which only removes behaviours.
* `agent_config`, `crm_config`: two overlapping changes, or a change, a disconnect
  and a new connection (hence three writers), show every stale read; the proofs
  lift these bounds. A time to live of two ticks separates "just stored", "older"
  and "expired".
* `lead_records`: two imports and one capture are the least in which a look-up, a
  loaded status and a read field are stale; three tables repeat a phone, change
  its status and leave the field out.

The bounds are named in each module's CONSTANTS (`\* bound:`); guards keep
counters below them and nothing else depends on them.

`CHECK_DEADLOCK FALSE`: with its bounds used up a model may have nothing left
to do. `agent_config` ticks for ever and is checked for deadlock.

### Fairness

The event loop resumes every suspended task; HTTP and LLM calls have
timeouts; loops tick for ever and survive exceptions; the platform restarts a
stopped process. The sweep is fair, webhooks, operators and callers are not.
Release of a stranded row is strongly fair: `updated_at` of a stranded row does
not change, so every tick after the claim timeout selects it.

In `OutboundCall` a call placed ends, time passes, the probe and the sweeps run,
a handler's awaits return. The provider repeats a webhook until it is answered,
which is strong fairness of its delivery; nobody owes a call to `/end`, a new
dial or a stop.

In `SipEvidence` the pass goes on (its loop catches what a cycle raises) and a dial
and its probe return; the provider owes nothing, and may fail every request.

In `AgentConfig` only the reconciler's tick is fair (`reconciler_tick` loops for
ever and catches what a pass raises); nobody owes a sync its end, and
`DriftIsReported` says only what the reports owe to a difference that lasts.

## Proofs

`JobExecutorProofs` proves for any set of jobs, limits and bounds: type
correctness, `SingleTask`, `LiveTaskKnown`, `AttemptsBounded`, `EffectsBounded`
and that `Spec` implements `DurableJob`. Assumptions: limits are positive
naturals, bounds are naturals.

None of these is inductive alone. The invariant is `JobInv(j)` for each job: it
ties the listeners to the session's state (a commit listener is armed only
while the row is uncommitted, and always together with the rollback listener),
the task's position to the row's status, and `attempts` and `effects` to
`interrupted` position by position (an attempt in flight is one not yet
accounted for). Every action touches one job or treats all alike, so the proof
has one lemma per action and a frame lemma for the jobs it leaves alone.

`AutoDialerProofs` proves for any rows, leads, limits, operators and stops:
`TypeOK`, `NoUnaccountedRedial`, `RecordedNotRequeued`, `OneLiveCall`,
`OneParkedRetry` and `StaysTerminal`.
Assumptions: every row has a lead, and the markers `NoRow` and `Manual` are not
rows. The argument counts: `MayDial(r)` says that the provider may still be asked
for row *r* (it is absent, pending, won, claimed and in nobody's hand, or its
dial waits to be placed), and then the dials that made it call are at most those a
stop cut short. The first `PlaceCall` of a dial uses the standing up; only `Stop`
gives it back, and adds one to `cut` when it does. The rest of the invariant says what the loop
holds at each program counter: `won` is empty while it reaps, the row in hand is
not pending, and a lock that is taken for a row is the loop's own.
The last two rest on `QueueInv`. `RowStep` says what a step may do with the status
of a row no operator wrote: an ended row stays ended, and a row in `won` is in
progress, so that a write the loop makes blindly meets the row it claimed. Only a
failing dial parks a retry (`Parks`), after it has looked for an active one, and
nothing makes an ended row active: `ParkedUnique`.

`OutboundCallProofs` proves for any number of dials, requests and stops:
`TypeOK`, `FASafe`, `ProbePreserves` and that `Spec` implements `CallLife`. The
only assumption is that the bounds are naturals.

Requests and sweeps act on stale copies, so the invariant may say of a copy only
what cannot become false meanwhile: the row it names is dialed, if the copy was
settled the row still is, evidence that was seen is still there, and the call in
hand has ended. `Monotone` states that no step takes these back; it is what
makes the copies' part of the invariant survive every other actor's step.
`Contiguous` (rows are dialed in order) and `LineInv` (the provider acts at most
once per attempt) give the types. `StatusWrites` lists every way a status can
change, and both `ProbePreserves` and the refinement are read off it.

`SipEvidenceProofs` proves for any number of dials, any windows of the match, any
page size, cap and responses: `TypeOK`, `RoutingErrorIsTrue`, `ParkedInTime` and
`NeverGuessed`. Assumptions: a row's own call starts within its window, and at least
two attempts. `CycleInv` says where a row can be while a cycle has it in hand
(`InCycle`): in one place only (`OncePerCycle`), with attempts left and nothing
written but by its probe, and only before its first failure if a probe still runs
(`Overlap`). Without it a cycle could give up a row that its probe then fills in.
`RoutedInv` keeps that a conversation seen ended was refused or answered, which
outlives the moment it was seen; `OwnInv` that a row has another row's call only if
it is in `unlisted`, or in `linked` with that very call, whichever of the column, the
probe and the pass holds it.

`SummaryProofs` proves, for every window, day length and offset, that a clamped
time is allowed, is not before the time asked for, is the earliest such time, and
is its own clamp (`ClampAllowed`, `ClampNotBefore`, `ClampEarliest`,
`ClampIdempotent`). The last is what makes the dial's comparison for equality
right: a time the scheduling computed is never postponed again. Assumption: start
before end, as the client routes require.

Of `CallAnalysis` it proves all four invariants. `Gathered` says what kind of thing
each answer is; upon it `StopInv`, `CauseInv`, `UnreadInv` and `TimesInv` follow one
property each through the stages of a run. `CauseInv` keeps that what reached the
engine was no outage, so that a refusal is the only cause left when it raises.
`UnreadInv` needs that the rules never
fall through for a call without an outcome (`UnreadRules`: `NoUsefulConversation`
takes it when no earlier rule has), or else the model would guess. `TimesInv` needs
that whatever a rule computes, by a delay or by a promised day, went through the
window (`RuleTimes`). `BlendBetween` is about the blended interest.

Of `PostCall` it proves the four invariants and `StopIsFinal`, for any number of
calls, keys, attempts and faults. `CallInv` of each call: a job is running exactly
while its runner is at work (`RunOf`); a job that may be picked up again has an
attempt left (`AttemptsOf`); a run past its write has written, and past its
hand-over has handed over (`DoneOf`); and the writes are counted by who made them
(`CountOf`): one by the job, one by an operator, the rest by runs in `cut`. The steps
touch one call each, and the others stay as they are (`Same`). `DecisionsAreAnswerable`
ties the two modules: what the analysis decides of a lead that said stop is among
what `PostCall` lets a run of that snapshot write.

`VoiceTurnsProofs` proves the four invariants of `VoiceTurns` for any number of
calls, requests, rows and faults, whichever calls name their conversation and
however many agents there are. `TurnsInv` says what a request under way holds: its
entry's key and its row's conversation are its own (`Held`), and its turns are not
written yet (`Fresh`); what an entry remembers is a row of its conversation (`Kept`);
an open row has nothing late (`Counted`). With `Fresh` a turn enters one row and one
count, and with `Siblings` having no conversation a merge moves no turn that has one.
`RowsInv` adds the rows. `Owed(c)` is the rows of a call and the requests about to
make one; it is at most one, and one more for each loss and race, but while the call
runs the one is owed only against a `Credit`: an entry that later requests will find
(`Findable`) or that a request under way is going to leave there (`Promised`). A
request that makes a row found no credit; what destroys a credit is counted in
`lost`. For a call that names nothing that is true only while it is the lead's only
one, and needs of the store that an entry without a row is alone in it (`Lonely`):
otherwise the busiest entry might be one that is never given a row.

`ConfigProofs` proves `TypeOK`, `ColumnsFollow` and `SyncedIsTrue` of `AgentConfig`,
from the assumption that the standard is a configuration. `Loaded` says of each
request that what it loaded are revisions that exist; `SyncInv` of a sync still
`clean` that the columns and the status it loaded are the present ones and, once it
has verified, that the provider agrees with them.

It proves `CrmTypeOK`, `ServedIsRecent`, `StatusTrue` and `NotResurrected` of
`CrmConfig`, for any number of requests and readers and any time to live.
The strengthening, `Younger`, relates ages: what a reader's query found, or the
cache keeps, was the committed configuration at most as long ago as its age says
(the time is taken before the query, which is why a slow reader does no harm).
`Meant` says that every request but a connection was asked for of a row.
`CrmConfigAssumption` and `LeadRecordsAssumption` say that the markers are not
values, and that bounds and tables have their types.

`LeadRecordsProofs` proves `TypeOK`, `DuplicatesAccounted`, `FactIsField` and
`ForwardOnly`. That two rows with one phone come from overlapping look-ups is not
inductive without what a pending look-up knows: `LookedUp` says, of
every import between its look-up and its write (`AtHand`), that whoever has the
phone it did not find came after the rows it counted when it looked.

Each inductive invariant was model-checked before it was proved.

Proved without a run of their own: the executor's `TypeOK` and `LiveTaskKnown`,
`RecordedNotRequeued` of the dialer, `FASafe` of the call rows (no completion
without evidence, which `CallLife` also demands), and `TypeOK` of `AutoDialer`,
`OutboundCall`, `SipEvidence`, `AgentConfig`, `CrmConfig` (`CrmTypeOK`) and
`LeadRecords`.

Every invariant and action property that a run checks is also proved, and so are
the refinements. Model-checked only is liveness (`CommittedSettles`, `NotStranded`,
`Unblocks`, `GetsClosed`, `DriftIsReported`, `NotStarved`): it needs ENABLED, which
is out of the prover's reach. `CountedOnce` is false.

## Findings

`call_counted_twice`: two requests that loaded one row as initiated both close it,
and the lead's call counter moves twice (`calls/service.py:687`; the docstring at
line 648 says "only on first close"). Its counterexample is the run's output;
`PROJECT.json` quotes the text.

### Observations

Seen while modelling. The models have these behaviours (unless noted) and the
properties excuse them by name (`cut`, `lost`, `raced`, `astray`, `overtaken`, `disturbed`, ...), so
that a reader can find where; none has a run of its own.

Jobs and dialer

* A job whose process stops during its backoff stays `failed`: `recover()`
  selects pending and running rows (`jobs/executor.py:424`).
* A stop between the provider's acceptance and the commit of
  `outcome_session_id` puts a dialed row in the reaper's "never dialed" class
  (`scheduler/service.py:1108`, `:1296`); it is dialed again.
* A row an operator made terminal between its claim and its dial becomes pending
  or failed (`scheduler/service.py:1063`); the reaper's class (b) writes over a row
  a webhook has resolved meanwhile.
* No code calls `validate_transition`, and the writes do not follow its table.

Calls

* The ten-minute sweep abandons the row of a call that still runs, and the
  post-call webhook then only logs (`calls/router.py:402`).
* After an ambiguous timeout nothing but a webhook within ten minutes of the
  dial changes `failed` (`outbound/service.py:621`).
* A webhook matched by lead may complete the lead's next dial, and gives it its
  conversation: the SIP evidence the row is later filled with is that other call's
  (`linked`). A 5xx, a 429 or a connection reset after the provider acted is tried
  again, so one dial can ring twice (`outbound/service.py:670`,
  `elevenlabs/service.py:397`).
* A session without a unique SIP match stays among the oldest candidates: its
  attempts do not grow, and as many of them as the cap keep every younger row from
  the pass (`outbound/sweep.py:277`; `NotStarved` excepts just these).
* A probe of a call that is still ringing, or that was challenged, finds a complete
  page without a final response, or with the challenge, and records it:
  `reconciled_at` is set and nothing looks again, though `calls/models.py:138` says
  that it is the time "when SIP evidence was successfully captured".
* The only match by time may be another session's call when the row's own is not on
  the list, which is never filtered by time (`unlisted`).

Analysis and summaries

* `apply_status_from_next_action` reads `result["outcome"]`, which
  `NextActionResult` never has, so closing a lead never makes it quoted or not
  interested, as its docstring says it does (`summarizer.py:181`, `:207`).
* The RELEASE of the savepoint commits before the CRM job is enqueued; a stop
  between them leaves it out when an operator re-ran the analysis.
* A re-analysis that overlaps the call's own job writes the history twice
  (`calls/router.py:721` says it never duplicates), and a failure marker may
  replace an "ok".
* An "add" of a profile key that exists makes two active rows; a later update of
  the key raises and the job is dead-lettered without a marker.
* Overlapping summaries of one lead work on the previous interest and notes each
  has read. A failed interest pipeline reads as 0, which may close the lead; a
  client without products passes an outage of it as a success.
* One refused dimension fails the analysis with every answer of the others: it
  counts as no failure and the facts admit no None (`summarizer.py:1024`), though
  the docstring raises only "when ALL 6 independent dimensions AND pipelines fail"
  (`summarizer.py:729`).
* `due = "today"` may be a time that is past. A user turn written after its
  session was summarised without turns is never analysed.
* `sync_lead` swallows its failures, so a job is completed though nothing was
  pushed.

Voice

* With several active agents the cached path creates a session without one, and
  the error it gets is not the one it catches: the turn is answered by 500
  (`voice/webhook.py:1395`, `tenants/service.py:702`).
* A request that names no conversation joins the lead's busiest entry, which may
  be an ended call's for five minutes (`remove` is never called) or another live
  call's. The five minutes count from the start of the call, not its last turn.
* Two rows with one conversation make every later look-up raise
  (`calls/service.py:426`). A merged row may be reconciled, closed and merged into
  again; a late turn of a merged sibling is never summarised. The order in which
  the reconciliation chooses uses totals only a close writes.

Configuration

* Two overlapping PATCHes of one agent lose one of them; so do two overlapping
  changes of a CRM integration. After an overlap, or a stop between the two
  commits of a client's change, the columns stay behind the revisions.
* A failed sync is not tried again, and an override that is removed stays at the
  provider where the column becomes NULL.
* The cache is dropped before the commit, though `IntegrationStore.invalidate`
  asks to be called after it: for one time to live readers may be served the
  earlier configuration. Credentials outlive a disconnect.

Leads

* Each record of an import is committed by its RELEASE, though the module says
  that all are committed together or none; the look-up by phone raises on
  duplicates, though its docstring says it returns the first. Two overlapping
  imports make such duplicates, which no later import can update.
* The import's order of statuses is not `VALID_TRANSITIONS`: it moves leads out of
  terminal states.
* Outside the models: check-then-write races of the last active agent
  (`tenants/service.py:885`) and of the plan's limits (`agents/router.py:389`).

## Plan

The modules planned are done. What would come next, in this order: the caps of the
entitlements; the mapping and push of one lead to the CRM; the tools a reply of the
voice model runs.

## Not modelled

* Entitlements: check-then-act on counts, each in one request.
* The mapping of a lead to a CRM record and its push: I/O whose failures are
  swallowed; `PostCall` has the job that calls it.
* `transcript_flush`: stamps a session with a time and a number of turns that
  nothing in the program decides by.
* `mark_due_calls_in_progress` and `reschedule` of the scheduler; the first runs
  only with the auto-dialer's flag off.
* Authentication, skills, prompts, onboarding, analytics, the MCP surface, HTTP
  routes without shared state, the frontend: stateless, or CRUD on tables one
  request owns.
* PostgreSQL and more than one process: the code names both as future work.
