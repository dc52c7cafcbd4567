------------------------------ MODULE PostCall ------------------------------
(***************************************************************************)
(* What happens to one lead after its calls: the summarize job of each     *)
(* call and an operator's re-analysis (backend/app/summarizer.py,          *)
(* calls/router.py), the writes they make to the lead, the recontact row   *)
(* they schedule (scheduler/service.py) and the CRM push they hand over    *)
(* (jobs/handlers/crm_sync.py).                                            *)
(*                                                                         *)
(* A run reads (Ask), waits for the model with no transaction open, writes *)
(* in one savepoint whose RELEASE is the commit, and enqueues the push in  *)
(* a transaction of its own.  Anything may happen between these steps.     *)
(* What the model may answer is the result of CallAnalysis.  The executor  *)
(* is the one of JobExecutor, with its database errors left out; the mode  *)
(* without it (fire and forget) is not here.                               *)
(***************************************************************************)
EXTENDS Naturals

CONSTANTS
  MaxCalls,        \* bound: calls of the lead
  Keys,            \* profile: fact keys
  RetryOn,         \* engine actions that scheduler_retry_on_outcomes admits
  MaxRetries,      \* scheduler_max_attempts
  MaxRuns,         \* max_attempts of a summarize job
  QuoteReady,      \* is_quote_ready of the lead's custom fields
  MaxFaults,       \* bound: stops of the process, failures of a call or a write
  Reanalysable     \* bound: calls an operator re-analyses, once each

ASSUME PostCallAssumption ==
  /\ MaxCalls \in Nat /\ MaxRetries \in Nat /\ MaxFaults \in Nat
  /\ MaxRuns \in Nat \ {0}

VARIABLES
  call, turns,     \* call_sessions.status; transcript_turns: none, late, saved
  lead,            \* status, do_not_call, and whether the latest summary reads
                   \* close_lead with a negative classification
  analysis,        \* call_analyses.analysis_status
  facts,           \* facts[k]: active profile rows of the key; 2 is "several"
  retry, made,     \* the lead's auto_retry row, and how many were ever created
  job, attempts, waiting, \* summarize jobs; those whose task sleeps a backoff
  run,             \* run[r]: where a runner is, and what it read
  crm, lost,       \* crm_sync jobs of a call's runs; calls whose job could not enqueue
  written, skipped, cut, reruns, faults  \* history

callVars == <<call, turns>>
leadVars == <<lead, analysis, facts, retry, made>>
jobVars == <<job, attempts, waiting>>
crmVars == <<crm, lost>>
boundVars == <<cut, reruns, faults>>
vars == <<callVars, leadVars, jobVars, run, crmVars, written, skipped, boundVars>>

-----------------------------------------------------------------------------
Calls == 1 .. MaxCalls

(* A runner: the call's job, or the operator who re-analyses it. *)
Runners == Calls \X {"job", "operator"}
JobOf(c) == <<c, "job">>
Operator(c) == <<c, "operator">>

Actions == {"follow_up", "retry_call", "schedule_call", "close_lead", "human_review", "wait"}
Stopping == {"close_lead", "human_review", "wait"}
Negative == {"completed_negative", "do_not_contact", "hostile"}
Classes == {"completed_positive", "do_not_contact"}

Idle == [pc |-> "idle", dnc |-> FALSE, keys |-> {}]

TypeOK ==
  /\ call \in [Calls -> {"none", "live", "completed"}]
  /\ turns \in [Calls -> {"none", "late", "saved"}]
  /\ lead \in [status : {"new", "called", "follow_up", "quoted", "not_interested"},
               dnc : BOOLEAN]
  /\ analysis \in [Calls -> {"none", "failed", "ok"}]
  /\ facts \in [Keys -> 0 .. 2]
  /\ retry \in {"none", "pending", "in_progress"} /\ made \in 0 .. MaxRetries
  /\ job \in [Calls -> {"absent", "pending", "running", "failed", "completed", "dead"}]
  /\ attempts \in [Calls -> 0 .. MaxRuns + MaxFaults]
  /\ waiting \subseteq Calls
  /\ run \in [Runners -> [pc : {"idle", "asking", "raised", "written", "handed"},
                          dnc : BOOLEAN, keys : SUBSET Keys]]
  /\ crm \in [Calls -> {"none", "queued", "completed"}]
  /\ lost \subseteq Calls
  /\ written \in [Calls -> Nat]
  /\ skipped \subseteq Calls
  /\ cut \in [Calls -> 0 .. MaxFaults]
  /\ reruns \subseteq Calls
  /\ faults \in 0 .. MaxFaults

Init ==
  /\ call = [c \in Calls |-> "none"] /\ turns = [c \in Calls |-> "none"]
  /\ lead = [status |-> "new", dnc |-> FALSE]
  /\ analysis = [c \in Calls |-> "none"]
  /\ facts = [k \in Keys |-> 0]
  /\ retry = "none" /\ made = 0
  /\ job = [c \in Calls |-> "absent"] /\ attempts = [c \in Calls |-> 0] /\ waiting = {}
  /\ run = [r \in Runners |-> Idle]
  /\ crm = [c \in Calls |-> "none"] /\ lost = {}
  /\ written = [c \in Calls |-> 0] /\ skipped = {}
  /\ cut = [c \in Calls |-> 0] /\ reruns = {}
  /\ faults = 0

-----------------------------------------------------------------------------
(* The calls. *)

(* create_session advances a new lead; the initiation webhook, which not every
   call passes, advances a lead under follow-up as well. *)
Answer(c) ==
  /\ call[c] = "none"
  /\ \A d \in Calls : call[d] # "live" /\ (d < c => call[d] # "none")
  /\ call' = [call EXCEPT ![c] = "live"]
  /\ \/ lead.status \in {"new", "follow_up"} /\ lead' = [lead EXCEPT !.status = "called"]
     \/ lead.status # "new" /\ UNCHANGED lead

(* Somebody calls by hand; the initiation webhook refuses a do-not-call lead. *)
CallByHand(c) ==
  /\ ~lead.dnc
  /\ Answer(c)
  /\ UNCHANGED <<turns, analysis, facts, retry, made, jobVars, run, crmVars,
                 written, skipped, boundVars>>

(* The auto-dialer takes the recontact row and looks at the lead again. *)
Dial(c) ==
  /\ retry = "pending" /\ ~lead.dnc
  /\ Answer(c)
  /\ retry' = "in_progress"
  /\ UNCHANGED <<turns, analysis, facts, made, jobVars, run, crmVars,
                 written, skipped, boundVars>>

CancelDial ==
  /\ retry = "pending" /\ lead.dnc
  /\ retry' = "none"
  /\ UNCHANGED <<callVars, lead, analysis, facts, made, jobVars, run, crmVars,
                 written, skipped, boundVars>>

(* close_session: the row is settled, the job enqueued with the same commit;
   its user turns may still be on their way to the database, or never come. *)
CallEnds(c) ==
  /\ call[c] = "live"
  /\ call' = [call EXCEPT ![c] = "completed"]
  /\ \E t \in {"late", "saved"} : turns' = [turns EXCEPT ![c] = t]
  /\ retry' = IF retry = "in_progress" THEN "none" ELSE retry
  /\ job' = [job EXCEPT ![c] = "pending"]
  /\ UNCHANGED <<lead, analysis, facts, made, attempts, waiting, run, crmVars,
                 written, skipped, boundVars>>

LateTurn(c) ==
  /\ turns[c] = "late"
  /\ turns' = [turns EXCEPT ![c] = "saved"]
  /\ UNCHANGED <<call, leadVars, jobVars, run, crmVars, written, skipped, boundVars>>

-----------------------------------------------------------------------------
(* Phase 1: what a run reads before it asks the model. *)

Snapshot == [pc |-> "asking", dnc |-> lead.dnc, keys |-> {k \in Keys : facts[k] > 0}]

Runnable(c) == job[c] = "pending" \/ (job[c] = "failed" /\ c \in waiting)

(* The executor loads the row; a session without turns is skipped, and the job
   completes. *)
Ask(c) ==
  /\ Runnable(c)
  /\ attempts' = [attempts EXCEPT ![c] = @ + 1]
  /\ waiting' = waiting \ {c}
  /\ IF turns[c] = "saved"
     THEN /\ job' = [job EXCEPT ![c] = "running"]
          /\ run' = [run EXCEPT ![JobOf(c)] = Snapshot]
          /\ UNCHANGED skipped
     ELSE /\ job' = [job EXCEPT ![c] = "completed"]
          /\ skipped' = skipped \union {c}
          /\ UNCHANGED run
  /\ UNCHANGED <<callVars, leadVars, crmVars, written, boundVars>>

(* POST /{session_id}/reanalyze: 409 if an analysis exists, 422 if the call is
   not completed or nobody spoke. *)
Reanalyze(c) ==
  /\ c \in Reanalysable \ reruns
  /\ analysis[c] = "none" /\ call[c] = "completed" /\ turns[c] = "saved"
  /\ run' = [run EXCEPT ![Operator(c)] = Snapshot]
  /\ reruns' = reruns \union {c}
  /\ UNCHANGED <<callVars, leadVars, jobVars, crmVars, written, skipped, cut, faults>>

Goto(r, pc) == run' = [run EXCEPT ![r].pc = pc]
EndRun(r) == run' = [run EXCEPT ![r] = Idle]

(* The exception reaches the executor, or the route, which answers 502. *)
Raise(r) == IF r[2] = "job" THEN Goto(r, "raised") ELSE EndRun(r)

Fault == faults < MaxFaults /\ faults' = faults + 1

(* _upsert_call_analysis_failed: also over the "ok" of an earlier execution. *)
MarkFailed(c) == analysis' = [analysis EXCEPT ![c] = "failed"]

(* Mutant of GptFails: the durable path swallows the exception. *)
GptFails_Swallowed(r) ==
  /\ run[r].pc = "asking" /\ Fault
  /\ MarkFailed(r[1])
  /\ Goto(r, "handed")
  /\ UNCHANGED <<callVars, lead, facts, retry, made, jobVars, crmVars, written,
                 skipped, cut, reruns>>

(* The marker is committed before the exception goes on to the executor. *)
GptFails(r) ==
  /\ run[r].pc = "asking" /\ Fault
  /\ MarkFailed(r[1])
  /\ Raise(r)
  /\ UNCHANGED <<callVars, lead, facts, retry, made, jobVars, crmVars, written,
                 skipped, cut, reruns>>
-----------------------------------------------------------------------------
(* Phase 3: the writes of the savepoint. *)

(* apply_status_from_next_action reads result["outcome"]["classification"];
   NextActionResult has no outcome, so what run_next_action_pipeline returns
   is a record without that field. *)
NextActionResult(action) == [action |-> action]

ClassIn(result) == IF "outcome" \in DOMAIN result THEN result.outcome ELSE "none"

StatusAfter(status, result, ready) ==
  LET class == ClassIn(result)
  IN  IF status # "called" THEN status
      ELSE CASE result.action \in {"follow_up", "schedule_call"} -> "follow_up"
             [] result.action = "close_lead" /\ class = "completed_positive" ->
                  IF ready THEN "quoted" ELSE "follow_up"
             [] result.action = "close_lead" /\ class \in Negative -> "not_interested"
             [] OTHER -> status

LeadAfter(a, class) ==
  [status  |-> StatusAfter(lead.status, NextActionResult(a), QuoteReady),
   dnc     |-> lead.dnc \/ a = "close_lead" \/ class = "do_not_contact"]

(* Mutants of Eligible: the lead as it was when the model was asked; no limit. *)
Eligible_Snapshot(r, a, merged) ==
  /\ a \in RetryOn /\ ~run[r].dnc
  /\ retry = "none" /\ made < MaxRetries

Eligible_NoLimit(r, a, merged) ==
  a \in RetryOn /\ ~merged.dnc /\ retry = "none"

(* auto_schedule looks at the lead as the merge left it. *)
Eligible(r, a, merged) ==
  /\ a \in RetryOn /\ ~merged.dnc
  /\ retry = "none" /\ made < MaxRetries

(* _write_profile_facts_from_pipeline: an update or a removal names a key the
   run had read; by now it may be gone (an update then only inserts, a removal
   does nothing) or be there twice (scalar_one_or_none raises). *)
Add(f, k) == [f EXCEPT ![k] = IF @ = 2 THEN 2 ELSE @ + 1]
Drop(f, k) == [f EXCEPT ![k] = 0]

ProfileOps(keys) ==
  {[op |-> "none"]} \union [op : {"add"}, key : Keys]
    \union [op : {"remove"}, target : keys]
    \union [op : {"update"}, target : keys, key : Keys]

Ambiguous(op) == op.op \in {"update", "remove"} /\ facts[op.target] = 2

FactsAfter(op) ==
  CASE op.op = "add"    -> Add(facts, op.key)
    [] op.op = "remove" -> Drop(facts, op.target)
    [] op.op = "update" -> Add(Drop(facts, op.target), op.key)
    [] OTHER            -> facts

(* What the engine may answer from this snapshot: CallAnalysis!StopIsRespected. *)
Answerable(r, a, class) ==
  run[r].dnc \/ class = "do_not_contact" => a \in Stopping

(* _write_interest_history appends; _upsert_call_analysis replaces. *)
AppendHistory(c) == written' = [written EXCEPT ![c] = @ + 1]
MarkOk(c) == analysis' = [analysis EXCEPT ![c] = "ok"]

ScheduleRecontact(r, a, merged) ==
  IF Eligible(r, a, merged)
  THEN retry' = "pending" /\ made' = made + 1
  ELSE UNCHANGED <<retry, made>>

Persist(r, a, class, op) ==
  LET merged == LeadAfter(a, class)
  IN  /\ lead' = merged
      /\ facts' = FactsAfter(op)
      /\ AppendHistory(r[1])
      /\ MarkOk(r[1])
      /\ ScheduleRecontact(r, a, merged)
      /\ Goto(r, "written")

(* Mutant of Undo: each write is committed as it is made. *)
Undo_Piecemeal(r) ==
  /\ AppendHistory(r[1])
  /\ Raise(r)
  /\ UNCHANGED leadVars

(* An exception in the savepoint undoes all of it and leaves no marker. *)
Undo(r) ==
  /\ Raise(r)
  /\ UNCHANGED <<leadVars, written>>

Write(r) ==
  /\ run[r].pc = "asking"
  /\ \E a \in Actions, class \in Classes, op \in ProfileOps(run[r].keys) :
       /\ Answerable(r, a, class)
       /\ IF Ambiguous(op) THEN Undo(r) ELSE Persist(r, a, class, op)
  /\ UNCHANGED <<callVars, jobVars, crmVars, skipped, boundVars>>

(* _schedule_crm_sync: the enqueue has a commit of its own; if it fails the
   summary is reported as done all the same. *)
Hand(r) ==
  /\ run[r].pc = "written"
  /\ crm' = [crm EXCEPT ![r[1]] = "queued"]
  /\ IF r[2] = "job" THEN Goto(r, "handed") ELSE EndRun(r)
  /\ UNCHANGED <<callVars, leadVars, jobVars, lost, written, skipped, boundVars>>

HandFails(r) ==
  /\ run[r].pc = "written" /\ Fault
  /\ lost' = IF r[2] = "job" THEN lost \union {r[1]} ELSE lost
  /\ IF r[2] = "job" THEN Goto(r, "handed") ELSE EndRun(r)
  /\ UNCHANGED <<callVars, leadVars, jobVars, crm, written, skipped, cut, reruns>>

-----------------------------------------------------------------------------
(* The executor's bookkeeping, after the handler. *)

(* Mutant of SaveCompleted: the row is left to be picked up again. *)
SaveCompleted_Again(c) ==
  /\ run[JobOf(c)].pc = "handed"
  /\ job' = [job EXCEPT ![c] = IF attempts[c] < MaxRuns THEN "pending" ELSE "completed"]
  /\ EndRun(JobOf(c))
  /\ UNCHANGED <<callVars, leadVars, attempts, waiting, crmVars, written, skipped, boundVars>>

SaveCompleted(c) ==
  /\ run[JobOf(c)].pc = "handed"
  /\ job' = [job EXCEPT ![c] = "completed"]
  /\ EndRun(JobOf(c))
  /\ UNCHANGED <<callVars, leadVars, attempts, waiting, crmVars, written, skipped, boundVars>>

SaveFailed(c) ==
  /\ run[JobOf(c)].pc = "raised"
  /\ EndRun(JobOf(c))
  /\ IF attempts[c] >= MaxRuns
     THEN job' = [job EXCEPT ![c] = "dead"] /\ UNCHANGED waiting
     ELSE job' = [job EXCEPT ![c] = "failed"] /\ waiting' = waiting \union {c}
  /\ UNCHANGED <<callVars, leadVars, attempts, crmVars, written, skipped, boundVars>>

(* crm_sync_handler: it reads the lead when it runs, so two jobs of one lead
   push the same thing; sync_lead swallows whatever goes wrong, so the job is
   completed whether the record was pushed or not. *)
Push(c) ==
  /\ crm[c] = "queued"
  /\ crm' = [crm EXCEPT ![c] = "completed"]
  /\ UNCHANGED <<callVars, leadVars, jobVars, run, lost, written, skipped, boundVars>>

(* The process stops and starts again; recover() takes pending and running
   rows, not failed ones.  Turns still in memory are gone. *)
Wrote(r) == run[r].pc \in {"written", "handed"}

Stop ==
  /\ Fault
  /\ job' = [c \in Calls |-> IF job[c] = "running" THEN "pending" ELSE job[c]]
  /\ waiting' = {}
  /\ cut' = [c \in Calls |-> cut[c] + IF Wrote(JobOf(c)) THEN 1 ELSE 0]
  /\ run' = [r \in Runners |-> Idle]
  /\ turns' = [c \in Calls |-> IF turns[c] = "late" THEN "none" ELSE turns[c]]
  /\ UNCHANGED <<call, leadVars, attempts, crmVars, written, skipped, reruns>>

JobSteps(c) ==
  \/ Ask(c)
  \/ GptFails(JobOf(c)) \/ Write(JobOf(c)) \/ Hand(JobOf(c)) \/ HandFails(JobOf(c))
  \/ SaveCompleted(c) \/ SaveFailed(c)

OperatorSteps(c) ==
  \/ Reanalyze(c)
  \/ GptFails(Operator(c)) \/ Write(Operator(c)) \/ Hand(Operator(c)) \/ HandFails(Operator(c))

Next ==
  \/ \E c \in Calls : CallByHand(c) \/ Dial(c) \/ CallEnds(c) \/ LateTurn(c)
                        \/ JobSteps(c) \/ OperatorSteps(c) \/ Push(c)
  \/ CancelDial
  \/ Stop

Spec == Init /\ [][Next]_vars

-----------------------------------------------------------------------------
(* A summary is written whole or not at all: a call has interest history and
   profile changes only together with an analysis row that says so, and an "ok"
   row only together with them (the savepoint of _run_summarizer). *)
WholeOrNothing ==
  \A c \in Calls : /\ (analysis[c] = "ok" => written[c] > 0)
                    /\ (written[c] > 0 => analysis[c] # "none")

(* The lead's history holds a call more often than once only for executions a
   stop cut short after their commit, and for re-analyses begun while no
   analysis was there. *)
WritesAccounted ==
  \A c \in Calls : written[c] <= 1 + cut[c] + (IF c \in reruns THEN 1 ELSE 0)

(* A summarize job reported as completed has written its summary and handed it
   to the CRM job, unless it found no turns or the enqueue failed (summarize.py:
   a failure must not be marked completed). *)
CompletedIsDone ==
  \A c \in Calls : job[c] = "completed" /\ c \notin skipped
    => written[c] > 0 /\ (crm[c] # "none" \/ c \in lost)

(* Once a lead is on do-not-call it stays there, and no summary that was under
   way when it got there creates a recontact row. *)
StopIsFinal == [][lead.dnc => lead'.dnc /\ made' = made]_vars
=============================================================================
