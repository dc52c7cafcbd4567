---------------------------- MODULE JobExecutor -----------------------------
(***************************************************************************)
(* The durable background job executor (backend/app/jobs/executor.py): a   *)
(* background_jobs table, and one asyncio task per dispatched job that     *)
(* drives  pending -> running -> completed | failed | dead.                *)
(*                                                                         *)
(* The database survives a process stop; the task set, _active_job_ids,    *)
(* the callers' sessions and the listeners hung on them do not.  A step is *)
(* what runs between two awaits of the event loop.                         *)
(***************************************************************************)
EXTENDS Naturals, FiniteSets

CONSTANTS
  Jobs,        \* job ids; each is enqueued at most once (uuid4)
  Limits,      \* values of max_attempts callers pass
  MaxStops,    \* bound: process stops (crashes or shutdowns)
  MaxDbErrors  \* bound: database errors that end a task

ASSUME LimitsAssumption == Limits \subseteq (Nat \ {0})
ASSUME BoundsAssumption == MaxStops \in Nat /\ MaxDbErrors \in Nat

VARIABLES
  (* background_jobs rows (committed) *)
  status, attempts, limit,
  (* process memory *)
  proc, active, task, sess, onCommit, onRollback,
  (* history *)
  effects, interrupted, stops, dbErrors

rowVars     == <<status, attempts, limit>>
callerVars  == <<sess, onCommit, onRollback>>
historyVars == <<effects, interrupted, stops, dbErrors>>
vars == <<rowVars, proc, active, task, callerVars, historyVars>>

-----------------------------------------------------------------------------
(* Two task identities per job: enough to see a job dispatched twice. *)
Slots == {1, 2}

Status == {"absent", "pending", "running", "failed", "completed", "dead"}

(* Where an asyncio task running _run_job is suspended. "ok", "confErr" and
   "err" are the three outcomes of the handler, not yet written back. *)
AttemptPC == {"exec", "ok", "confErr", "err"}
TaskPC == {"none", "load", "backoff"} \union AttemptPC

(* The caller's session that enqueue(db=...) joins: "open" while the INSERT is
   flushed but not committed, "used" once that transaction ended and the
   session lives on. *)
SessPC == {"none", "open", "used", "closed"}

TypeOK ==
  /\ status \in [Jobs -> Status]
  /\ attempts \in [Jobs -> Nat]
  /\ limit \in [Jobs -> Nat]
  /\ proc \in {"up", "down"}
  /\ active \subseteq Jobs
  /\ task \in [Jobs -> [Slots -> TaskPC]]
  /\ sess \in [Jobs -> SessPC]
  /\ onCommit \subseteq Jobs
  /\ onRollback \subseteq Jobs
  /\ effects \in [Jobs -> Nat]
  /\ interrupted \in [Jobs -> Nat]
  /\ stops \in Nat
  /\ dbErrors \in Nat

Live(j, s) == task[j][s] # "none"
NoTask == [s \in Slots |-> "none"]
OneTask == [s \in Slots |-> IF s = 1 THEN "load" ELSE "none"]

Init ==
  /\ status = [j \in Jobs |-> "absent"]
  /\ attempts = [j \in Jobs |-> 0]
  /\ limit = [j \in Jobs |-> 0]
  /\ proc = "up"
  /\ active = {}
  /\ task = [j \in Jobs |-> NoTask]
  /\ sess = [j \in Jobs |-> "none"]
  /\ onCommit = {}
  /\ onRollback = {}
  /\ effects = [j \in Jobs |-> 0]
  /\ interrupted = [j \in Jobs |-> 0]
  /\ stops = 0
  /\ dbErrors = 0

-----------------------------------------------------------------------------
(* enqueue *)

(* create_task(_run_job(job_id)): the new task takes a free identity. *)
Dispatch(j) ==
  \E s \in Slots :
    /\ ~Live(j, s)
    /\ task' = [task EXCEPT ![j][s] = "load"]

Fresh(j) == proc = "up" /\ status[j] = "absent" /\ sess[j] = "none"

(* enqueue with a caller's session: flush, mark active, arm both listeners.
   The row is invisible to others until the caller commits. *)
EnqueueInSession(j, m) ==
  /\ Fresh(j)
  /\ limit' = [limit EXCEPT ![j] = m]
  /\ sess' = [sess EXCEPT ![j] = "open"]
  /\ active' = active \union {j}
  /\ onCommit' = onCommit \union {j}
  /\ onRollback' = onRollback \union {j}
  /\ UNCHANGED <<status, attempts, proc, task, historyVars>>

(* enqueue without one: insert and commit in a session of its own. *)
EnqueueAlone(j, m) ==
  /\ Fresh(j)
  /\ status' = [status EXCEPT ![j] = "pending"]
  /\ limit' = [limit EXCEPT ![j] = m]
  /\ sess' = [sess EXCEPT ![j] = "closed"]
  /\ active' = active \union {j}
  /\ Dispatch(j)
  /\ UNCHANGED <<attempts, proc, onCommit, onRollback, historyVars>>

(* Mutants of FireCommitHook: the listener registered without once=True, and
   the paired rollback listener left on the session. *)
FireCommitHook_NotOnce(j) ==
  IF j \in onCommit
  THEN Dispatch(j) /\ onRollback' = onRollback \ {j} /\ UNCHANGED onCommit
  ELSE UNCHANGED <<task, onCommit, onRollback>>

(* _dispatch_after_commit, registered once=True. *)
FireCommitHook(j) ==
  IF j \in onCommit
  THEN /\ Dispatch(j)
       /\ onCommit' = onCommit \ {j}
       /\ onRollback' = onRollback \ {j}
  ELSE UNCHANGED <<task, onCommit, onRollback>>

(* _cleanup_after_rollback, registered once=True. *)
FireRollbackHook(j) ==
  IF j \in onRollback
  THEN /\ active' = active \ {j}
       /\ onCommit' = onCommit \ {j}
       /\ onRollback' = onRollback \ {j}
  ELSE UNCHANGED <<active, onCommit, onRollback>>

InSession(j) == sess[j] \in {"open", "used"}

(* Any commit of the caller's session; get_session commits again on exit, so
   a session that already committed the job commits at least once more. *)
SessionCommit(j) ==
  /\ InSession(j)
  /\ status' = IF sess[j] = "open" THEN [status EXCEPT ![j] = "pending"] ELSE status
  /\ sess' = [sess EXCEPT ![j] = "used"]
  /\ FireCommitHook(j)
  /\ UNCHANGED <<attempts, limit, proc, active, historyVars>>

(* A rollback: by get_session on an exception, or by the caller itself, which
   may then go on and commit other work in the same session. *)
SessionRollback(j) ==
  /\ InSession(j)
  /\ sess' = [sess EXCEPT ![j] = "used"]
  /\ FireRollbackHook(j)
  /\ UNCHANGED <<rowVars, proc, task, historyVars>>

(* The session is closed: its listeners go with it.  Closed while "open" is a
   cancelled request: CancelledError passes get_session's except clause, the
   connection rolls back without an after_rollback event, and the job id stays
   in _active_job_ids. *)
SessionClose(j) ==
  /\ InSession(j)
  /\ sess' = [sess EXCEPT ![j] = "closed"]
  /\ onCommit' = onCommit \ {j}
  /\ onRollback' = onRollback \ {j}
  /\ UNCHANGED <<rowVars, proc, active, task, historyVars>>

-----------------------------------------------------------------------------
(* _run_job *)

Goto(j, s, pc) == task' = [task EXCEPT ![j][s] = pc]
Return(j, s) == Goto(j, s, "none") /\ active' = active \ {j}

Runnable == {"pending", "running", "failed"}

(* Load the row; a missing, completed or dead one ends the task, any other is
   marked running and its attempt counted, in one committed transaction. *)
Load(j, s) ==
  /\ task[j][s] = "load"
  /\ IF status[j] \in Runnable
     THEN /\ status' = [status EXCEPT ![j] = "running"]
          /\ attempts' = [attempts EXCEPT ![j] = @ + 1]
          /\ Goto(j, s, "exec")
          /\ UNCHANGED active
     ELSE Return(j, s) /\ UNCHANGED <<status, attempts>>
  /\ UNCHANGED <<limit, proc, callerVars, historyVars>>

(* The handler in a session of its own: it returns and its session commits, *)
HandlerSucceeds(j, s) ==
  /\ task[j][s] = "exec"
  /\ effects' = [effects EXCEPT ![j] = @ + 1]
  /\ Goto(j, s, "ok")
  /\ UNCHANGED <<rowVars, proc, active, callerVars, interrupted, stops, dbErrors>>

(* or it raises and its session rolls back. *)
HandlerRaises(j, s) ==
  /\ task[j][s] = "exec"
  /\ \E e \in {"confErr", "err"} : Goto(j, s, e)
  /\ UNCHANGED <<rowVars, proc, active, callerVars, historyVars>>

(* Mutant of SaveCompleted: the return after success is missing. *)
SaveCompleted_FallsThrough(j, s) ==
  /\ task[j][s] = "ok"
  /\ status' = [status EXCEPT ![j] = "failed"]
  /\ Goto(j, s, "backoff")
  /\ UNCHANGED <<attempts, limit, proc, active, callerVars, historyVars>>

SaveCompleted(j, s) ==
  /\ task[j][s] = "ok"
  /\ status' = [status EXCEPT ![j] = "completed"]
  /\ Return(j, s)
  /\ UNCHANGED <<attempts, limit, proc, callerVars, historyVars>>

(* Mutant of DeadLetter: compares with > instead of >=. *)
DeadLetter_OffByOne(j, s) ==
  \/ task[j][s] = "confErr" /\ attempts[j] > 2
  \/ task[j][s] = "err" /\ attempts[j] > limit[j]

(* A configuration error gets one retry whatever max_attempts says. *)
DeadLetter(j, s) ==
  \/ task[j][s] = "confErr" /\ attempts[j] >= 2
  \/ task[j][s] = "err" /\ attempts[j] >= limit[j]

SaveDead(j, s) ==
  /\ DeadLetter(j, s)
  /\ status' = [status EXCEPT ![j] = "dead"]
  /\ Return(j, s)
  /\ UNCHANGED <<attempts, limit, proc, callerVars, historyVars>>

SaveFailed(j, s) ==
  /\ task[j][s] \in {"confErr", "err"}
  /\ ~DeadLetter(j, s)
  /\ status' = [status EXCEPT ![j] = "failed"]
  /\ Goto(j, s, "backoff")
  /\ UNCHANGED <<attempts, limit, proc, active, callerVars, historyVars>>

(* asyncio.sleep(delay) over: back to the top of the loop. *)
Wake(j, s) ==
  /\ task[j][s] = "backoff"
  /\ Goto(j, s, "load")
  /\ UNCHANGED <<rowVars, proc, active, callerVars, historyVars>>

(* A database error (SQLite busy past its timeout) in the load or in the final
   update is not caught: the task ends, and its id stays in _active_job_ids. *)
TaskDies(j, s) ==
  /\ dbErrors < MaxDbErrors
  /\ task[j][s] \in {"load", "ok", "confErr", "err"}
  /\ Goto(j, s, "none")
  /\ interrupted' = IF task[j][s] = "load" THEN interrupted
                    ELSE [interrupted EXCEPT ![j] = @ + 1]
  /\ dbErrors' = dbErrors + 1
  /\ UNCHANGED <<rowVars, proc, active, callerVars, effects, stops>>

-----------------------------------------------------------------------------
(* Process lifetime *)

Attempting(j) == \E s \in Slots : task[j][s] \in AttemptPC

(* A crash, or shutdown(), which cancels every task where it is suspended and
   clears both sets: in either case memory goes and rows stay. *)
Stop ==
  /\ proc = "up"
  /\ stops < MaxStops
  /\ proc' = "down"
  /\ active' = {}
  /\ task' = [j \in Jobs |-> NoTask]
  /\ sess' = [j \in Jobs |-> IF sess[j] = "none" THEN "none" ELSE "closed"]
  /\ onCommit' = {}
  /\ onRollback' = {}
  /\ interrupted' = [j \in Jobs |-> IF Attempting(j) THEN interrupted[j] + 1
                                    ELSE interrupted[j]]
  /\ stops' = stops + 1
  /\ UNCHANGED <<rowVars, effects, dbErrors>>

(* Mutants of Recoverable: rows cut short while running are forgotten; rows
   that are final are brought back. *)
Recoverable_PendingOnly == {"pending"}
Recoverable_NotCompleted == Status \ {"absent", "completed"}

Recoverable == {"pending", "running"}

(* Lifespan startup: recover() runs before any request is served. *)
Recover ==
  /\ proc = "down"
  /\ LET jobs == {j \in Jobs : status[j] \in Recoverable /\ j \notin active}
     IN  /\ status' = [j \in Jobs |-> IF j \in jobs THEN "pending" ELSE status[j]]
         /\ active' = active \union jobs
         /\ task' = [j \in Jobs |-> IF j \in jobs THEN OneTask ELSE task[j]]
  /\ proc' = "up"
  /\ UNCHANGED <<attempts, limit, callerVars, historyVars>>

-----------------------------------------------------------------------------
TaskStep(j, s) ==
  \/ Load(j, s)
  \/ HandlerSucceeds(j, s)
  \/ HandlerRaises(j, s)
  \/ SaveCompleted(j, s)
  \/ SaveDead(j, s)
  \/ SaveFailed(j, s)
  \/ Wake(j, s)

CallerStep(j) ==
  \/ \E m \in Limits : EnqueueInSession(j, m) \/ EnqueueAlone(j, m)
  \/ SessionCommit(j)
  \/ SessionRollback(j)
  \/ SessionClose(j)

Next ==
  \/ \E j \in Jobs : CallerStep(j)
  \/ \E j \in Jobs, s \in Slots : TaskStep(j, s) \/ TaskDies(j, s)
  \/ Stop
  \/ Recover

Spec == Init /\ [][Next]_vars

(* The event loop resumes every suspended task, handlers end (their HTTP and
   LLM calls have timeouts), and the platform restarts a stopped process.
   Nothing is assumed of the callers. *)
Fairness ==
  /\ \A j \in Jobs, s \in Slots : WF_vars(TaskStep(j, s))
  /\ WF_vars(Recover)

FairSpec == Spec /\ Fairness

-----------------------------------------------------------------------------
(* Safety *)

(* A job never has two live tasks: the listeners dispatch once, and recovery
   skips what is already dispatched. *)
SingleTask ==
  \A j \in Jobs, s, t \in Slots : Live(j, s) /\ Live(j, t) => s = t

(* _active_job_ids covers every live task, which is what recovery relies on to
   skip it, and no task runs for a row that was never committed. *)
LiveTaskKnown ==
  \A j \in Jobs, s \in Slots : Live(j, s) => j \in active /\ status[j] # "absent"

Cap(j) == IF limit[j] < 2 THEN 2 ELSE limit[j]

(* max_attempts is exceeded only through attempts that a stop or a lost status
   write cut short, one each. *)
AttemptsBounded == \A j \in Jobs : attempts[j] <= Cap(j) + interrupted[j]

(* The handler's writes are committed once, plus once at most per attempt that
   was cut short; a completed job has been executed. *)
EffectsBounded ==
  \A j \in Jobs : /\ effects[j] <= 1 + interrupted[j]
                  /\ status[j] = "completed" => effects[j] > 0

Promise ==
  INSTANCE DurableJob WITH
    life <- [j \in Jobs |-> IF status[j] \in Runnable THEN "accepted" ELSE status[j]]

(* The executor keeps the promise of DurableJob: a submitter cannot tell
   pending, running and failed apart, nor a recovery from a slow job. *)
Implements == Promise!Spec

-----------------------------------------------------------------------------
(* Liveness *)

Settled(j) == status[j] \in {"completed", "dead"}

(* A row no task will take up before the next restart: "failed" ones are left
   by a stop during their backoff (recover() looks for pending and running rows
   only), others by a database error that ended their task. *)
Abandoned(j) ==
  /\ proc = "up"
  /\ \A s \in Slots : ~Live(j, s)
  /\ status[j] = "failed" \/ (status[j] \in Recoverable /\ dbErrors > 0)

(* A committed job is settled unless one of those two faults abandons it: no
   interleaving of its caller's commits, rollbacks and close with the retry
   loop, a stop and the recovery loses it. *)
CommittedSettles ==
  \A j \in Jobs : status[j] \in Recoverable ~> Settled(j) \/ Abandoned(j)
=============================================================================
