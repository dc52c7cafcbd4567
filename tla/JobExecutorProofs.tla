------------------------- MODULE JobExecutorProofs --------------------------
(***************************************************************************)
(* Proofs about JobExecutor, for every set of jobs, every max_attempts and *)
(* any number of stops and database errors: type correctness, one task per *)
(* job, the bounds on attempts and on committed handler writes, and the    *)
(* refinement of DurableJob.                                               *)
(*                                                                         *)
(* Jobs do not touch one another's state except through the process, so    *)
(* the inductive invariant is one formula per job, and a frame lemma deals *)
(* with every job a step is not about.                                     *)
(***************************************************************************)
EXTENDS JobExecutor, TLAPS

-----------------------------------------------------------------------------
(* The inductive invariant *)

(* Memory is empty while the process is down. *)
DownInv(j) ==
  proc = "down" => /\ j \notin active \union onCommit \union onRollback
                   /\ sess[j] \in {"none", "closed"}
                   /\ \A s \in Slots : ~Live(j, s)

(* A listener is armed exactly while the caller's INSERT is uncommitted; then
   the row is invisible and the job is active. *)
HookInv(j) ==
  /\ j \in onCommit <=> sess[j] = "open"
  /\ j \in onRollback <=> sess[j] = "open"
  /\ sess[j] = "open" => status[j] = "absent" /\ j \in active
  /\ sess[j] = "none" => status[j] = "absent"

(* One task at most, and what its program counter says of the row. *)
TaskInv(j) ==
  /\ \A s, t \in Slots : Live(j, s) /\ Live(j, t) => s = t
  /\ \A s \in Slots : /\ Live(j, s) => j \in active
                      /\ task[j][s] \in AttemptPC => status[j] = "running"
                      /\ task[j][s] = "load" => status[j] \in {"pending", "failed"}
                      /\ task[j][s] = "backoff" => status[j] = "failed"

(* A row between attempts has at least one left, or one an interruption gave. *)
AttemptInv(j) ==
  /\ status[j] = "absent" => attempts[j] = 0
  /\ attempts[j] <= Cap(j) + interrupted[j]
  /\ status[j] \in Runnable /\ ~Attempting(j) => attempts[j] < Cap(j) + interrupted[j]

HandlerDone(j) == \E s \in Slots : task[j][s] = "ok"

(* Committed handler writes: at most one per interrupted attempt, one more once
   the handler of the current attempt returned or the job completed. *)
EffectInv(j) ==
  /\ status[j] = "absent" => effects[j] = 0
  /\ effects[j] <= 1 + interrupted[j]
  /\ status[j] = "completed" \/ HandlerDone(j) => effects[j] > 0
  /\ status[j] # "completed" /\ ~HandlerDone(j) => effects[j] <= interrupted[j]

JobInv(j) == DownInv(j) /\ HookInv(j) /\ TaskInv(j) /\ AttemptInv(j) /\ EffectInv(j)

IInv == TypeOK /\ \A j \in Jobs : JobInv(j)

-----------------------------------------------------------------------------
(* The frame *)

(* A step leaves everything about job k as it was. *)
Untouched(k) ==
  /\ status'[k] = status[k]
  /\ attempts'[k] = attempts[k]
  /\ limit'[k] = limit[k]
  /\ task'[k] = task[k]
  /\ sess'[k] = sess[k]
  /\ k \in active' <=> k \in active
  /\ k \in onCommit' <=> k \in onCommit
  /\ k \in onRollback' <=> k \in onRollback
  /\ effects'[k] = effects[k]
  /\ interrupted'[k] = interrupted[k]

(* The invariant of a job survives a step that does not touch it. *)
LEMMA Frame ==
  ASSUME NEW k \in Jobs, JobInv(k), Untouched(k), proc' = proc
  PROVE  JobInv(k)'
<1> USE DEF Untouched
<1>1. DownInv(k)'
  BY DEF JobInv, DownInv, Live
<1>2. HookInv(k)'
  BY DEF JobInv, HookInv
<1>3. TaskInv(k)'
  BY DEF JobInv, TaskInv, Live
<1>4. AttemptInv(k)'
  BY DEF JobInv, AttemptInv, Cap, Attempting
<1>5. EffectInv(k)'
  BY DEF JobInv, EffectInv, HandlerDone
<1> QED
  BY <1>1, <1>2, <1>3, <1>4, <1>5 DEF JobInv

(* So a step about job j needs types and the invariant of j only. *)
LEMMA StepOfOneJob ==
  ASSUME IInv, NEW j \in Jobs, TypeOK', JobInv(j)', proc' = proc,
         \A k \in Jobs : k # j => Untouched(k)
  PROVE  IInv'
<1>1. \A k \in Jobs : k # j => JobInv(k)'
  BY Frame DEF IInv
<1> QED
  BY <1>1 DEF IInv

-----------------------------------------------------------------------------
(* Lemmas about the operators the actions share *)

(* Goto moves one task and leaves the others where they were. *)
LEMMA GotoMoves ==
  ASSUME TypeOK, NEW j \in Jobs, NEW s \in Slots, NEW pc \in TaskPC,
         Goto(j, s, pc)
  PROVE  /\ task' \in [Jobs -> [Slots -> TaskPC]]
         /\ \A k \in Jobs : k # j => task'[k] = task[k]
         /\ \A t \in Slots : task'[j][t] = IF t = s THEN pc ELSE task[j][t]
BY DEF TypeOK, Goto

(* Where a task is alone, it is the only thing that happens to its job. *)
LEMMA OnlyTask ==
  ASSUME NEW j \in Jobs, NEW s \in Slots, TaskInv(j), Live(j, s)
  PROVE  \A t \in Slots : t # s => task[j][t] = "none"
BY DEF TaskInv, Live

(* Dispatch of a job without a task gives it one, about to load its row. *)
LEMMA DispatchMoves ==
  ASSUME TypeOK, NEW j \in Jobs, Dispatch(j), \A s \in Slots : ~Live(j, s)
  PROVE  /\ task' \in [Jobs -> [Slots -> TaskPC]]
         /\ \A k \in Jobs : k # j => task'[k] = task[k]
         /\ \A t \in Slots : task'[j][t] \in {"none", "load"}
         /\ \A t, u \in Slots : task'[j][t] # "none" /\ task'[j][u] # "none" => t = u
<1>1. PICK s \in Slots : task' = [task EXCEPT ![j][s] = "load"]
  BY DEF Dispatch
<1>2. \A k \in Jobs : k # j => task'[k] = task[k]
  BY <1>1 DEF TypeOK
<1>3. \A t \in Slots : task'[j][t] = IF t = s THEN "load" ELSE task[j][t]
  BY <1>1 DEF TypeOK
<1>4. task' \in [Jobs -> [Slots -> TaskPC]]
  BY <1>1 DEF TypeOK, TaskPC
<1> QED
  BY <1>2, <1>3, <1>4 DEF Live

(* An absent row has no task, hence no attempt. *)
LEMMA AbsentIdle ==
  ASSUME NEW j \in Jobs, JobInv(j), status[j] = "absent", TypeOK
  PROVE  /\ \A s \in Slots : ~Live(j, s) /\ task[j][s] = "none"
         /\ attempts[j] = 0
         /\ effects[j] = 0
BY DEF JobInv, TaskInv, AttemptInv, EffectInv, Live, AttemptPC, TypeOK, TaskPC

(* What a cap is. *)
LEMMA CapPositive ==
  ASSUME NEW j \in Jobs, limit[j] \in Nat
  PROVE  Cap(j) \in Nat /\ Cap(j) >= 2 /\ Cap(j) >= limit[j]
BY DEF Cap

-----------------------------------------------------------------------------
(* The initial state *)

LEMMA InitIInv == Init => IInv
<1> SUFFICES ASSUME Init PROVE IInv
  OBVIOUS
<1>1. TypeOK
  BY DEF Init, TypeOK, NoTask, Status, TaskPC, SessPC
<1>2. ASSUME NEW j \in Jobs PROVE JobInv(j)
  <2>1. \A s \in Slots : task[j][s] = "none" /\ ~Live(j, s)
    BY DEF Init, NoTask, Live
  <2>2. DownInv(j) /\ HookInv(j) /\ TaskInv(j)
    BY <2>1 DEF Init, DownInv, HookInv, TaskInv, AttemptPC
  <2>3. AttemptInv(j) /\ EffectInv(j)
    BY <2>1 DEF Init, AttemptInv, EffectInv, HandlerDone, Cap, Runnable
  <2> QED
    BY <2>2, <2>3 DEF JobInv
<1> QED
  BY <1>1, <1>2 DEF IInv

-----------------------------------------------------------------------------
(* The callers' steps *)

LEMMA EnqueueInSessionIInv ==
  ASSUME IInv, NEW j \in Jobs, NEW m \in Limits, EnqueueInSession(j, m)
  PROVE  IInv'
<1>1. TypeOK'
  BY LimitsAssumption DEF IInv, TypeOK, EnqueueInSession, historyVars, SessPC
<1>2. /\ proc = "up" /\ proc' = proc /\ sess[j] = "none" /\ status[j] = "absent"
      /\ task' = task /\ status' = status /\ attempts' = attempts
      /\ effects' = effects /\ interrupted' = interrupted
      /\ limit'[j] = m /\ sess'[j] = "open"
      /\ j \in active' /\ j \in onCommit' /\ j \in onRollback'
  BY DEF EnqueueInSession, Fresh, historyVars, IInv, TypeOK
<1>3. \A k \in Jobs : k # j => Untouched(k)
  BY DEF Untouched, EnqueueInSession, historyVars, IInv, TypeOK
<1>4. JobInv(j)'
  <2>1. \A s \in Slots : ~Live(j, s) /\ task'[j][s] = "none"
    BY <1>2, AbsentIdle DEF IInv
  <2>2. attempts'[j] = 0 /\ effects'[j] = 0 /\ interrupted'[j] \in Nat
    BY <1>1, <1>2, AbsentIdle DEF IInv, TypeOK
  <2>3. (DownInv(j) /\ HookInv(j) /\ TaskInv(j))'
    BY <1>2, <2>1 DEF DownInv, HookInv, TaskInv, Live, AttemptPC
  <2>4. AttemptInv(j)'
    BY <1>1, <1>2, <2>2 DEF AttemptInv, TypeOK, Cap, Runnable
  <2>5. EffectInv(j)'
    BY <1>2, <2>1, <2>2 DEF EffectInv, HandlerDone
  <2> QED
    BY <2>3, <2>4, <2>5 DEF JobInv
<1> QED
  BY <1>1, <1>2, <1>3, <1>4, StepOfOneJob

LEMMA EnqueueAloneIInv ==
  ASSUME IInv, NEW j \in Jobs, NEW m \in Limits, EnqueueAlone(j, m)
  PROVE  IInv'
<1>1. /\ proc = "up" /\ proc' = proc /\ sess[j] = "none" /\ status[j] = "absent"
      /\ attempts' = attempts /\ effects' = effects /\ interrupted' = interrupted
      /\ onCommit' = onCommit /\ onRollback' = onRollback
      /\ limit'[j] = m /\ sess'[j] = "closed" /\ status'[j] = "pending" /\ j \in active'
  BY DEF EnqueueAlone, Fresh, historyVars, IInv, TypeOK
<1>2. \A s \in Slots : ~Live(j, s)
  BY <1>1, AbsentIdle DEF IInv
<1>3. /\ task' \in [Jobs -> [Slots -> TaskPC]]
      /\ \A k \in Jobs : k # j => task'[k] = task[k]
      /\ \A t \in Slots : task'[j][t] \in {"none", "load"}
      /\ \A t, u \in Slots : task'[j][t] # "none" /\ task'[j][u] # "none" => t = u
  BY <1>2, DispatchMoves DEF EnqueueAlone, IInv
<1>4. TypeOK'
  BY <1>3, LimitsAssumption DEF IInv, TypeOK, EnqueueAlone, historyVars, SessPC, Status
<1>5. \A k \in Jobs : k # j => Untouched(k)
  BY <1>3 DEF Untouched, EnqueueAlone, historyVars, IInv, TypeOK
<1>6. JobInv(j)'
  <2>1. attempts'[j] = 0 /\ effects'[j] = 0 /\ interrupted'[j] \in Nat
    BY <1>1, <1>4, AbsentIdle DEF IInv, TypeOK
  <2>2. j \notin onCommit' /\ j \notin onRollback'
    BY <1>1 DEF IInv, JobInv, HookInv
  <2>3. (DownInv(j) /\ HookInv(j) /\ TaskInv(j))'
    BY <1>1, <1>3, <2>2 DEF DownInv, HookInv, TaskInv, Live, AttemptPC
  <2>4. AttemptInv(j)'
    BY <1>1, <1>4, <2>1 DEF AttemptInv, TypeOK, Cap
  <2>5. ~HandlerDone(j)'
    BY <1>3 DEF HandlerDone
  <2>6. EffectInv(j)'
    BY <1>1, <2>1, <2>5 DEF EffectInv
  <2> QED
    BY <2>3, <2>4, <2>6 DEF JobInv
<1> QED
  BY <1>1, <1>4, <1>5, <1>6, StepOfOneJob

LEMMA SessionCommitIInv ==
  ASSUME IInv, NEW j \in Jobs, SessionCommit(j)
  PROVE  IInv'
<1>1. /\ proc' = proc /\ attempts' = attempts /\ limit' = limit /\ active' = active
      /\ effects' = effects /\ interrupted' = interrupted
      /\ sess[j] \in {"open", "used"} /\ sess'[j] = "used" /\ proc = "up"
  BY DEF SessionCommit, InSession, historyVars, IInv, TypeOK, JobInv, DownInv
<1>2. CASE j \in onCommit
  <2>1. /\ sess[j] = "open" /\ status[j] = "absent" /\ status'[j] = "pending"
        /\ j \in active /\ j \notin onCommit' /\ j \notin onRollback'
    BY <1>2 DEF SessionCommit, FireCommitHook, IInv, JobInv, HookInv, TypeOK
  <2>2. \A s \in Slots : ~Live(j, s)
    BY <2>1, AbsentIdle DEF IInv
  <2>3. /\ task' \in [Jobs -> [Slots -> TaskPC]]
        /\ \A k \in Jobs : k # j => task'[k] = task[k]
        /\ \A t \in Slots : task'[j][t] \in {"none", "load"}
        /\ \A t, u \in Slots : task'[j][t] # "none" /\ task'[j][u] # "none" => t = u
    BY <1>2, <2>2, DispatchMoves DEF SessionCommit, FireCommitHook, IInv
  <2>4. TypeOK'
    BY <1>2, <2>3 DEF IInv, TypeOK, SessionCommit, FireCommitHook, historyVars, SessPC, Status
  <2>5. \A k \in Jobs : k # j => Untouched(k)
    BY <1>2, <2>3 DEF Untouched, SessionCommit, FireCommitHook, historyVars, IInv, TypeOK
  <2>6. JobInv(j)'
    <3>1. attempts'[j] = 0 /\ effects'[j] = 0 /\ interrupted'[j] \in Nat
      BY <1>1, <2>1, <2>4, AbsentIdle DEF IInv, TypeOK
    <3>2. (DownInv(j) /\ HookInv(j) /\ TaskInv(j))'
      BY <1>1, <2>1, <2>3 DEF DownInv, HookInv, TaskInv, Live, AttemptPC
    <3>3. AttemptInv(j)'
      BY <2>1, <2>4, <3>1 DEF AttemptInv, TypeOK, Cap
    <3>4. ~HandlerDone(j)'
      BY <2>3 DEF HandlerDone
    <3>5. EffectInv(j)'
      BY <2>1, <3>1, <3>4 DEF EffectInv
    <3> QED
      BY <3>2, <3>3, <3>5 DEF JobInv
  <2> QED
    BY <1>1, <2>4, <2>5, <2>6, StepOfOneJob
<1>3. CASE j \notin onCommit
  <2>1. /\ sess[j] = "used" /\ status' = status /\ sess' = sess
        /\ task' = task /\ onCommit' = onCommit /\ onRollback' = onRollback
    BY <1>1, <1>3 DEF SessionCommit, FireCommitHook, IInv, JobInv, HookInv, TypeOK
  <2>2. TypeOK'
    BY <1>1, <2>1 DEF IInv, TypeOK, SessionCommit, historyVars
  <2>3. \A k \in Jobs : Untouched(k)
    BY <1>1, <2>1 DEF Untouched
  <2> QED
    BY <1>1, <2>2, <2>3, Frame DEF IInv
<1> QED
  BY <1>2, <1>3

LEMMA SessionRollbackIInv ==
  ASSUME IInv, NEW j \in Jobs, SessionRollback(j)
  PROVE  IInv'
<1>1. /\ proc' = proc /\ status' = status /\ attempts' = attempts /\ limit' = limit
      /\ task' = task /\ effects' = effects /\ interrupted' = interrupted
      /\ sess[j] \in {"open", "used"} /\ sess'[j] = "used" /\ proc = "up"
  BY DEF SessionRollback, InSession, historyVars, rowVars, IInv, TypeOK, JobInv, DownInv
<1>2. /\ j \notin onCommit' /\ j \notin onRollback'
      /\ sess[j] = "used" => active' = active
      /\ active' \subseteq active /\ onCommit' \subseteq onCommit
      /\ onRollback' \subseteq onRollback
  BY DEF SessionRollback, FireRollbackHook, InSession, IInv, JobInv, HookInv
<1>3. TypeOK'
  BY <1>1, <1>2 DEF IInv, TypeOK, SessionRollback, historyVars, SessPC
<1>4. \A k \in Jobs : k # j => Untouched(k)
  BY <1>1 DEF Untouched, SessionRollback, FireRollbackHook, IInv, TypeOK
<1>5. JobInv(j)'
  <2>1. sess[j] = "open" => \A s \in Slots : ~Live(j, s)
    BY AbsentIdle DEF IInv, JobInv, HookInv
  <2>2. (DownInv(j) /\ HookInv(j))'
    BY <1>1, <1>2 DEF DownInv, HookInv
  <2>3. TaskInv(j)'
    BY <1>1, <1>2, <2>1 DEF IInv, JobInv, TaskInv, Live
  <2>4. (AttemptInv(j) /\ EffectInv(j))'
    BY <1>1 DEF IInv, JobInv, AttemptInv, EffectInv, HandlerDone, Cap, Attempting
  <2> QED
    BY <2>2, <2>3, <2>4 DEF JobInv
<1> QED
  BY <1>1, <1>3, <1>4, <1>5, StepOfOneJob

LEMMA SessionCloseIInv ==
  ASSUME IInv, NEW j \in Jobs, SessionClose(j)
  PROVE  IInv'
<1>1. /\ proc' = proc /\ status' = status /\ attempts' = attempts /\ limit' = limit
      /\ task' = task /\ effects' = effects /\ interrupted' = interrupted
      /\ active' = active /\ j \notin onCommit' /\ j \notin onRollback'
      /\ sess[j] \in {"open", "used"} /\ sess'[j] = "closed"
  BY DEF SessionClose, InSession, historyVars, rowVars, IInv, TypeOK
<1>2. TypeOK'
  BY <1>1 DEF IInv, TypeOK, SessionClose, historyVars, SessPC
<1>3. \A k \in Jobs : k # j => Untouched(k)
  BY <1>1 DEF Untouched, SessionClose, IInv, TypeOK
<1>4. JobInv(j)'
  <2>1. (DownInv(j) /\ HookInv(j))'
    BY <1>1 DEF DownInv, HookInv, IInv, JobInv, Live
  <2>2. TaskInv(j)'
    BY <1>1 DEF IInv, JobInv, TaskInv, Live
  <2>3. (AttemptInv(j) /\ EffectInv(j))'
    BY <1>1 DEF IInv, JobInv, AttemptInv, EffectInv, HandlerDone, Cap, Attempting
  <2> QED
    BY <2>1, <2>2, <2>3 DEF JobInv
<1> QED
  BY <1>1, <1>2, <1>3, <1>4, StepOfOneJob

-----------------------------------------------------------------------------
(* The task's steps *)

LEMMA LoadIInv ==
  ASSUME IInv, NEW j \in Jobs, NEW s \in Slots, Load(j, s)
  PROVE  IInv'
<1>1. /\ task[j][s] = "load"
      /\ Goto(j, s, "exec") /\ active' = active
      /\ active' \subseteq active
      /\ \A k \in Jobs : k # j => (k \in active' <=> k \in active)
      /\ proc' = proc /\ limit' = limit /\ sess' = sess
      /\ onCommit' = onCommit /\ onRollback' = onRollback
      /\ status[j] \in {"pending", "failed"}
      /\ status' = [status EXCEPT ![j] = "running"] /\ status'[j] = "running"
      /\ attempts' = [attempts EXCEPT ![j] = attempts[j] + 1]
      /\ attempts'[j] = attempts[j] + 1
      /\ effects' = effects /\ interrupted' = interrupted
  BY OnlyTask DEF Load, Return, historyVars, callerVars, rowVars, IInv, JobInv,
     TaskInv, TypeOK, AttemptPC, Live, Runnable
<1>2. /\ task' \in [Jobs -> [Slots -> TaskPC]]
      /\ \A k \in Jobs : k # j => task'[k] = task[k]
      /\ \A t \in Slots : task'[j][t] = IF t = s THEN "exec" ELSE task[j][t]
  BY <1>1, GotoMoves DEF IInv, TaskPC, AttemptPC
<1>3. \A t \in Slots : t # s => task[j][t] = "none" /\ task'[j][t] = "none"
  BY <1>1, <1>2, OnlyTask DEF IInv, JobInv, Live, AttemptPC
<1>4. TypeOK'
  <2>1. attempts[j] + 1 \in Nat
    BY DEF IInv, TypeOK
  <2>2. attempts' \in [Jobs -> Nat]
    BY <1>1, <2>1 DEF IInv, TypeOK
  <2> QED
    BY <1>1, <1>2, <2>2 DEF IInv, TypeOK, Load, historyVars, callerVars, rowVars, Status
<1>5. \A k \in Jobs : k # j => Untouched(k)
  BY <1>1, <1>2 DEF Untouched, Load, historyVars, rowVars, IInv, TypeOK
<1>6. JobInv(j)'
  <2>1. Live(j, s)
    BY <1>1 DEF Live, AttemptPC
  <2>2. (DownInv(j) /\ HookInv(j))'
    BY <1>1, <2>1 DEF DownInv, HookInv, IInv, JobInv, TaskInv, AttemptPC
  <2>3. TaskInv(j)'
    BY <1>1, <1>2, <1>3, <2>1 DEF IInv, JobInv, TaskInv, Live, AttemptPC
  <2>4. AttemptInv(j)'
    <3>0. ~Attempting(j) /\ Attempting(j)'
      BY <1>1, <1>2, <1>3 DEF Attempting, AttemptPC
    <3>1. attempts[j] < Cap(j) + interrupted[j]
      BY <1>1, <3>0 DEF IInv, JobInv, AttemptInv, Runnable
    <3>2. attempts[j] \in Nat /\ interrupted[j] \in Nat /\ Cap(j) \in Nat /\ Cap(j)' = Cap(j)
      BY <1>1, CapPositive DEF IInv, TypeOK, Cap
    <3> QED
      BY <1>1, <3>0, <3>1, <3>2 DEF AttemptInv
  <2>5. EffectInv(j)'
    <3>1. effects[j] <= interrupted[j] /\ ~HandlerDone(j)'
      BY <1>1, <1>2, <1>3 DEF IInv, TypeOK, JobInv, EffectInv, HandlerDone
    <3>2. effects'[j] \in Nat /\ interrupted'[j] \in Nat
      BY <1>4 DEF TypeOK
    <3> QED
      BY <1>1, <3>1, <3>2 DEF EffectInv
  <2> QED
    BY <2>2, <2>3, <2>4, <2>5 DEF JobInv
<1> QED
  BY <1>1, <1>4, <1>5, <1>6, StepOfOneJob

LEMMA HandlerSucceedsIInv ==
  ASSUME IInv, NEW j \in Jobs, NEW s \in Slots, HandlerSucceeds(j, s)
  PROVE  IInv'
<1>1. /\ task[j][s] = "exec"
      /\ Goto(j, s, "ok") /\ active' = active
      /\ active' \subseteq active
      /\ \A k \in Jobs : k # j => (k \in active' <=> k \in active)
      /\ proc' = proc /\ limit' = limit /\ sess' = sess
      /\ onCommit' = onCommit /\ onRollback' = onRollback
      /\ status[j] = "running" /\ status' = status /\ attempts' = attempts
      /\ effects' = [effects EXCEPT ![j] = effects[j] + 1]
      /\ effects'[j] = effects[j] + 1 /\ interrupted' = interrupted
  BY OnlyTask DEF HandlerSucceeds, Return, historyVars, callerVars, rowVars, IInv, JobInv,
     TaskInv, TypeOK, AttemptPC, Live
<1>2. /\ task' \in [Jobs -> [Slots -> TaskPC]]
      /\ \A k \in Jobs : k # j => task'[k] = task[k]
      /\ \A t \in Slots : task'[j][t] = IF t = s THEN "ok" ELSE task[j][t]
  BY <1>1, GotoMoves DEF IInv, TaskPC, AttemptPC
<1>3. \A t \in Slots : t # s => task[j][t] = "none" /\ task'[j][t] = "none"
  BY <1>1, <1>2, OnlyTask DEF IInv, JobInv, Live, AttemptPC
<1>4. TypeOK'
  <2>1. effects[j] + 1 \in Nat
    BY DEF IInv, TypeOK
  <2>2. effects' \in [Jobs -> Nat]
    BY <1>1, <2>1 DEF IInv, TypeOK
  <2> QED
    BY <1>1, <1>2, <2>2 DEF IInv, TypeOK, HandlerSucceeds, historyVars, callerVars, rowVars, Status
<1>5. \A k \in Jobs : k # j => Untouched(k)
  BY <1>1, <1>2 DEF Untouched, HandlerSucceeds, historyVars, rowVars, IInv, TypeOK
<1>6. JobInv(j)'
  <2>1. Live(j, s)
    BY <1>1 DEF Live, AttemptPC
  <2>2. (DownInv(j) /\ HookInv(j))'
    BY <1>1, <2>1 DEF DownInv, HookInv, IInv, JobInv, TaskInv, AttemptPC
  <2>3. TaskInv(j)'
    BY <1>1, <1>2, <1>3, <2>1 DEF IInv, JobInv, TaskInv, Live, AttemptPC
  <2>4. AttemptInv(j)'
    <3>1. attempts[j] <= Cap(j) + interrupted[j] /\ Attempting(j)'
      BY <1>1, <1>2, <1>3, CapPositive DEF IInv, TypeOK, JobInv, AttemptInv, Runnable, Attempting, AttemptPC
    <3>2. attempts'[j] \in Nat /\ interrupted'[j] \in Nat /\ Cap(j) \in Nat /\ Cap(j)' = Cap(j)
      BY <1>1, <1>4, CapPositive DEF TypeOK, Cap
    <3> QED
      BY <1>1, <3>1, <3>2 DEF AttemptInv
  <2>5. EffectInv(j)'
    <3>0. ~HandlerDone(j) /\ HandlerDone(j)'
      BY <1>1, <1>2, <1>3 DEF HandlerDone
    <3>1. effects[j] <= interrupted[j]
      BY <1>1, <3>0 DEF IInv, JobInv, EffectInv
    <3>2. effects[j] \in Nat /\ interrupted[j] \in Nat
      BY DEF IInv, TypeOK
    <3> QED
      BY <1>1, <3>0, <3>1, <3>2 DEF EffectInv
  <2> QED
    BY <2>2, <2>3, <2>4, <2>5 DEF JobInv
<1> QED
  BY <1>1, <1>4, <1>5, <1>6, StepOfOneJob

LEMMA HandlerRaisesIInv ==
  ASSUME IInv, NEW j \in Jobs, NEW s \in Slots, HandlerRaises(j, s)
  PROVE  IInv'
<1>0. PICK e \in {"confErr", "err"} : Goto(j, s, e)
  BY DEF HandlerRaises
<1>1. /\ task[j][s] = "exec" /\ status[j] = "running"
      /\ UNCHANGED <<status, attempts, limit, proc, active, sess, onCommit, onRollback>>
      /\ UNCHANGED <<effects, interrupted, stops, dbErrors>>
  BY DEF HandlerRaises, historyVars, callerVars, rowVars, IInv, JobInv, TaskInv, AttemptPC
<1>2. /\ task' \in [Jobs -> [Slots -> TaskPC]]
      /\ \A k \in Jobs : k # j => task'[k] = task[k]
      /\ \A t \in Slots : task'[j][t] = IF t = s THEN e ELSE task[j][t]
  BY <1>0, GotoMoves DEF IInv, TaskPC, AttemptPC
<1>3. \A t \in Slots : t # s => task[j][t] = "none" /\ task'[j][t] = "none"
  BY <1>1, <1>2, OnlyTask DEF IInv, JobInv, Live
<1>4. TypeOK'
  BY <1>1, <1>2 DEF IInv, TypeOK
<1>5. \A k \in Jobs : k # j => Untouched(k)
  BY <1>1, <1>2 DEF Untouched
<1>6. JobInv(j)'
  <2>1. Live(j, s) /\ proc = "up"
    BY <1>1 DEF Live, IInv, TypeOK, JobInv, DownInv
  <2>2. (DownInv(j) /\ HookInv(j))'
    BY <1>1, <2>1 DEF DownInv, HookInv, IInv, JobInv
  <2>3. TaskInv(j)'
    BY <1>1, <1>2, <1>3, <2>1 DEF IInv, JobInv, TaskInv, Live, AttemptPC
  <2>4. Attempting(j) /\ Attempting(j)'
    BY <1>1, <1>2 DEF Attempting, AttemptPC
  <2>5. AttemptInv(j)'
    BY <1>1, <2>4 DEF IInv, JobInv, AttemptInv, Cap
  <2>6. ~HandlerDone(j) /\ ~HandlerDone(j)'
    BY <1>1, <1>2, <1>3 DEF HandlerDone
  <2>7. EffectInv(j)'
    BY <1>1, <2>6 DEF IInv, JobInv, EffectInv
  <2> QED
    BY <2>2, <2>3, <2>5, <2>7 DEF JobInv
<1> QED
  BY <1>1, <1>4, <1>5, <1>6, StepOfOneJob

LEMMA SaveCompletedIInv ==
  ASSUME IInv, NEW j \in Jobs, NEW s \in Slots, SaveCompleted(j, s)
  PROVE  IInv'
<1>1. /\ task[j][s] = "ok"
      /\ Goto(j, s, "none") /\ j \notin active'
      /\ active' \subseteq active
      /\ \A k \in Jobs : k # j => (k \in active' <=> k \in active)
      /\ proc' = proc /\ limit' = limit /\ sess' = sess
      /\ onCommit' = onCommit /\ onRollback' = onRollback
      /\ status[j] = "running" /\ status'[j] = "completed" /\ attempts' = attempts
      /\ effects' = effects /\ interrupted' = interrupted
  BY OnlyTask DEF SaveCompleted, Return, historyVars, callerVars, rowVars, IInv, JobInv,
     TaskInv, TypeOK, AttemptPC, Live
<1>2. /\ task' \in [Jobs -> [Slots -> TaskPC]]
      /\ \A k \in Jobs : k # j => task'[k] = task[k]
      /\ \A t \in Slots : task'[j][t] = IF t = s THEN "none" ELSE task[j][t]
  BY <1>1, GotoMoves DEF IInv, TaskPC, AttemptPC
<1>3. \A t \in Slots : t # s => task[j][t] = "none" /\ task'[j][t] = "none"
  BY <1>1, <1>2, OnlyTask DEF IInv, JobInv, Live, AttemptPC
<1>4. TypeOK'
  BY <1>1, <1>2 DEF IInv, TypeOK, SaveCompleted, Return, historyVars, callerVars, rowVars, Status
<1>5. \A k \in Jobs : k # j => Untouched(k)
  BY <1>1, <1>2 DEF Untouched, SaveCompleted, historyVars, rowVars, IInv, TypeOK
<1>6. JobInv(j)'
  <2>1. Live(j, s)
    BY <1>1 DEF Live, AttemptPC
  <2>2. (DownInv(j) /\ HookInv(j))'
    BY <1>1, <2>1 DEF DownInv, HookInv, IInv, JobInv, TaskInv, AttemptPC
  <2>3. TaskInv(j)'
    BY <1>1, <1>2, <1>3, <2>1 DEF IInv, JobInv, TaskInv, Live, AttemptPC
  <2>4. AttemptInv(j)'
    <3>1. attempts[j] <= Cap(j) + interrupted[j] /\ status'[j] \notin Runnable
      BY <1>1, <1>2, <1>3, CapPositive DEF IInv, TypeOK, JobInv, AttemptInv, Runnable, Attempting, AttemptPC
    <3>2. attempts'[j] \in Nat /\ interrupted'[j] \in Nat /\ Cap(j) \in Nat /\ Cap(j)' = Cap(j)
      BY <1>1, <1>4, CapPositive DEF TypeOK, Cap
    <3> QED
      BY <1>1, <3>1, <3>2 DEF AttemptInv
  <2>5. EffectInv(j)'
    <3>1. effects[j] <= 1 + interrupted[j] /\ effects[j] > 0
      BY <1>1, <1>2, <1>3 DEF IInv, TypeOK, JobInv, EffectInv, HandlerDone
    <3>2. effects'[j] \in Nat /\ interrupted'[j] \in Nat
      BY <1>4 DEF TypeOK
    <3> QED
      BY <1>1, <3>1, <3>2 DEF EffectInv
  <2> QED
    BY <2>2, <2>3, <2>4, <2>5 DEF JobInv
<1> QED
  BY <1>1, <1>4, <1>5, <1>6, StepOfOneJob

LEMMA SaveDeadIInv ==
  ASSUME IInv, NEW j \in Jobs, NEW s \in Slots, SaveDead(j, s)
  PROVE  IInv'
<1>1. /\ task[j][s] \in {"confErr", "err"}
      /\ Goto(j, s, "none") /\ j \notin active'
      /\ active' \subseteq active
      /\ \A k \in Jobs : k # j => (k \in active' <=> k \in active)
      /\ proc' = proc /\ limit' = limit /\ sess' = sess
      /\ onCommit' = onCommit /\ onRollback' = onRollback
      /\ status[j] = "running" /\ status'[j] = "dead" /\ attempts' = attempts
      /\ effects' = effects /\ interrupted' = interrupted
  BY OnlyTask DEF SaveDead, Return, historyVars, callerVars, rowVars, IInv, JobInv,
     TaskInv, TypeOK, AttemptPC, Live, DeadLetter
<1>2. /\ task' \in [Jobs -> [Slots -> TaskPC]]
      /\ \A k \in Jobs : k # j => task'[k] = task[k]
      /\ \A t \in Slots : task'[j][t] = IF t = s THEN "none" ELSE task[j][t]
  BY <1>1, GotoMoves DEF IInv, TaskPC, AttemptPC
<1>3. \A t \in Slots : t # s => task[j][t] = "none" /\ task'[j][t] = "none"
  BY <1>1, <1>2, OnlyTask DEF IInv, JobInv, Live, AttemptPC
<1>4. TypeOK'
  BY <1>1, <1>2 DEF IInv, TypeOK, SaveDead, Return, historyVars, callerVars, rowVars, Status
<1>5. \A k \in Jobs : k # j => Untouched(k)
  BY <1>1, <1>2 DEF Untouched, SaveDead, historyVars, rowVars, IInv, TypeOK
<1>6. JobInv(j)'
  <2>1. Live(j, s)
    BY <1>1 DEF Live, AttemptPC
  <2>2. (DownInv(j) /\ HookInv(j))'
    BY <1>1, <2>1 DEF DownInv, HookInv, IInv, JobInv, TaskInv, AttemptPC
  <2>3. TaskInv(j)'
    BY <1>1, <1>2, <1>3, <2>1 DEF IInv, JobInv, TaskInv, Live, AttemptPC
  <2>4. AttemptInv(j)'
    <3>1. attempts[j] <= Cap(j) + interrupted[j] /\ status'[j] \notin Runnable
      BY <1>1, <1>2, <1>3, CapPositive DEF IInv, TypeOK, JobInv, AttemptInv, Runnable, Attempting, AttemptPC
    <3>2. attempts'[j] \in Nat /\ interrupted'[j] \in Nat /\ Cap(j) \in Nat /\ Cap(j)' = Cap(j)
      BY <1>1, <1>4, CapPositive DEF TypeOK, Cap
    <3> QED
      BY <1>1, <3>1, <3>2 DEF AttemptInv
  <2>5. EffectInv(j)'
    <3>1. effects[j] <= interrupted[j] /\ ~HandlerDone(j)'
      BY <1>1, <1>2, <1>3 DEF IInv, TypeOK, JobInv, EffectInv, HandlerDone
    <3>2. effects'[j] \in Nat /\ interrupted'[j] \in Nat
      BY <1>4 DEF TypeOK
    <3> QED
      BY <1>1, <3>1, <3>2 DEF EffectInv
  <2> QED
    BY <2>2, <2>3, <2>4, <2>5 DEF JobInv
<1> QED
  BY <1>1, <1>4, <1>5, <1>6, StepOfOneJob

LEMMA SaveFailedIInv ==
  ASSUME IInv, NEW j \in Jobs, NEW s \in Slots, SaveFailed(j, s)
  PROVE  IInv'
<1>1. /\ task[j][s] \in {"confErr", "err"}
      /\ Goto(j, s, "backoff") /\ active' = active
      /\ active' \subseteq active
      /\ \A k \in Jobs : k # j => (k \in active' <=> k \in active)
      /\ proc' = proc /\ limit' = limit /\ sess' = sess
      /\ onCommit' = onCommit /\ onRollback' = onRollback
      /\ status[j] = "running" /\ status'[j] = "failed" /\ attempts' = attempts
      /\ ~DeadLetter(j, s)
      /\ effects' = effects /\ interrupted' = interrupted
  BY OnlyTask DEF SaveFailed, Return, historyVars, callerVars, rowVars, IInv, JobInv,
     TaskInv, TypeOK, AttemptPC, Live
<1>2. /\ task' \in [Jobs -> [Slots -> TaskPC]]
      /\ \A k \in Jobs : k # j => task'[k] = task[k]
      /\ \A t \in Slots : task'[j][t] = IF t = s THEN "backoff" ELSE task[j][t]
  BY <1>1, GotoMoves DEF IInv, TaskPC, AttemptPC
<1>3. \A t \in Slots : t # s => task[j][t] = "none" /\ task'[j][t] = "none"
  BY <1>1, <1>2, OnlyTask DEF IInv, JobInv, Live, AttemptPC
<1>4. TypeOK'
  BY <1>1, <1>2 DEF IInv, TypeOK, SaveFailed, Return, historyVars, callerVars, rowVars, Status
<1>5. \A k \in Jobs : k # j => Untouched(k)
  BY <1>1, <1>2 DEF Untouched, SaveFailed, historyVars, rowVars, IInv, TypeOK
<1>6. JobInv(j)'
  <2>1. Live(j, s)
    BY <1>1 DEF Live, AttemptPC
  <2>2. (DownInv(j) /\ HookInv(j))'
    BY <1>1, <2>1 DEF DownInv, HookInv, IInv, JobInv, TaskInv, AttemptPC
  <2>3. TaskInv(j)'
    BY <1>1, <1>2, <1>3, <2>1 DEF IInv, JobInv, TaskInv, Live, AttemptPC
  <2>4. AttemptInv(j)'
    <3>1. attempts[j] < Cap(j) + interrupted[j]
      BY <1>1, <1>2, <1>3, CapPositive DEF IInv, TypeOK, JobInv, AttemptInv, Runnable, Attempting, AttemptPC, DeadLetter
    <3>2. attempts'[j] \in Nat /\ interrupted'[j] \in Nat /\ Cap(j) \in Nat /\ Cap(j)' = Cap(j)
      BY <1>1, <1>4, CapPositive DEF TypeOK, Cap
    <3> QED
      BY <1>1, <3>1, <3>2 DEF AttemptInv
  <2>5. EffectInv(j)'
    <3>1. effects[j] <= interrupted[j] /\ ~HandlerDone(j)'
      BY <1>1, <1>2, <1>3 DEF IInv, TypeOK, JobInv, EffectInv, HandlerDone
    <3>2. effects'[j] \in Nat /\ interrupted'[j] \in Nat
      BY <1>4 DEF TypeOK
    <3> QED
      BY <1>1, <3>1, <3>2 DEF EffectInv
  <2> QED
    BY <2>2, <2>3, <2>4, <2>5 DEF JobInv
<1> QED
  BY <1>1, <1>4, <1>5, <1>6, StepOfOneJob

LEMMA WakeIInv ==
  ASSUME IInv, NEW j \in Jobs, NEW s \in Slots, Wake(j, s)
  PROVE  IInv'
<1>1. /\ task[j][s] = "backoff"
      /\ Goto(j, s, "load") /\ active' = active
      /\ active' \subseteq active
      /\ \A k \in Jobs : k # j => (k \in active' <=> k \in active)
      /\ proc' = proc /\ limit' = limit /\ sess' = sess
      /\ onCommit' = onCommit /\ onRollback' = onRollback
      /\ status[j] = "failed" /\ status' = status /\ attempts' = attempts
      /\ effects' = effects /\ interrupted' = interrupted
  BY OnlyTask DEF Wake, Return, historyVars, callerVars, rowVars, IInv, JobInv,
     TaskInv, TypeOK, AttemptPC, Live
<1>2. /\ task' \in [Jobs -> [Slots -> TaskPC]]
      /\ \A k \in Jobs : k # j => task'[k] = task[k]
      /\ \A t \in Slots : task'[j][t] = IF t = s THEN "load" ELSE task[j][t]
  BY <1>1, GotoMoves DEF IInv, TaskPC, AttemptPC
<1>3. \A t \in Slots : t # s => task[j][t] = "none" /\ task'[j][t] = "none"
  BY <1>1, <1>2, OnlyTask DEF IInv, JobInv, Live, AttemptPC
<1>4. TypeOK'
  BY <1>1, <1>2 DEF IInv, TypeOK, Wake, Return, historyVars, callerVars, rowVars, Status
<1>5. \A k \in Jobs : k # j => Untouched(k)
  BY <1>1, <1>2 DEF Untouched, Wake, historyVars, rowVars, IInv, TypeOK
<1>6. JobInv(j)'
  <2>1. Live(j, s)
    BY <1>1 DEF Live, AttemptPC
  <2>2. (DownInv(j) /\ HookInv(j))'
    BY <1>1, <2>1 DEF DownInv, HookInv, IInv, JobInv, TaskInv, AttemptPC
  <2>3. TaskInv(j)'
    BY <1>1, <1>2, <1>3, <2>1 DEF IInv, JobInv, TaskInv, Live, AttemptPC
  <2>4. AttemptInv(j)'
    <3>1. attempts[j] < Cap(j) + interrupted[j]
      BY <1>1, <1>2, <1>3, CapPositive DEF IInv, TypeOK, JobInv, AttemptInv, Runnable, Attempting, AttemptPC
    <3>2. attempts'[j] \in Nat /\ interrupted'[j] \in Nat /\ Cap(j) \in Nat /\ Cap(j)' = Cap(j)
      BY <1>1, <1>4, CapPositive DEF TypeOK, Cap
    <3> QED
      BY <1>1, <3>1, <3>2 DEF AttemptInv
  <2>5. EffectInv(j)'
    <3>1. effects[j] <= interrupted[j] /\ ~HandlerDone(j)'
      BY <1>1, <1>2, <1>3 DEF IInv, TypeOK, JobInv, EffectInv, HandlerDone
    <3>2. effects'[j] \in Nat /\ interrupted'[j] \in Nat
      BY <1>4 DEF TypeOK
    <3> QED
      BY <1>1, <3>1, <3>2 DEF EffectInv
  <2> QED
    BY <2>2, <2>3, <2>4, <2>5 DEF JobInv
<1> QED
  BY <1>1, <1>4, <1>5, <1>6, StepOfOneJob

LEMMA TaskDiesIInv ==
  ASSUME IInv, NEW j \in Jobs, NEW s \in Slots, TaskDies(j, s)
  PROVE  IInv'
<1>1. /\ task[j][s] \in {"load", "ok", "confErr", "err"}
      /\ Goto(j, s, "none")
      /\ UNCHANGED <<status, attempts, limit, proc, active, sess, onCommit, onRollback, effects>>
      /\ \A k \in Jobs : k # j => interrupted'[k] = interrupted[k]
      /\ interrupted'[j] = IF task[j][s] = "load" THEN interrupted[j] ELSE interrupted[j] + 1
  BY DEF TaskDies, callerVars, rowVars, IInv, TypeOK
<1>2. /\ task' \in [Jobs -> [Slots -> TaskPC]]
      /\ \A k \in Jobs : k # j => task'[k] = task[k]
      /\ \A t \in Slots : task'[j][t] = IF t = s THEN "none" ELSE task[j][t]
  BY <1>1, GotoMoves DEF IInv, TaskPC, AttemptPC
<1>3. Live(j, s) /\ \A t \in Slots : t # s => task[j][t] = "none"
  BY <1>1, OnlyTask DEF IInv, JobInv, Live
<1>4. \A t \in Slots : ~Live(j, t)'
  BY <1>2, <1>3 DEF Live
<1>5. TypeOK'
  <2>1. interrupted[j] + 1 \in Nat /\ dbErrors + 1 \in Nat
    BY DEF IInv, TypeOK
  <2>2. interrupted' \in [Jobs -> Nat] /\ dbErrors' \in Nat /\ stops' = stops
    BY <2>1 DEF TaskDies, IInv, TypeOK
  <2> QED
    BY <1>1, <1>2, <2>2 DEF IInv, TypeOK
<1>6. \A k \in Jobs : k # j => Untouched(k)
  BY <1>1, <1>2 DEF Untouched
<1>7. JobInv(j)'
  <2>1. proc = "up"
    BY <1>3 DEF IInv, TypeOK, JobInv, DownInv
  <2>2. (DownInv(j) /\ HookInv(j) /\ TaskInv(j))'
    BY <1>1, <1>4, <2>1 DEF DownInv, HookInv, IInv, JobInv, TaskInv, Live, AttemptPC
  <2>3. ~Attempting(j)' /\ ~HandlerDone(j)'
    BY <1>4 DEF Attempting, HandlerDone, Live, AttemptPC
  <2>4. /\ attempts[j] \in Nat /\ interrupted[j] \in Nat /\ effects[j] \in Nat
        /\ Cap(j) \in Nat /\ Cap(j)' = Cap(j)
    BY <1>1, CapPositive DEF IInv, TypeOK, Cap
  <2>5. CASE task[j][s] = "load"
    <3>1. ~Attempting(j) /\ ~HandlerDone(j)
      BY <1>3, <2>5 DEF Attempting, HandlerDone, AttemptPC
    <3> QED
      BY <1>1, <2>2, <2>3, <2>4, <2>5, <3>1 DEF IInv, JobInv, AttemptInv, EffectInv
  <2>6. CASE task[j][s] # "load"
    <3>1. status[j] = "running"
      BY <1>1, <2>6 DEF IInv, JobInv, TaskInv, AttemptPC
    <3>2. AttemptInv(j)'
      BY <1>1, <2>3, <2>4, <2>6, <3>1 DEF IInv, JobInv, AttemptInv
    <3>3. EffectInv(j)'
      BY <1>1, <2>3, <2>4, <2>6, <3>1 DEF IInv, JobInv, EffectInv
    <3> QED
      BY <2>2, <3>2, <3>3 DEF JobInv
  <2> QED
    BY <2>5, <2>6
<1> QED
  BY <1>1, <1>5, <1>6, <1>7, StepOfOneJob

-----------------------------------------------------------------------------
(* Process lifetime: these steps are about every job *)

LEMMA StopIInv ==
  ASSUME IInv, Stop
  PROVE  IInv'
<1>1. TypeOK'
  <2>1. \A j \in Jobs : interrupted[j] \in Nat /\ interrupted[j] + 1 \in Nat
    BY DEF IInv, TypeOK
  <2>2. interrupted' \in [Jobs -> Nat]
    BY <2>1 DEF Stop
  <2>3. sess' \in [Jobs -> SessPC] /\ task' \in [Jobs -> [Slots -> TaskPC]]
    BY DEF Stop, SessPC, NoTask, TaskPC
  <2>4. stops' \in Nat
    BY DEF Stop, IInv, TypeOK
  <2> QED
    BY <2>2, <2>3, <2>4 DEF Stop, IInv, TypeOK, rowVars
<1>2. ASSUME NEW j \in Jobs PROVE JobInv(j)'
  <2>1. /\ UNCHANGED <<status, attempts, limit, effects>>
        /\ active' = {} /\ onCommit' = {} /\ onRollback' = {}
        /\ sess'[j] = IF sess[j] = "none" THEN "none" ELSE "closed"
        /\ interrupted'[j] = IF Attempting(j) THEN interrupted[j] + 1 ELSE interrupted[j]
    BY DEF Stop, rowVars
  <2>2. \A s \in Slots : task'[j][s] = "none" /\ ~Live(j, s)'
    BY DEF Stop, NoTask, Live
  <2>3. (DownInv(j) /\ HookInv(j) /\ TaskInv(j))'
    BY <2>1, <2>2 DEF DownInv, HookInv, IInv, JobInv, TaskInv, AttemptPC
  <2>4. ~Attempting(j)' /\ ~HandlerDone(j)'
    BY <2>2 DEF Attempting, HandlerDone, AttemptPC
  <2>5. /\ attempts[j] \in Nat /\ interrupted[j] \in Nat /\ effects[j] \in Nat
        /\ Cap(j) \in Nat /\ Cap(j)' = Cap(j)
    BY <2>1, CapPositive DEF IInv, TypeOK, Cap
  <2>6. AttemptInv(j)'
    BY <2>1, <2>4, <2>5 DEF IInv, JobInv, AttemptInv
  <2>7. HandlerDone(j) => Attempting(j) /\ status[j] = "running"
    BY DEF HandlerDone, Attempting, AttemptPC, IInv, JobInv, TaskInv
  <2>8. EffectInv(j)'
    BY <2>1, <2>4, <2>5, <2>7 DEF IInv, JobInv, EffectInv
  <2> QED
    BY <2>3, <2>6, <2>8 DEF JobInv
<1> QED
  BY <1>1, <1>2 DEF IInv

LEMMA RecoverIInv ==
  ASSUME IInv, Recover
  PROVE  IInv'
<1> DEFINE jobs == {j \in Jobs : status[j] \in Recoverable /\ j \notin active}
<1>1. TypeOK'
  <2>1. status' \in [Jobs -> Status] /\ task' \in [Jobs -> [Slots -> TaskPC]]
    BY DEF Recover, IInv, TypeOK, Status, OneTask, TaskPC
  <2> QED
    BY <2>1 DEF Recover, IInv, TypeOK, callerVars, historyVars
<1>2. ASSUME NEW j \in Jobs PROVE JobInv(j)'
  <2>1. /\ UNCHANGED <<attempts, limit, sess, onCommit, onRollback, effects, interrupted>>
        /\ proc = "down" /\ proc' = "up"
        /\ active' = active \union jobs
        /\ status'[j] = IF j \in jobs THEN "pending" ELSE status[j]
        /\ task'[j] = IF j \in jobs THEN OneTask ELSE task[j]
    BY DEF Recover, callerVars, historyVars
  <2>2. /\ j \notin active /\ j \notin onCommit /\ j \notin onRollback
        /\ sess[j] \in {"none", "closed"}
        /\ \A s \in Slots : ~Live(j, s) /\ task[j][s] = "none"
    BY <2>1 DEF IInv, JobInv, DownInv, Live
  <2>3. ~Attempting(j) /\ ~HandlerDone(j)
    BY <2>2 DEF Attempting, HandlerDone, AttemptPC
  <2>4. /\ attempts[j] \in Nat /\ interrupted[j] \in Nat /\ effects[j] \in Nat
        /\ Cap(j) \in Nat /\ Cap(j)' = Cap(j)
    BY <2>1, CapPositive DEF IInv, TypeOK, Cap
  <2>5. CASE j \notin jobs
    <3>1. DownInv(j)' /\ HookInv(j)' /\ TaskInv(j)'
      BY <2>1, <2>2, <2>5 DEF DownInv, HookInv, IInv, JobInv, TaskInv, Live, AttemptPC
    <3>2. (AttemptInv(j) /\ EffectInv(j))'
      BY <2>1, <2>4, <2>5 DEF IInv, JobInv, AttemptInv, EffectInv, HandlerDone, Attempting
    <3> QED
      BY <3>1, <3>2 DEF JobInv
  <2>6. CASE j \in jobs
    <3>1. /\ status[j] \in {"pending", "running"} /\ status'[j] = "pending"
          /\ \A s \in Slots : task'[j][s] = IF s = 1 THEN "load" ELSE "none"
          /\ j \in active'
      BY <2>1, <2>6 DEF Recoverable, OneTask
    <3>2. DownInv(j)' /\ HookInv(j)' /\ TaskInv(j)'
      BY <2>1, <2>2, <3>1 DEF DownInv, HookInv, IInv, JobInv, TaskInv, Live, AttemptPC, Slots
    <3>3. ~Attempting(j)' /\ ~HandlerDone(j)'
      BY <3>1 DEF Attempting, HandlerDone, AttemptPC
    <3>4. AttemptInv(j)'
      BY <2>1, <2>3, <2>4, <3>1, <3>3 DEF IInv, JobInv, AttemptInv, Runnable
    <3>5. EffectInv(j)'
      BY <2>1, <2>3, <2>4, <3>1, <3>3 DEF IInv, JobInv, EffectInv
    <3> QED
      BY <3>2, <3>4, <3>5 DEF JobInv
  <2> QED
    BY <2>5, <2>6
<1> QED
  BY <1>1, <1>2 DEF IInv

LEMMA StutterIInv ==
  ASSUME IInv, UNCHANGED vars
  PROVE  IInv'
<1> USE DEF vars, rowVars, callerVars, historyVars
<1>1. TypeOK'
  BY DEF IInv, TypeOK
<1>2. \A k \in Jobs : Untouched(k)
  BY DEF Untouched
<1> QED
  BY <1>1, <1>2, Frame DEF IInv

-----------------------------------------------------------------------------
(* The theorems *)

(* IInv is inductive: every reachable state satisfies it. *)
THEOREM Inductive == Spec => []IInv
<1>1. ASSUME IInv, [Next]_vars PROVE IInv'
  <2>1. CASE \E j \in Jobs : CallerStep(j)
    BY <1>1, <2>1, EnqueueInSessionIInv, EnqueueAloneIInv, SessionCommitIInv,
       SessionRollbackIInv, SessionCloseIInv DEF CallerStep
  <2>2. CASE \E j \in Jobs, s \in Slots : TaskStep(j, s) \/ TaskDies(j, s)
    BY <1>1, <2>2, LoadIInv, HandlerSucceedsIInv, HandlerRaisesIInv, SaveCompletedIInv,
       SaveDeadIInv, SaveFailedIInv, WakeIInv, TaskDiesIInv DEF TaskStep
  <2>3. CASE Stop \/ Recover
    BY <1>1, <2>3, StopIInv, RecoverIInv
  <2>4. CASE UNCHANGED vars
    BY <1>1, <2>4, StutterIInv
  <2> QED
    BY <1>1, <2>1, <2>2, <2>3, <2>4 DEF Next
<1> QED
  BY <1>1, InitIInv, PTL DEF Spec

(* Every variable keeps its type. *)
THEOREM TypeCorrect == Spec => []TypeOK
<1>1. IInv => TypeOK
  BY DEF IInv
<1> QED
  BY <1>1, Inductive, PTL

(* No job ever has two live tasks (the once-only listeners and recovery). *)
THEOREM OneTaskPerJob == Spec => []SingleTask
<1>1. IInv => SingleTask
  BY DEF IInv, JobInv, TaskInv, SingleTask
<1> QED
  BY <1>1, Inductive, PTL

(* Every live task is in _active_job_ids and runs for a committed row. *)
THEOREM LiveTasksKnown == Spec => []LiveTaskKnown
<1>1. IInv => LiveTaskKnown
  <2> SUFFICES ASSUME IInv, NEW j \in Jobs, NEW s \in Slots, Live(j, s)
               PROVE  j \in active /\ status[j] # "absent"
    BY DEF LiveTaskKnown
  <2>1. task[j][s] \in AttemptPC \union {"load", "backoff"}
    BY DEF IInv, TypeOK, Live, TaskPC
  <2> QED
    BY <2>1 DEF IInv, JobInv, TaskInv
<1> QED
  BY <1>1, Inductive, PTL

(* Attempts exceed max_attempts by interruptions only. *)
THEOREM BoundedAttempts == Spec => []AttemptsBounded
<1>1. IInv => AttemptsBounded
  BY DEF IInv, JobInv, AttemptInv, AttemptsBounded
<1> QED
  BY <1>1, Inductive, PTL

(* A job's writes are committed once, plus once per interruption at most, and
   no job is completed without them. *)
THEOREM BoundedEffects == Spec => []EffectsBounded
<1>1. IInv => EffectsBounded
  BY DEF IInv, JobInv, EffectInv, EffectsBounded
<1> QED
  BY <1>1, Inductive, PTL

-----------------------------------------------------------------------------
(* Refinement of DurableJob *)

Life(st) == IF st \in Runnable THEN "accepted" ELSE st

(* The row changes of a step, seen through the mapping. *)
LEMMA LifeStutters ==
  ASSUME effects' = effects,
         \A j \in Jobs : Life(status'[j]) = Life(status[j])
  PROVE  UNCHANGED Promise!vars
BY DEF Promise!vars, Life, Runnable

LEMMA LifeMoves ==
  ASSUME NEW j \in Jobs, status \in [Jobs -> Status], NEW st \in Status,
         status' = [status EXCEPT ![j] = st]
  PROVE  [k \in Jobs |-> IF status[k] \in Runnable THEN "accepted" ELSE status[k]]'
           = [[k \in Jobs |-> IF status[k] \in Runnable THEN "accepted" ELSE status[k]]
                EXCEPT ![j] = Life(st)]
BY DEF Life, Runnable

(* Every step of the executor is a step of the promise or does not show. *)
LEMMA StepRefines ==
  ASSUME IInv, [Next]_vars
  PROVE  [Promise!Next]_(Promise!vars)
<1>1. ASSUME NEW j \in Jobs, CallerStep(j) PROVE [Promise!Next]_(Promise!vars)
  <2>1. CASE \E m \in Limits : EnqueueInSession(j, m)
    BY <2>1, LifeStutters DEF EnqueueInSession, historyVars
  <2>2. CASE \E m \in Limits : EnqueueAlone(j, m)
    <3>1. /\ status[j] = "absent" /\ status' = [status EXCEPT ![j] = "pending"]
          /\ effects' = effects
      BY <2>2 DEF EnqueueAlone, Fresh, historyVars
    <3>2. Promise!Accept(j)
      BY <3>1, LifeMoves DEF Promise!Accept, Promise!Become, Life, Runnable, IInv, TypeOK, Status
    <3> QED
      BY <3>2 DEF Promise!Next
  <2>3. CASE SessionCommit(j)
    <3>1. CASE sess[j] = "open"
      <4>1. /\ status[j] = "absent" /\ status' = [status EXCEPT ![j] = "pending"]
            /\ effects' = effects
        BY <2>3, <3>1 DEF SessionCommit, historyVars, IInv, JobInv, HookInv
      <4>2. Promise!Accept(j)
        BY <4>1, LifeMoves DEF Promise!Accept, Promise!Become, Life, Runnable, IInv, TypeOK, Status
      <4> QED
        BY <4>2 DEF Promise!Next
    <3>2. CASE sess[j] # "open"
      BY <2>3, <3>2, LifeStutters DEF SessionCommit, historyVars
    <3> QED
      BY <3>1, <3>2
  <2>4. CASE SessionRollback(j) \/ SessionClose(j)
    BY <2>4, LifeStutters DEF SessionRollback, SessionClose, rowVars, historyVars
  <2> QED
    BY <1>1, <2>1, <2>2, <2>3, <2>4 DEF CallerStep
<1>2. ASSUME NEW j \in Jobs, NEW s \in Slots, TaskStep(j, s) \/ TaskDies(j, s)
      PROVE  [Promise!Next]_(Promise!vars)
  <2>1. CASE Load(j, s)
    <3>1. status[j] \in {"pending", "failed"}
      BY <2>1 DEF Load, IInv, JobInv, TaskInv
    <3> QED
      BY <2>1, <3>1, LifeStutters DEF Load, Life, Runnable, historyVars, IInv, TypeOK
  <2>2. CASE HandlerSucceeds(j, s)
    <3>1. status[j] = "running"
      BY <2>2 DEF HandlerSucceeds, IInv, JobInv, TaskInv, AttemptPC
    <3>2. Promise!Execute(j)
      BY <2>2, <3>1 DEF Promise!Execute, HandlerSucceeds, rowVars, Runnable
    <3> QED
      BY <3>2 DEF Promise!Next
  <2>3. CASE SaveCompleted(j, s)
    <3>1. /\ status[j] = "running" /\ effects[j] > 0 /\ effects' = effects
          /\ status' = [status EXCEPT ![j] = "completed"]
      BY <2>3 DEF SaveCompleted, historyVars, IInv, JobInv, TaskInv, EffectInv,
                  HandlerDone, AttemptPC
    <3>2. Promise!Complete(j)
      BY <3>1, LifeMoves DEF Promise!Complete, Promise!Become, Life, Runnable, IInv, TypeOK, Status
    <3> QED
      BY <3>2 DEF Promise!Next
  <2>4. CASE SaveDead(j, s)
    <3>1. /\ status[j] = "running" /\ effects' = effects
          /\ status' = [status EXCEPT ![j] = "dead"]
      BY <2>4 DEF SaveDead, DeadLetter, historyVars, IInv, JobInv, TaskInv, AttemptPC
    <3>2. Promise!GiveUp(j)
      BY <3>1, LifeMoves DEF Promise!GiveUp, Promise!Become, Life, Runnable, IInv, TypeOK, Status
    <3> QED
      BY <3>2 DEF Promise!Next
  <2>5. CASE SaveFailed(j, s)
    <3>1. status[j] = "running"
      BY <2>5 DEF SaveFailed, IInv, JobInv, TaskInv, AttemptPC
    <3> QED
      BY <2>5, <3>1, LifeStutters DEF SaveFailed, Life, Runnable, historyVars, IInv, TypeOK
  <2>6. CASE HandlerRaises(j, s) \/ Wake(j, s) \/ TaskDies(j, s)
    BY <2>6, LifeStutters DEF HandlerRaises, Wake, TaskDies, rowVars, historyVars
  <2> QED
    BY <1>2, <2>1, <2>2, <2>3, <2>4, <2>5, <2>6 DEF TaskStep
<1>3. CASE Stop
  BY <1>3, LifeStutters DEF Stop, rowVars
<1>4. CASE Recover
  <2>1. \A j \in Jobs : Life(status'[j]) = Life(status[j])
    BY <1>4 DEF Recover, Recoverable, Life, Runnable
  <2> QED
    BY <1>4, <2>1, LifeStutters DEF Recover, historyVars
<1>5. CASE UNCHANGED vars
  BY <1>5, LifeStutters DEF vars, rowVars, historyVars
<1> QED
  BY <1>1, <1>2, <1>3, <1>4, <1>5 DEF Next

(* The executor implements DurableJob: at least one execution before
   completion, effects for accepted jobs only, completed and dead final. *)
THEOREM Refinement == Spec => Implements
<1>1. Init => Promise!Init
  BY DEF Init, Promise!Init, Runnable
<1>2. IInv /\ [Next]_vars => [Promise!Next]_(Promise!vars)
  BY StepRefines
<1> QED
  BY <1>1, <1>2, Inductive, PTL DEF Spec, Implements, Promise!Spec

=============================================================================
