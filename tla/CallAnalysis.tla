---------------------------- MODULE CallAnalysis ----------------------------
(***************************************************************************)
(* One run of the post-call analysis: _call_gpt_summarize                  *)
(* (backend/app/summarizer.py) asks six dimensions and four pipelines at   *)
(* once, each of which may fail or be refused by the model, and the        *)
(* next-action engine (backend/app/analysis/universal/next_action.py)      *)
(* decides from whatever came back.  No database is touched between Gather *)
(* and the result.                                                         *)
(***************************************************************************)
EXTENDS CallWindow, Sequences

CONSTANTS
  MaxAttempts, MinInterest, CloseOnHard, Cooldown,  \* ClientRules
  HasProducts,        \* the client's analysis profile names products
  Clocks,             \* bound: UTC ticks at which the engine runs
  Outcomes,           \* bound: outcome classifications the model answers
  Promises,           \* bound: commitments it reports, in sequences of two
  Scores, Previous    \* bound: product scores, and earlier interest levels

(* clients/schemas.py refuses a negative cooldown. *)
ASSUME AnalysisAssumption == Cooldown \in Nat /\ Clocks \subseteq Int

VARIABLES
  stage,    \* "asking", "deciding", "validating", "guessing", "done", "raised"
  snapshot, \* what was read before the calls: LeadSnapshot, session, interest
  answer,   \* what the calls returned
  proposal, \* what the rules engine decided
  decision  \* the facts the summarizer goes on with

analysisVars == <<stage, snapshot, answer, proposal, decision>>

Failed == "failed"
Refused == "refused"   \* .parse() returned no error and parsed = None
NoTime == -1
None == -1
Unscored == {None}   \* the second interest agent failed or was not asked

Choices == {"follow_up", "retry_call", "schedule_call", "close_lead", "human_review"}

-----------------------------------------------------------------------------
(* Interest: compute_general_score. *)

Largest(S) == CHOOSE x \in S : \A y \in S : y <= x

(* 70 % of the best product and 30 % of the earlier level, rounded; a half may
   go either way (binary fractions, ties to even). *)
Blend(scores, previous) ==
  IF scores = {} THEN {0}
  ELSE IF previous = None THEN {Largest(scores)}
  ELSE LET tenths == 7 * Largest(scores) + 3 * previous
       IN  {r \in {tenths \div 10, tenths \div 10 + 1} :
              (10 * r - tenths) \in -5 .. 5}

(* run_interest_pipeline: a client without products has a level of 0 and no
   call is made; a failure of the second agent leaves the level at 0. *)
Interest(a, previous) ==
  IF HasProducts /\ a.level # Unscored
  THEN Blend(a.level, previous) ELSE {0}

-----------------------------------------------------------------------------
(* The rules, in their order; each gives a set of at most one result. *)

Result(action, at) == {[action |-> action, at |-> at]}

HardStop == {"do_not_contact", "wrong_number", "hostile"}

HardStops(c) ==
  IF c.class \in HardStop \/ c.dnc \/ (CloseOnHard /\ c.rejected)
  THEN Result("close_lead", NoTime) ELSE {}

AttemptsSpent(c) == IF c.calls >= MaxAttempts THEN Result("close_lead", NoTime) ELSE {}

(* _due_to_utc, with the fallback of its callers.  Today's opening may have
   passed: "scheduler will deal with it". *)
DueAt(due, now) ==
  LET day == ToLocal(now).day
  IN  CASE due = "today"     -> ToUtc(Opening(day))
        [] due = "tomorrow"  -> ToUtc(Opening(day + 1))
        [] due = "this_week" -> ToUtc(Opening(day + 2))
        [] OTHER             -> ScheduledAt(now, Cooldown)

Firm(k) == k.strength \in {"strong", "medium"}

Committed(k, now) ==
  CASE k.type = "callback" /\ Firm(k) /\ k.owner \in {"lead", "both"} ->
         Result("schedule_call", DueAt(k.due, now))
    [] k.type = "receive_quote" /\ Firm(k) -> Result("follow_up", NoTime)
    [] k.type = "consult_third_party"      -> Result("follow_up", NoTime)
    [] OTHER                               -> {}

FirstOf(results) ==
  LET Matches(i) == results[i] # {}
  IN  IF \E i \in DOMAIN results : Matches(i)
      THEN results[CHOOSE i \in DOMAIN results :
                     Matches(i) /\ \A j \in DOMAIN results : Matches(j) => i <= j]
      ELSE {}

CommitmentBased(c) ==
  FirstOf([i \in 1 .. Len(c.commitments) |-> Committed(c.commitments[i], c.now)])

CallbackRequested(c) ==
  LET Callback(i) == c.commitments[i].type = "callback"
      first == CHOOSE i \in DOMAIN c.commitments :
                 Callback(i) /\ \A j \in DOMAIN c.commitments : Callback(j) => i <= j
      due == IF \E i \in DOMAIN c.commitments : Callback(i)
             THEN c.commitments[first].due ELSE "unknown"
  IN  IF c.class = "callback_requested"
      THEN Result("schedule_call", DueAt(due, c.now)) ELSE {}

VoicemailRecontact(c) ==
  IF c.telephony = "voicemail"
  THEN Result("retry_call", ScheduledAt(c.now, Cooldown)) ELSE {}

NoUsefulConversation(c) ==
  IF \/ c.class \in {"no_answer", "busy", "technical_issue"}
     \/ c.abrupt /\ c.class \notin {"completed_positive", "completed_neutral",
                                    "completed_negative", "callback_requested"}
  THEN Result("retry_call", ScheduledAt(c.now, Cooldown)) ELSE {}

InterestOutcome(c) ==
  IF c.interest >= MinInterest /\ c.class \in {"completed_positive", "completed_neutral"}
  THEN Result("follow_up", NoTime)
  ELSE IF c.interest < 20 /\ c.class = "completed_negative"
  THEN Result("close_lead", NoTime) ELSE {}

(* Mutant of Rules: the hard stops after the commitments. *)
Rules_StopsLate(c) ==
  FirstOf(<<AttemptsSpent(c), CommitmentBased(c), CallbackRequested(c),
            VoicemailRecontact(c), HardStops(c), NoUsefulConversation(c), InterestOutcome(c)>>)

(* _RULES, _evaluate_rules: the first rule that matches decides. *)
Rules(c) ==
  FirstOf(<<HardStops(c), AttemptsSpent(c), CommitmentBased(c), CallbackRequested(c),
            VoicemailRecontact(c), NoUsefulConversation(c), InterestOutcome(c)>>)

-----------------------------------------------------------------------------
NoAnswer == [outcome |-> Failed, abrupt |-> FALSE, axes |-> Failed, commitments |-> <<>>,
             rejected |-> FALSE, others |-> 0, refused |-> FALSE,
             interests |-> Failed, level |-> Unscored]
NoProposal == [action |-> "none", at |-> NoTime]
NoFacts == [action |-> "none", at |-> NoTime, by |-> "none", interest |-> 0]

Lists == {<<>>} \union {<<k>> : k \in Promises} \union {<<k, l>> : k, l \in Promises}

(* A call may have no lead, and then nothing to read of it. *)
Leads ==
  [known : {TRUE}, calls : {0, MaxAttempts}, dnc : BOOLEAN,
   previous : Previous, telephony : {"completed", "voicemail"}, now : Clocks]
    \union
  [known : {FALSE}, calls : {0}, dnc : {FALSE},
   previous : {None}, telephony : {"completed", "voicemail"}, now : Clocks]

AnalysisInit ==
  /\ stage = "asking"
  /\ snapshot \in Leads
  /\ answer = NoAnswer
  /\ proposal = NoProposal
  /\ decision = NoFacts

(* What may come back: the outcome; the commitments and objections (axes, refused
   when either is), with an unresolved hard rejection or not; how many of the
   other three dimensions did not fail, and whether one of them was refused; the
   two interest agents, for whom a refusal is a failure.  What failed or was
   refused reads as its default, and the second agent is asked only when the
   first answered. *)
OutcomeAnswers ==
  [outcome : Outcomes, abrupt : BOOLEAN]
    \union [outcome : {Failed, Refused}, abrupt : {FALSE}]

AxesAnswers ==
  [axes : {"ok"}, commitments : Lists, rejected : BOOLEAN]
    \union [axes : {Failed, Refused}, commitments : {<<>>}, rejected : {FALSE}]

OtherAnswers == [others : {3}, refused : BOOLEAN] \union [others : {0}, refused : {FALSE}]

InterestAnswers ==
  [interests : {"ok"}, level : {{}, Unscored} \union {{s} : s \in Scores}]
    \union {[interests |-> Failed, level |-> Unscored]}

Answers ==
  {[outcome |-> t.outcome, abrupt |-> t.abrupt, axes |-> x.axes,
    commitments |-> x.commitments, rejected |-> x.rejected, others |-> n.others,
    refused |-> n.refused, interests |-> l.interests, level |-> l.level] :
     t \in OutcomeAnswers, x \in AxesAnswers, n \in OtherAnswers, l \in InterestAnswers}

Count(b) == IF b THEN 1 ELSE 0

Failures(a) ==
  Count(a.outcome = Failed) + 2 * Count(a.axes = Failed) + (3 - a.others)
    + Count(HasProducts /\ a.interests = Failed)

(* Mutant of Outage: the dimensions without the interest pipeline. *)
Outage_SixOnly(a) == Failures(a) >= 6

(* Six dimensions and the interest pipeline, which counts for its first agent
   and cannot fail for a client without products. *)
Outage(a) == Failures(a) >= 7

(* A refused dimension is no failure: it is kept as None, which no field of
   PostCallAnalysis admits. *)
Refusal(a) == Refused \in {a.outcome, a.axes} \/ a.refused

(* asyncio.gather returns once every call has.  The analysis is raised when all
   failed; without a lead there is nothing to decide, and the facts are built. *)
Gather ==
  /\ stage = "asking"
  /\ answer' \in Answers
  /\ \/ /\ Outage(answer') \/ (~snapshot.known /\ Refusal(answer'))
        /\ stage' = "raised" /\ UNCHANGED decision
     \/ /\ ~Outage(answer') /\ (snapshot.known \/ ~Refusal(answer'))
        /\ stage' = IF snapshot.known THEN "deciding" ELSE "done"
        /\ \E i \in Interest(answer', snapshot.previous) :
             decision' = [NoFacts EXCEPT !.interest = i, !.action = "wait"]
  /\ UNCHANGED <<snapshot, proposal>>

(* Mutant of Context: an unread outcome counts as a lead that declined. *)
Context_Declined ==
  [class |-> IF answer.outcome \in {Failed, Refused} THEN "completed_negative" ELSE answer.outcome,
   abrupt |-> answer.abrupt, commitments |-> answer.commitments,
   rejected |-> answer.rejected, interest |-> decision.interest,
   calls |-> snapshot.calls, dnc |-> snapshot.dnc,
   telephony |-> snapshot.telephony, now |-> snapshot.now]

(* NextActionContext: an outcome that failed or was refused reads as no_answer. *)
Context ==
  [class |-> IF answer.outcome \in {Failed, Refused} THEN "no_answer" ELSE answer.outcome,
   abrupt |-> answer.abrupt, commitments |-> answer.commitments,
   rejected |-> answer.rejected, interest |-> decision.interest,
   calls |-> snapshot.calls, dnc |-> snapshot.dnc,
   telephony |-> snapshot.telephony, now |-> snapshot.now]

Decide ==
  /\ stage = "deciding"
  /\ LET hit == Rules(Context)
     IN  \/ hit # {} /\ proposal' \in hit /\ stage' = "validating"
         \/ hit = {} /\ stage' = "guessing" /\ UNCHANGED proposal
  /\ UNCHANGED <<snapshot, answer, decision>>

(* The facts are built only now: for a refused dimension PostCallAnalysis raises,
   and the decision is lost with the rest. *)
Conclude(action, at, by) ==
  /\ \/ /\ Refusal(answer)
        /\ stage' = "raised" /\ UNCHANGED decision
     \/ /\ ~Refusal(answer)
        /\ stage' = "done"
        /\ decision' = [decision EXCEPT !.action = action, !.at = at, !.by = by]
  /\ UNCHANGED <<snapshot, answer, proposal>>

(* The second opinion agrees, answers nonsense or fails: the rules stand; it
   disagrees: a human decides.  The time is kept in every case. *)
Validate ==
  /\ stage = "validating"
  /\ \/ Conclude(proposal.action, proposal.at, "rules")
     \/ Conclude("human_review", proposal.at, "rules")

(* Without a rule the model decides; what is no action is for a human; a
   request that fails leaves the default. *)
Guess ==
  /\ stage = "guessing"
  /\ \/ \E action \in Choices : Conclude(action, NoTime, "gpt")
     \/ Conclude("wait", NoTime, "none")

AnalysisNext == Gather \/ Decide \/ Validate \/ Guess

AnalysisSpec == AnalysisInit /\ [][AnalysisNext]_analysisVars

-----------------------------------------------------------------------------
Over == stage = "done"

(* A lead that said stop, in this call or an earlier one, is never to be
   called or written to again, whatever it also promised and whatever the
   second opinion thinks. *)
StopIsRespected ==
  Over /\ snapshot.known /\ (snapshot.dnc \/ answer.outcome \in HardStop)
    => decision.action \in {"close_lead", "human_review"}

(* Every time the engine computes is one at which the dialer will not put the
   call off, and it is in the past only for a callback promised for today. *)
TimesAreCallable ==
  proposal.at # NoTime =>
    /\ MayDialAt(proposal.at)
    /\ \/ proposal.at >= snapshot.now
       \/ /\ ToLocal(proposal.at).day = ToLocal(snapshot.now).day
          /\ \E i \in 1 .. Len(answer.commitments) :
               answer.commitments[i].type = "callback" /\ answer.commitments[i].due = "today"

(* The analysis is raised, and its job retried, exactly when nothing was answered
   or a dimension was refused: one answer is enough against any number of
   failures, a single refusal costs every answer, whether or not the engine ran
   in between, and no None is ever stored.  (For a client without products an
   outage passes for an empty call.) *)
RaisedForCause ==
  HasProducts /\ stage \in {"done", "raised"} =>
    (stage = "raised" <=>
       \/ {answer.outcome, answer.axes, answer.interests} = {Failed} /\ answer.others = 0
       \/ Refusal(answer))

(* A call whose outcome could not be read never closes the lead for what was
   said in it: only an earlier stop, the attempts or a clear rejection can. *)
UnreadNeverCloses ==
  Over /\ answer.outcome = Failed /\ decision.action = "close_lead"
    => snapshot.dnc \/ snapshot.calls >= MaxAttempts \/ (CloseOnHard /\ answer.rejected)
=============================================================================
