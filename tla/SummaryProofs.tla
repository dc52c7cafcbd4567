---------------------------- MODULE SummaryProofs ----------------------------
(* What follows a call, proved for every value of the constants: the times of
   CallWindow, what the analysis of a call may decide (CallAnalysis) and what
   the summaries of a lead may write (PostCall). *)
EXTENDS CallAnalysis, PostCall, TLAPS

-----------------------------------------------------------------------------
(* Clamp: the earliest allowed time that is not before the candidate. *)

(* Whatever the candidate, the time computed is one the client allows. *)
THEOREM ClampAllowed == \A t \in LocalTime : Clamp(t) \in LocalTime /\ Allowed(Clamp(t))
<1>1. ASSUME NEW t \in LocalTime PROVE Clamp(t) \in LocalTime /\ Allowed(Clamp(t))
  <2>1. CASE Allowed(t)
    BY <2>1 DEF Clamp
  <2>2. CASE ~Allowed(t)
    <3>1. PICK d \in Int : Clamp(t) = Opening(d)
      BY <2>2 DEF Clamp, LocalTime
    <3> QED BY <3>1, WindowAssumption DEF Opening, LocalTime, Allowed
  <2> QED BY <2>1, <2>2
<1> QED BY <1>1

(* The recall is never earlier than the cooldown asked for. *)
THEOREM ClampNotBefore == \A t \in LocalTime : NotAfter(t, Clamp(t))
<1>1. ASSUME NEW t \in LocalTime PROVE NotAfter(t, Clamp(t))
  <2>1. CASE Allowed(t)
    BY <2>1 DEF Clamp, NotAfter
  <2>2. CASE ~Allowed(t) /\ t.hour < StartHour
    <3>1. Clamp(t) = Opening(t.day)
      BY <2>2 DEF Clamp
    <3> QED BY <3>1, <2>2, WindowAssumption DEF Opening, NotAfter, Before, LocalTime
  <2>3. CASE ~Allowed(t) /\ ~(t.hour < StartHour)
    <3>1. Clamp(t) = Opening(t.day + 1)
      BY <2>3 DEF Clamp
    <3> QED BY <3>1, WindowAssumption DEF Opening, NotAfter, Before, LocalTime
  <2> QED BY <2>1, <2>2, <2>3
<1> QED BY <1>1

(* No allowed time at or after the candidate comes before the one computed:
   a lead is not kept waiting for another day. *)
THEOREM ClampEarliest ==
  \A t, u \in LocalTime : Allowed(u) /\ NotAfter(t, u) => NotAfter(Clamp(t), u)
<1>1. ASSUME NEW t \in LocalTime, NEW u \in LocalTime, Allowed(u), NotAfter(t, u)
      PROVE  NotAfter(Clamp(t), u)
  <2>1. CASE Allowed(t)
    BY <1>1, <2>1 DEF Clamp
  <2>2. CASE ~Allowed(t) /\ t.hour < StartHour
    <3>1. Clamp(t) = Opening(t.day)
      BY <2>2 DEF Clamp
    <3>2. t.day < u.day \/ t.day = u.day
      BY <1>1 DEF NotAfter, Before, LocalTime
    <3>3. Opening(t.day).day = t.day /\ Opening(t.day).hour = StartHour /\ Opening(t.day).tick = 0
      BY DEF Opening
    <3>4. CASE t.day < u.day
      BY <3>1, <3>3, <3>4 DEF NotAfter, Before
    <3>5. CASE t.day = u.day
      <4>1. StartHour <= u.hour
        BY <1>1 DEF Allowed
      <4>2. CASE StartHour < u.hour
        BY <3>1, <3>3, <3>5, <4>2 DEF NotAfter, Before
      <4>3. CASE StartHour = u.hour /\ 0 < u.tick
        BY <3>1, <3>3, <3>5, <4>3 DEF NotAfter, Before
      <4>4. CASE StartHour = u.hour /\ u.tick = 0
        BY <3>1, <3>5, <4>4 DEF NotAfter, Opening, LocalTime
      <4> QED BY <4>1, <4>2, <4>3, <4>4, WindowAssumption DEF LocalTime
    <3> QED BY <3>2, <3>4, <3>5
  <2>3. CASE ~Allowed(t) /\ ~(t.hour < StartHour)
    <3>1. Clamp(t) = Opening(t.day + 1)
      BY <2>3 DEF Clamp
    <3>2. EndHour <= t.hour /\ u.hour < t.hour
      BY <1>1, <2>3, WindowAssumption DEF Allowed, LocalTime
    <3>3. t.day < u.day
      BY <1>1, <3>2, WindowAssumption DEF NotAfter, Before, LocalTime
    <3>4. Opening(t.day + 1).day = t.day + 1 /\ Opening(t.day + 1).hour = StartHour
          /\ Opening(t.day + 1).tick = 0
      BY DEF Opening
    <3>5. CASE t.day + 1 < u.day
      BY <3>1, <3>4, <3>5 DEF NotAfter, Before
    <3>6. CASE t.day + 1 = u.day
      <4>1. StartHour <= u.hour
        BY <1>1 DEF Allowed
      <4>2. CASE StartHour < u.hour
        BY <3>1, <3>4, <3>6, <4>2 DEF NotAfter, Before
      <4>3. CASE StartHour = u.hour /\ 0 < u.tick
        BY <3>1, <3>4, <3>6, <4>3 DEF NotAfter, Before
      <4>4. CASE StartHour = u.hour /\ u.tick = 0
        BY <3>1, <3>6, <4>4 DEF NotAfter, Opening, LocalTime
      <4> QED BY <4>1, <4>2, <4>3, <4>4, WindowAssumption DEF LocalTime
    <3> QED BY <3>3, <3>5, <3>6 DEF LocalTime
  <2> QED BY <2>1, <2>2, <2>3
<1> QED BY <1>1

(* A row scheduled for the time computed is not put off again when it is
   dialed at that time. *)
THEOREM ClampIdempotent == \A t \in LocalTime : Clamp(Clamp(t)) = Clamp(t)
<1>1. ASSUME NEW t \in LocalTime PROVE Clamp(Clamp(t)) = Clamp(t)
  <2>1. Allowed(Clamp(t))
    BY ClampAllowed
  <2> QED BY <2>1 DEF Clamp
<1> QED BY <1>1

-----------------------------------------------------------------------------
(* UTC and local time. *)

(* Division by a positive number. *)
LEMMA Division ==
  ASSUME NEW a \in Int, NEW b \in Nat \ {0}
  PROVE  /\ a \div b \in Int /\ a % b \in 0 .. b - 1
         /\ a = (a \div b) * b + (a % b)
BY Z3

LEMMA Scaling ==
  ASSUME NEW x \in Int, NEW b \in Nat \ {0}, x > 0
  PROVE  x * b \in Int /\ x * b >= b
BY Z3

LEMMA Distributes ==
  ASSUME NEW p \in Int, NEW q \in Int, NEW b \in Int
  PROVE  (p - q) * b = p * b - q * b /\ p * b \in Int /\ q * b \in Int
BY Z3

LEMMA UniqueDivision ==
  ASSUME NEW b \in Nat \ {0}, NEW q \in Int, NEW r \in 0 .. b - 1
  PROVE  (q * b + r) \div b = q /\ (q * b + r) % b = r
<1> DEFINE a == q * b + r  p == a \div b  s == a % b
<1>1. q * b \in Int /\ a \in Int
  BY Distributes
<1>2. p \in Int /\ s \in 0 .. b - 1 /\ a = p * b + s
  BY <1>1, Division
<1> HIDE DEF p, s
<1>3. p * b \in Int /\ p * b - q * b = r - s
  BY <1>1, <1>2
<1>4. ~(p - q > 0)
  <2>1. SUFFICES ASSUME p - q > 0 PROVE FALSE
    OBVIOUS
  <2>2. (p - q) * b >= b /\ (p - q) * b = p * b - q * b
    BY <1>2, <2>1, Scaling, Distributes
  <2> QED BY <1>1, <1>2, <1>3, <2>2
<1>5. ~(q - p > 0)
  <2>1. SUFFICES ASSUME q - p > 0 PROVE FALSE
    OBVIOUS
  <2>2. (q - p) * b >= b /\ (q - p) * b = q * b - p * b
    BY <1>2, <2>1, Scaling, Distributes
  <2> QED BY <1>1, <1>2, <1>3, <2>2
<1>6. p = q
  BY <1>2, <1>4, <1>5
<1>7. s = r
  BY <1>1, <1>2, <1>3, <1>6
<1> QED BY <1>6, <1>7 DEF p, s

LEMMA DayLength ==
  /\ TicksPerDay \in Nat \ {0} /\ TicksPerDay = HoursPerDay * TicksPerHour
  /\ HoursPerDay \in Nat \ {0} /\ TicksPerHour \in Nat \ {0} /\ Offset \in Int
BY WindowAssumption, Z3 DEF TicksPerDay

(* The ticks since midnight, by hour and tick. *)
LEMMA TickOfDay ==
  ASSUME NEW h \in 0 .. HoursPerDay - 1, NEW k \in 0 .. TicksPerHour - 1
  PROVE  /\ h * TicksPerHour \in Nat
         /\ h * TicksPerHour + k \in 0 .. TicksPerDay - 1
<1> DEFINE H == HoursPerDay  T == TicksPerHour
<1>1. H \in Nat /\ T \in Nat \ {0} /\ h \in Int /\ k \in Int /\ h >= 0 /\ h + 1 <= H
  BY DayLength
<1>2. h * T \in Nat
  BY <1>1, Z3
<1>3. H * T >= (h + 1) * T /\ (h + 1) * T = h * T + T
  BY <1>1, Z3
<1>4. TicksPerDay \in Int /\ TicksPerDay >= h * T + T
  BY <1>2, <1>3, DayLength
<1> HIDE DEF T
<1> QED BY <1>1, <1>2, <1>4 DEF T

LEMMA ToLocalType == \A u \in Int : ToLocal(u) \in LocalTime
<1> SUFFICES ASSUME NEW u \in Int PROVE ToLocal(u) \in LocalTime
  OBVIOUS
<1> DEFINE l == u + Offset  m == l % TicksPerDay  h == m \div TicksPerHour
           T == TicksPerHour
<1>1. l \in Int
  BY DayLength
<1>2. l \div TicksPerDay \in Int /\ m \in 0 .. TicksPerDay - 1
  BY <1>1, DayLength, Division
<1>3. l % T \in 0 .. T - 1
  BY <1>1, DayLength, Division
<1>4. h \in Int /\ m % T \in 0 .. T - 1 /\ m = h * T + (m % T)
  BY <1>2, DayLength, Division
<1>5. h >= 0 /\ h < HoursPerDay
  <2> DEFINE k == m % T
  <2>1. T \in Nat \ {0} /\ k \in Nat /\ k < T /\ h * T + k >= 0 /\ h * T + k < HoursPerDay * T
    BY <1>2, <1>4, DayLength
  <2> HIDE DEF k, h
  <2>2. h \in Int /\ HoursPerDay \in Nat
    BY <1>4, DayLength
  <2> HIDE DEF T
  <2>3. ASSUME h <= -1 PROVE FALSE
    <3>1. h * T <= -T
      BY <2>1, <2>2, <2>3, Z3
    <3> QED BY <2>1, <2>2, <3>1, Distributes
  <2>4. ASSUME h - HoursPerDay >= 0 PROVE FALSE
    <3>1. (h - HoursPerDay) * T >= 0
      BY <2>1, <2>2, <2>4, Z3
    <3> QED BY <2>1, <2>2, <3>1, Distributes
  <2> QED BY <2>2, <2>3, <2>4
<1>6. h \in 0 .. HoursPerDay - 1
  BY <1>4, <1>5, DayLength
<1> QED BY <1>2, <1>3, <1>6 DEF ToLocal, LocalTime

(* The local time of the UTC of a local time is that local time: there is no
   hour a day has twice or not at all. *)
LEMMA LocalOfUtc == \A t \in LocalTime : ToUtc(t) \in Int /\ ToLocal(ToUtc(t)) = t
<1> SUFFICES ASSUME NEW t \in LocalTime PROVE ToUtc(t) \in Int /\ ToLocal(ToUtc(t)) = t
  OBVIOUS
<1> DEFINE D == TicksPerDay  T == TicksPerHour  H == HoursPerDay
           m == t.hour * T + t.tick  l == ToUtc(t) + Offset
<1>1. t.day \in Int /\ t.hour \in 0 .. H - 1 /\ t.tick \in 0 .. T - 1
      /\ t = [day |-> t.day, hour |-> t.hour, tick |-> t.tick]
  BY DEF LocalTime
<1>2. t.hour * T \in Nat /\ m \in 0 .. D - 1
  BY <1>1, TickOfDay
<1>3. t.day * D \in Int
  BY <1>1, DayLength, Distributes
<1>4. ToUtc(t) \in Int /\ l = t.day * D + m
  BY <1>1, <1>2, <1>3, DayLength DEF ToUtc
<1>5. l \div D = t.day /\ l % D = m
  BY <1>1, <1>2, <1>4, DayLength, UniqueDivision
<1>6. m \div T = t.hour
  BY <1>1, DayLength, UniqueDivision
<1>7. l % T = t.tick
  <2>1. t.hour \in Int /\ H \in Int /\ T \in Int
    BY <1>1, DayLength
  <2>2. t.day * D = (t.day * H) * T /\ t.day * H \in Int
    BY <1>1, <2>1, DayLength, Z3
  <2>3. (t.day * H + t.hour) * T = (t.day * H) * T + t.hour * T
        /\ t.day * H + t.hour \in Int
    BY <2>1, <2>2, Z3
  <2>4. l = (t.day * H + t.hour) * T + t.tick
    BY <1>1, <1>2, <1>3, <1>4, <2>2, <2>3
  <2> QED BY <1>1, <2>3, <2>4, DayLength, UniqueDivision
<1>8. ToLocal(ToUtc(t)) = [day |-> l \div D, hour |-> (l % D) \div T, tick |-> l % T]
  BY DEF ToLocal
<1> HIDE DEF l, m
<1> QED BY <1>1, <1>4, <1>5, <1>6, <1>7, <1>8

LEMMA UtcOfLocal == \A u \in Int : ToUtc(ToLocal(u)) = u
<1> SUFFICES ASSUME NEW u \in Int PROVE ToUtc(ToLocal(u)) = u
  OBVIOUS
<1> DEFINE D == TicksPerDay  T == TicksPerHour  H == HoursPerDay
           l == u + Offset  q == l \div D  m == l % D  h == m \div T  k == m % T
<1>0. l \in Int
  BY DayLength
<1>1. l \in Int /\ q \in Int /\ m \in 0 .. D - 1 /\ l = q * D + m
  <2> HIDE DEF l
  <2> QED BY <1>0, DayLength, Division
<1>2. h \in Int /\ k \in 0 .. T - 1 /\ m = h * T + k
  <2>1. m \in Int /\ T \in Nat \ {0}
    BY <1>1, DayLength
  <2> HIDE DEF m
  <2> QED BY <2>1, Division
<1>3. ToLocal(u) = [day |-> q, hour |-> h, tick |-> l % T]
  BY DEF ToLocal
<1> HIDE DEF q, h, k
<1>4. q * D = (q * H) * T /\ q * H \in Int /\ H \in Int /\ T \in Int
  BY <1>1, DayLength, Z3
<1>5. (q * H + h) * T = (q * H) * T + h * T /\ q * H + h \in Int
  BY <1>2, <1>4, Z3
<1>6. (q * H) * T \in Int /\ h * T \in Int
  BY <1>2, <1>4, Z3
<1>7. l = (q * H + h) * T + k
  BY <1>1, <1>2, <1>4, <1>5, <1>6
<1>8. l % T = k
  BY <1>2, <1>5, <1>7, DayLength, UniqueDivision
<1>9. ToUtc(ToLocal(u)) = q * D + h * T + k - Offset
  BY <1>3, <1>8 DEF ToUtc
<1>10. q * D \in Int /\ k \in Int /\ Offset \in Int
  BY <1>1, <1>2, <1>4, <1>6, DayLength
<1>11. q * D + h * T + k = l
  BY <1>1, <1>2, <1>6, <1>10
<1> QED BY <1>6, <1>9, <1>10, <1>11

(* The order of local times is that of UTC. *)
LEMMA UtcMonotone == \A t, u \in LocalTime : NotAfter(t, u) => ToUtc(t) <= ToUtc(u)
<1> SUFFICES ASSUME NEW t \in LocalTime, NEW u \in LocalTime, Before(t, u)
             PROVE  ToUtc(t) <= ToUtc(u)
  BY LocalOfUtc DEF NotAfter
<1> DEFINE D == TicksPerDay  T == TicksPerHour
           m(x) == x.hour * T + x.tick
<1>1. \A x \in LocalTime : /\ x.day \in Int /\ x.hour \in 0 .. HoursPerDay - 1 /\ x.tick \in 0 .. T - 1
                           /\ x.hour * T \in Nat /\ m(x) \in 0 .. D - 1
                           /\ x.day * D \in Int
  <2> TAKE x \in LocalTime
  <2>1. x.day \in Int /\ x.hour \in 0 .. HoursPerDay - 1 /\ x.tick \in 0 .. T - 1
    BY DEF LocalTime
  <2> QED BY <2>1, TickOfDay, DayLength, Distributes
<1>2. \A x \in LocalTime : ToUtc(x) = x.day * D + m(x) - Offset
  BY <1>1, DayLength DEF ToUtc
<1>3. CASE t.day < u.day
  <2>1. (u.day - t.day) * D >= D /\ (u.day - t.day) * D = u.day * D - t.day * D
    BY <1>1, <1>3, DayLength, Scaling, Distributes
  <2> HIDE DEF m
  <2> QED BY <1>1, <1>2, <2>1, DayLength
<1>4. CASE t.day = u.day /\ t.hour < u.hour
  <2>1. u.hour - t.hour \in Int /\ u.hour \in Int /\ t.hour \in Int /\ u.hour - t.hour > 0
    BY <1>1, <1>4, DayLength
  <2>2. (u.hour - t.hour) * T >= T /\ (u.hour - t.hour) * T = u.hour * T - t.hour * T
    BY <2>1, DayLength, Scaling, Distributes
  <2>3. m(t) <= m(u)
    BY <1>1, <2>2, DayLength
  <2> HIDE DEF m
  <2> QED BY <1>1, <1>2, <1>4, <2>3, DayLength
<1>5. CASE t.day = u.day /\ t.hour = u.hour /\ t.tick < u.tick
  <2>1. m(t) <= m(u)
    BY <1>1, <1>5, DayLength
  <2> HIDE DEF m
  <2> QED BY <1>1, <1>2, <1>5, <2>1, DayLength
<1> QED BY <1>3, <1>4, <1>5 DEF Before

-----------------------------------------------------------------------------
(* The decision: a lead that said stop is left alone. *)

Stopped == snapshot.dnc \/ answer.outcome \in HardStop

Shaped == decision = [action |-> decision.action, at |-> decision.at, by |-> decision.by,
                   interest |-> decision.interest]

StopInv ==
  /\ Shaped
  /\ stage = "validating" /\ Stopped => proposal.action = "close_lead"
  /\ stage = "guessing" => ~Stopped
  /\ StopIsRespected

(* The first result of a sequence is taken whenever it is one. *)
LEMMA FirstMatches ==
  ASSUME NEW results, DOMAIN results \subseteq Nat \ {0}, 1 \in DOMAIN results,
         results[1] # {}
  PROVE  FirstOf(results) = results[1]
<1> DEFINE First(i) == results[i] # {} /\ \A j \in DOMAIN results : results[j] # {} => i <= j
<1>1. 1 \in DOMAIN results /\ First(1)
  OBVIOUS
<1>2. \A i \in DOMAIN results : First(i) => i = 1
  <2>1. ASSUME NEW i \in DOMAIN results, First(i) PROVE i <= 1 /\ 1 <= i /\ i \in Nat
    BY <2>1
  <2> QED BY <2>1
<1>3. (CHOOSE i \in DOMAIN results : First(i)) = 1
  <2>1. \E i \in DOMAIN results : First(i)
    BY <1>1
  <2>2. (CHOOSE i \in DOMAIN results : First(i)) \in DOMAIN results
        /\ First(CHOOSE i \in DOMAIN results : First(i))
    BY <2>1
  <2> QED BY <2>2, <1>2
<1> QED BY <1>1, <1>3 DEF FirstOf

(* The hard stops come before every other rule. *)
LEMMA StopsFirst ==
  ASSUME NEW c, c.class \in HardStop \/ c.dnc
  PROVE  Rules(c) = {[action |-> "close_lead", at |-> NoTime]}
<1> DEFINE results == <<HardStops(c), AttemptsSpent(c), CommitmentBased(c), CallbackRequested(c),
                        VoicemailRecontact(c), NoUsefulConversation(c), InterestOutcome(c)>>
<1>1. HardStops(c) = {[action |-> "close_lead", at |-> NoTime]}
  BY DEF HardStops, Result
<1>2. results[1] = HardStops(c) /\ DOMAIN results = 1 .. 7
  OBVIOUS
<1>3. FirstOf(results) = results[1]
  <2> HIDE DEF results
  <2>1. results[1] # {}
    BY <1>1, <1>2
  <2>2. 1 \in DOMAIN results /\ DOMAIN results \subseteq Nat \ {0}
    BY <1>2
  <2> QED BY <2>1, <2>2, FirstMatches
<1> QED BY <1>1, <1>2, <1>3 DEF Rules

LEMMA StopInvInitial == AnalysisInit => StopInv
BY DEF AnalysisInit, StopInv, StopIsRespected, Over, Shaped, NoFacts

LEMMA StopInvPreserved == StopInv /\ [AnalysisNext]_analysisVars => StopInv'
<1> SUFFICES ASSUME StopInv, [AnalysisNext]_analysisVars PROVE StopInv'
  OBVIOUS
<1> USE DEF StopInv, StopIsRespected, Over, Stopped, Shaped
<1>1. CASE Gather
  <2>1. stage' \notin {"validating", "guessing"}
    BY <1>1 DEF Gather
  <2>2. CASE stage' = "raised"
    BY <1>1, <2>1, <2>2 DEF Gather
  <2>3. CASE stage' # "raised"
    <3>1. PICK i : decision' = [NoFacts EXCEPT !.interest = i, !.action = "wait"]
      BY <1>1, <2>3 DEF Gather
    <3>2. decision' = [action |-> "wait", at |-> NoTime, by |-> "none", interest |-> i]
      BY <3>1 DEF NoFacts
    <3>3. stage' = "done" => ~snapshot.known /\ snapshot' = snapshot
      BY <1>1, <2>3 DEF Gather
    <3> QED BY <2>1, <3>2, <3>3
  <2> QED BY <2>2, <2>3
<1>2. CASE Decide
  <2>1. UNCHANGED <<snapshot, answer, decision>> /\ stage = "deciding"
    BY <1>2 DEF Decide
  <2>2. CASE Stopped
    <3>1. Context.dnc = snapshot.dnc
          /\ (answer.outcome \in HardStop => Context.class = answer.outcome)
      BY DEF Context, HardStop, Failed, Refused
    <3>2. Rules(Context) = {[action |-> "close_lead", at |-> NoTime]}
      BY <2>2, <3>1, StopsFirst
    <3>3. proposal' = [action |-> "close_lead", at |-> NoTime] /\ stage' = "validating"
      BY <1>2, <3>2 DEF Decide
    <3> QED BY <2>1, <3>3
  <2>3. CASE ~Stopped
    <3>1. stage' \in {"validating", "guessing"}
      BY <1>2 DEF Decide
    <3> QED BY <2>1, <2>3, <3>1
  <2> QED BY <2>2, <2>3
<1>3. CASE Validate \/ Guess
  <2>1. /\ UNCHANGED <<snapshot, answer, proposal>>
        /\ stage \in {"validating", "guessing"} /\ stage' \in {"done", "raised"}
    BY <1>3 DEF Validate, Guess, Conclude
  <2>2. CASE stage' = "raised"
    <3>1. UNCHANGED decision
      BY <1>3, <2>2 DEF Validate, Guess, Conclude
    <3> QED BY <2>1, <2>2, <3>1
  <2>3. CASE Validate /\ stage' = "done"
    <3>1. PICK action \in {proposal.action, "human_review"} :
            decision' = [decision EXCEPT !.action = action, !.at = proposal.at, !.by = "rules"]
      BY <2>3 DEF Validate, Conclude
    <3>2. decision' = [action |-> action, at |-> proposal.at, by |-> "rules",
                    interest |-> decision.interest]
      BY <3>1
    <3>3. stage = "validating"
      BY <2>3 DEF Validate
    <3> QED BY <2>1, <2>3, <3>2, <3>3
  <2>4. CASE Guess /\ stage' = "done"
    <3>1. PICK action, by : decision' = [decision EXCEPT !.action = action, !.at = NoTime, !.by = by]
      BY <2>4 DEF Guess, Conclude
    <3>2. decision' = [action |-> action, at |-> NoTime, by |-> by, interest |-> decision.interest]
      BY <3>1
    <3>3. stage = "guessing"
      BY <2>4 DEF Guess
    <3> QED BY <2>1, <2>4, <3>2, <3>3
  <2> QED BY <1>3, <2>1, <2>2, <2>3, <2>4
<1>4. CASE UNCHANGED analysisVars
  BY <1>4 DEF analysisVars
<1> QED BY <1>1, <1>2, <1>3, <1>4 DEF AnalysisNext

(* No client is recalled or written to after it asked to be left alone. *)
THEOREM StopRespected == AnalysisSpec => []StopIsRespected
<1>1. AnalysisInit => StopInv
  BY StopInvInitial
<1>2. StopInv /\ [AnalysisNext]_analysisVars => StopInv'
  BY StopInvPreserved
<1>3. StopInv => StopIsRespected
  BY DEF StopInv
<1> QED BY <1>1, <1>2, <1>3, PTL DEF AnalysisSpec

-----------------------------------------------------------------------------
(* The level an analysis stores lies between what the call showed and the
   earlier level, whichever way compute_general_score rounds a half: a rounded
   mean never passes either bound, and so never closes a lead both would keep. *)
THEOREM BlendBetween ==
  ASSUME NEW scores, scores # {}, Largest(scores) \in Nat, NEW previous \in Nat,
         NEW r \in Blend(scores, previous), NEW low \in Nat, NEW high \in Nat,
         low <= Largest(scores), low <= previous, Largest(scores) <= high, previous <= high
  PROVE  low <= r /\ r <= high
<1> DEFINE best == Largest(scores)  tenths == 7 * best + 3 * previous
<1>1. previous # None
  BY DEF None
<1>2. r \in {tenths \div 10, tenths \div 10 + 1} /\ 10 * r - tenths \in -5 .. 5
  BY <1>1 DEF Blend
<1> HIDE DEF best
<1>3. best \in Nat /\ low <= best /\ best <= high
  BY DEF best
<1>4. tenths \in Nat /\ r \in Int
  BY <1>2, <1>3
<1>5. 10 * low <= tenths /\ tenths <= 10 * high
  BY <1>3
<1>6. -5 <= 10 * r - tenths /\ 10 * r - tenths <= 5
  BY <1>2, <1>4
<1> HIDE DEF tenths
<1> QED BY <1>4, <1>5, <1>6

-----------------------------------------------------------------------------
(* The decision: what may be raised, closed and proposed. *)

(* A few natural numbers have a least one. *)
LEMMA LeastOfFew ==
  ASSUME NEW S \in SUBSET (1 .. 7), S # {}
  PROVE  \E i \in S : \A j \in S : i <= j
<1>1. \A i \in S : i \in {1, 2, 3, 4, 5, 6, 7}
  OBVIOUS
<1>2. CASE 1 \in S
  BY <1>1, <1>2
<1>3. CASE 1 \notin S /\ 2 \in S
  BY <1>1, <1>3
<1>4. CASE 1 \notin S /\ 2 \notin S /\ 3 \in S
  BY <1>1, <1>4
<1>5. CASE 1 \notin S /\ 2 \notin S /\ 3 \notin S /\ 4 \in S
  BY <1>1, <1>5
<1>6. CASE 1 \notin S /\ 2 \notin S /\ 3 \notin S /\ 4 \notin S /\ 5 \in S
  BY <1>1, <1>6
<1>7. CASE 1 \notin S /\ 2 \notin S /\ 3 \notin S /\ 4 \notin S /\ 5 \notin S
  <2>1. \A i \in S : i = 6 \/ i = 7
    BY <1>1, <1>7
  <2>2. CASE 6 \in S
    BY <2>1, <2>2
  <2>3. CASE 6 \notin S
    <3>1. \A i \in S : i = 7
      BY <2>1, <2>3
    <3>2. PICK i \in S : TRUE
      OBVIOUS
    <3> QED BY <3>1, <3>2
  <2> QED BY <2>2, <2>3
<1> QED BY <1>2, <1>3, <1>4, <1>5, <1>6, <1>7

(* What comes out of a short list of results is one of them, and something does
   when there is one. *)
LEMMA FirstIsOne ==
  ASSUME NEW results, DOMAIN results \subseteq 1 .. 7
  PROVE  /\ \A x \in FirstOf(results) : \E i \in DOMAIN results : x \in results[i]
         /\ (\E i \in DOMAIN results : results[i] # {}) => FirstOf(results) # {}
<1> DEFINE S == {i \in DOMAIN results : results[i] # {}}
           first == CHOOSE i \in DOMAIN results :
                      results[i] # {} /\ \A j \in DOMAIN results : results[j] # {} => i <= j
<1>1. CASE S = {}
  BY <1>1 DEF FirstOf
<1>2. CASE S # {}
  <2>1. S \in SUBSET (1 .. 7)
    OBVIOUS
  <2>2. PICK i \in S : \A j \in S : i <= j
    BY <1>2, <2>1, LeastOfFew
  <2>3. /\ i \in DOMAIN results
        /\ results[i] # {} /\ \A j \in DOMAIN results : results[j] # {} => i <= j
    BY <2>2
  <2>4. first \in DOMAIN results /\ results[first] # {}
    BY <2>3
  <2>5. FirstOf(results) = results[first]
    BY <2>3 DEF FirstOf
  <2> QED BY <2>4, <2>5
<1> QED BY <1>1, <1>2

LEMMA ResultIsOne ==
  ASSUME NEW action, NEW at
  PROVE  /\ Result(action, at) # {}
         /\ \A x \in Result(action, at) : x.action = action /\ x.at = at
<1>1. [action |-> action, at |-> at] \in Result(action, at)
  BY DEF Result
<1> QED BY <1>1 DEF Result

RuleSeq(c) ==
  <<HardStops(c), AttemptsSpent(c), CommitmentBased(c), CallbackRequested(c),
    VoicemailRecontact(c), NoUsefulConversation(c), InterestOutcome(c)>>

LEMMA RulesAreSeven ==
  ASSUME NEW c
  PROVE  /\ \A x \in Rules(c) :
              \/ x \in HardStops(c) \/ x \in AttemptsSpent(c) \/ x \in CommitmentBased(c)
              \/ x \in CallbackRequested(c) \/ x \in VoicemailRecontact(c)
              \/ x \in NoUsefulConversation(c) \/ x \in InterestOutcome(c)
         /\ NoUsefulConversation(c) # {} => Rules(c) # {}
<1> DEFINE r == RuleSeq(c)
<1>1. DOMAIN r = 1 .. 7
  BY DEF RuleSeq
<1>2. /\ r[1] = HardStops(c) /\ r[2] = AttemptsSpent(c) /\ r[3] = CommitmentBased(c)
      /\ r[4] = CallbackRequested(c) /\ r[5] = VoicemailRecontact(c)
      /\ r[6] = NoUsefulConversation(c) /\ r[7] = InterestOutcome(c)
  BY DEF RuleSeq
<1>3. Rules(c) = FirstOf(r)
  BY DEF Rules, RuleSeq
<1> HIDE DEF r
<1>4. \A x \in Rules(c) : \E i \in 1 .. 7 : x \in r[i]
  BY <1>1, <1>3, FirstIsOne
<1>5. \A i \in 1 .. 7 : i \in {1, 2, 3, 4, 5, 6, 7}
  OBVIOUS
<1>6. r[6] # {} => Rules(c) # {}
  BY <1>1, <1>3, FirstIsOne
<1> QED BY <1>2, <1>4, <1>5, <1>6

-----------------------------------------------------------------------------
LEMMA ListShape ==
  ASSUME NEW s \in Lists
  PROVE  Len(s) \in 0 .. 2 /\ DOMAIN s = 1 .. Len(s)
BY DEF Lists

AnswerFields(a) ==
  /\ a.axes \in {"ok", Failed, Refused} /\ a.commitments \in Lists
  /\ a.others \in {0, 3} /\ a.interests \in {"ok", Failed}

LEMMA AnswerShape == \A a \in Answers : AnswerFields(a)
<1> SUFFICES ASSUME NEW a \in Answers PROVE AnswerFields(a)
  OBVIOUS
<1>1. PICK x \in AxesAnswers, l \in InterestAnswers, n \in OtherAnswers :
        /\ a.axes = x.axes /\ a.commitments = x.commitments
        /\ a.others = n.others /\ a.interests = l.interests
  BY DEF Answers
<1>2. x.axes \in {"ok", Failed, Refused} /\ x.commitments \in Lists
  <2>1. <<>> \in Lists
    BY DEF Lists
  <2> QED BY <2>1 DEF AxesAnswers
<1>3. l.interests \in {"ok", Failed}
  BY DEF InterestAnswers
<1>4. n.others \in {0, 3}
  BY DEF OtherAnswers
<1> QED BY <1>1, <1>2, <1>3, <1>4 DEF AnswerFields

-----------------------------------------------------------------------------
(* When the analysis is raised. *)

LEMMA OutageMeansNothing ==
  ASSUME NEW a, AnswerFields(a), HasProducts
  PROVE  Outage(a) <=> {a.outcome, a.axes, a.interests} = {Failed} /\ a.others = 0
<1> DEFINE o == Count(a.outcome = Failed)  x == Count(a.axes = Failed)
           n == 3 - a.others  i == Count(HasProducts /\ a.interests = Failed)
<1>1. o \in {0, 1} /\ x \in {0, 1} /\ i \in {0, 1}
  BY DEF Count
<1>2. n \in {0, 3} /\ (n = 3 <=> a.others = 0)
  BY DEF AnswerFields
<1>3. (o = 1 <=> a.outcome = Failed) /\ (x = 1 <=> a.axes = Failed)
      /\ (i = 1 <=> a.interests = Failed)
  BY DEF Count
<1>4. Outage(a) <=> o + 2 * x + n + i >= 7
  BY DEF Outage, Failures
<1>5. {a.outcome, a.axes, a.interests} = {Failed}
        <=> a.outcome = Failed /\ a.axes = Failed /\ a.interests = Failed
  OBVIOUS
<1> HIDE DEF o, x, n, i
<1>6. o + 2 * x + n + i >= 7 <=> o = 1 /\ x = 1 /\ n = 3 /\ i = 1
  BY <1>1, <1>2
<1> QED BY <1>2, <1>3, <1>4, <1>5, <1>6

Gathered == stage # "asking" => AnswerFields(answer)

(* A call that was answered may still be raised, at the end, for a refusal. *)
CauseInv ==
  /\ Gathered
  /\ stage = "raised" => Outage(answer) \/ Refusal(answer)
  /\ stage \in {"deciding", "validating", "guessing"} => ~Outage(answer)
  /\ stage = "done" => ~Outage(answer) /\ ~Refusal(answer)

(* A step after the answers. *)
Unanswered ==
  /\ stage \in {"deciding", "validating", "guessing"}
  /\ \/ stage' \in {"validating", "guessing"}
     \/ stage' = "done" /\ ~Refusal(answer)
     \/ stage' = "raised" /\ Refusal(answer)
  /\ answer' = answer /\ snapshot' = snapshot

LEMMA StagesGoOn ==
  ASSUME [AnalysisNext]_analysisVars
  PROVE  UNCHANGED analysisVars \/ Gather \/ Unanswered
BY DEF AnalysisNext, Decide, Validate, Guess, Conclude, Unanswered

LEMMA GatheredPreserved ==
  ASSUME Gathered, [AnalysisNext]_analysisVars PROVE Gathered'
<1>1. CASE UNCHANGED analysisVars
  BY <1>1 DEF analysisVars, Gathered, AnswerFields
<1>2. CASE Gather
  <2>1. AnswerFields(answer')
    BY <1>2, AnswerShape DEF Gather
  <2>2. AnswerFields(answer)' = AnswerFields(answer')
    BY DEF AnswerFields
  <2> QED BY <2>1, <2>2 DEF Gathered
<1>3. CASE Unanswered
  BY <1>3 DEF Unanswered, Gathered, AnswerFields
<1> QED BY <1>1, <1>2, <1>3, StagesGoOn

(* A job's analysis fails, and is tried again, for an outage or a refusal and for
   nothing less, however many dimensions answer and in whatever way. *)
THEOREM OnlyCausesRaise == AnalysisSpec => []RaisedForCause
<1> USE DEF Gathered
<1>1. AnalysisInit => CauseInv
  BY DEF AnalysisInit, CauseInv
<1>2. CauseInv /\ [AnalysisNext]_analysisVars => CauseInv'
  <2> SUFFICES ASSUME CauseInv, [AnalysisNext]_analysisVars PROVE CauseInv'
    OBVIOUS
  <2>1. CASE UNCHANGED analysisVars
    BY <2>1 DEF analysisVars, CauseInv, AnswerFields, Outage, Failures, Refusal
  <2>2. CASE Gather
    <3>1. \/ stage' = "raised" /\ (Outage(answer') \/ Refusal(answer'))
          \/ stage' = "deciding" /\ ~Outage(answer')
          \/ stage' = "done" /\ ~Outage(answer') /\ ~Refusal(answer')
      BY <2>2 DEF Gather
    <3>2. Outage(answer)' = Outage(answer') /\ Refusal(answer)' = Refusal(answer')
      BY DEF Outage, Failures, Refusal
    <3> QED BY <3>1, <3>2, GatheredPreserved DEF CauseInv
  <2>3. CASE Unanswered
    <3>1. Outage(answer)' = Outage(answer) /\ Refusal(answer)' = Refusal(answer)
      BY <2>3 DEF Unanswered, Outage, Failures, Refusal
    <3> QED BY <2>3, <3>1, GatheredPreserved DEF Unanswered, CauseInv
  <2> QED BY <2>1, <2>2, <2>3, StagesGoOn
<1>3. CauseInv => RaisedForCause
  <2> SUFFICES ASSUME CauseInv, HasProducts, stage \in {"done", "raised"}
               PROVE  stage = "raised" <=>
                        \/ {answer.outcome, answer.axes, answer.interests} = {Failed}
                             /\ answer.others = 0
                        \/ Refusal(answer)
    BY DEF RaisedForCause
  <2>1. Outage(answer) <=> {answer.outcome, answer.axes, answer.interests} = {Failed}
                             /\ answer.others = 0
    BY OutageMeansNothing DEF CauseInv
  <2> QED BY <2>1 DEF CauseInv
<1> QED BY <1>1, <1>2, <1>3, PTL DEF AnalysisSpec

-----------------------------------------------------------------------------
(* A call that could not be read. *)

(* What closes a lead whatever was said. *)
MayClose == snapshot.dnc \/ snapshot.calls >= MaxAttempts \/ (CloseOnHard /\ answer.rejected)

UnreadInv ==
  /\ Gathered
  /\ decision = [action |-> decision.action, at |-> decision.at, by |-> decision.by,
                 interest |-> decision.interest]
  /\ answer.outcome = Failed /\ ~MayClose =>
       /\ stage = "validating" => proposal.action # "close_lead"
       /\ stage # "guessing"
       /\ stage = "done" => decision.action # "close_lead"

LEMMA CommitmentsAreFew ==
  ASSUME NEW c, c.commitments \in Lists
  PROVE  \A x \in CommitmentBased(c) :
           \E i \in 1 .. Len(c.commitments) : x \in Committed(c.commitments[i], c.now)
<1> DEFINE r == [i \in 1 .. Len(c.commitments) |-> Committed(c.commitments[i], c.now)]
<1>1. Len(c.commitments) \in 0 .. 2
  BY ListShape
<1>2. DOMAIN r \subseteq 1 .. 7
  <2>1. DOMAIN r = 1 .. Len(c.commitments)
    OBVIOUS
  <2>2. \A n \in 0 .. 2 : 1 .. n \subseteq 1 .. 7
    OBVIOUS
  <2> HIDE DEF r
  <2> QED BY <1>1, <2>1, <2>2, Zenon
<1>3. \A x \in FirstOf(r) : \E i \in DOMAIN r : x \in r[i]
  <2> HIDE DEF r
  <2> QED BY <1>2, FirstIsOne
<1> QED BY <1>3 DEF CommitmentBased

LEMMA CommittedNeverCloses ==
  ASSUME NEW k, NEW now, NEW x \in Committed(k, now)
  PROVE  x.action # "close_lead"
BY DEF Committed, Result

LEMMA UnreadRules ==
  ASSUME Gathered, stage # "asking", answer.outcome = Failed, ~MayClose
  PROVE  /\ Rules(Context) # {}
         /\ \A x \in Rules(Context) : x.action # "close_lead"
<1> DEFINE c == Context
<1>1. /\ c.class = "no_answer" /\ c.rejected = answer.rejected
      /\ c.calls = snapshot.calls /\ c.dnc = snapshot.dnc
      /\ c.commitments \in Lists
  BY DEF Context, Gathered, AnswerFields
<1> HIDE DEF c
<1>2. HardStops(c) = {} /\ AttemptsSpent(c) = {}
  BY <1>1 DEF MayClose, HardStops, AttemptsSpent, HardStop
<1>3. NoUsefulConversation(c) # {} /\ \A x \in NoUsefulConversation(c) : x.action = "retry_call"
  BY <1>1, ResultIsOne DEF NoUsefulConversation
<1>4. CallbackRequested(c) = {} /\ InterestOutcome(c) = {}
  BY <1>1 DEF CallbackRequested, InterestOutcome
<1>5. \A x \in VoicemailRecontact(c) : x.action = "retry_call"
  BY DEF VoicemailRecontact, Result
<1>6. \A x \in CommitmentBased(c) : x.action # "close_lead"
  BY <1>1, CommitmentsAreFew, CommittedNeverCloses
<1>7. Rules(c) # {} /\ \A x \in Rules(c) : x.action # "close_lead"
  BY <1>2, <1>3, <1>4, <1>5, <1>6, RulesAreSeven
<1> QED BY <1>7 DEF c

(* A lead is never closed on a call nobody could read. *)
THEOREM UnreadLeadsStayOpen == AnalysisSpec => []UnreadNeverCloses
<1>1. AnalysisInit => UnreadInv
  BY DEF AnalysisInit, UnreadInv, Gathered, NoFacts
<1>2. UnreadInv /\ [AnalysisNext]_analysisVars => UnreadInv'
  <2> SUFFICES ASSUME UnreadInv, [AnalysisNext]_analysisVars PROVE UnreadInv'
    OBVIOUS
  <2>0. Gathered'
    BY GatheredPreserved DEF UnreadInv
  <2>1. CASE Gather
    <3>1. stage' \in {"deciding", "done", "raised"}
      BY <2>1 DEF Gather
    <3>2. CASE stage' = "raised"
      BY <2>0, <2>1, <3>2 DEF UnreadInv, Gather
    <3>3. CASE stage' # "raised"
      <4>1. PICK i : decision' = [NoFacts EXCEPT !.interest = i, !.action = "wait"]
        BY <2>1, <3>3 DEF Gather
      <4>2. decision' = [action |-> "wait", at |-> NoTime, by |-> "none", interest |-> i]
        BY <4>1 DEF NoFacts
      <4> QED BY <2>0, <3>1, <4>2 DEF UnreadInv
    <3> QED BY <3>2, <3>3
  <2>2. CASE Decide
    <3>1. UNCHANGED <<snapshot, answer, decision>> /\ stage = "deciding"
      BY <2>2 DEF Decide
    <3>2. CASE answer.outcome = Failed /\ ~MayClose
      <4>1. proposal' \in Rules(Context) /\ stage' = "validating"
        BY <2>2, <3>1, <3>2, UnreadRules DEF Decide, UnreadInv
      <4>2. proposal'.action # "close_lead"
        BY <3>1, <3>2, <4>1, UnreadRules DEF UnreadInv
      <4> QED BY <2>0, <3>1, <4>1, <4>2 DEF UnreadInv, MayClose
    <3>3. CASE ~(answer.outcome = Failed /\ ~MayClose)
      BY <2>0, <3>1, <3>3 DEF UnreadInv, MayClose
    <3> QED BY <3>2, <3>3
  <2>3. CASE Validate \/ Guess
    <3>1. /\ UNCHANGED <<snapshot, answer, proposal>>
          /\ stage \in {"validating", "guessing"} /\ stage' \in {"done", "raised"}
      BY <2>3 DEF Validate, Guess, Conclude
    <3>2. CASE stage' = "raised"
      <4>1. UNCHANGED decision
        BY <2>3, <3>2 DEF Validate, Guess, Conclude
      <4> QED BY <2>0, <3>1, <3>2, <4>1 DEF UnreadInv, MayClose
    <3>3. CASE Validate /\ stage' = "done"
      <4>1. PICK action \in {proposal.action, "human_review"} :
              decision' = [decision EXCEPT !.action = action, !.at = proposal.at, !.by = "rules"]
        BY <3>3 DEF Validate, Conclude
      <4>2. decision' = [action |-> action, at |-> proposal.at, by |-> "rules",
                         interest |-> decision.interest]
        BY <4>1 DEF UnreadInv
      <4>3. stage = "validating"
        BY <3>3 DEF Validate
      <4> QED BY <2>0, <3>1, <3>3, <4>2, <4>3 DEF UnreadInv, MayClose
    <3>4. CASE Guess /\ stage' = "done"
      <4>1. PICK action, by : decision' = [decision EXCEPT !.action = action, !.at = NoTime, !.by = by]
        BY <3>4 DEF Guess, Conclude
      <4>2. decision' = [action |-> action, at |-> NoTime, by |-> by,
                         interest |-> decision.interest]
        BY <4>1 DEF UnreadInv
      <4>3. stage = "guessing"
        BY <3>4 DEF Guess
      <4> QED BY <2>0, <3>1, <3>4, <4>2, <4>3 DEF UnreadInv, MayClose
    <3> QED BY <2>3, <3>1, <3>2, <3>3, <3>4
  <2>4. CASE UNCHANGED analysisVars
    BY <2>0, <2>4 DEF UnreadInv, MayClose, analysisVars
  <2> QED BY <2>1, <2>2, <2>3, <2>4 DEF AnalysisNext
<1>3. UnreadInv => UnreadNeverCloses
  BY DEF UnreadInv, UnreadNeverCloses, MayClose, Over
<1> QED BY <1>1, <1>2, <1>3, PTL DEF AnalysisSpec

-----------------------------------------------------------------------------
(* The times of the rules. *)

(* A time computed from `now` and the commitments that were made. *)
TodayPromised(s) ==
  \E i \in 1 .. Len(s) : s[i].type = "callback" /\ s[i].due = "today"

Callable(at, now, s) ==
  /\ MayDialAt(at)
  /\ \/ at >= now
     \/ ToLocal(at).day = ToLocal(now).day /\ TodayPromised(s)

(* The UTC of a local time inside the window is one the dialer keeps. *)
LEMMA AllowedIsKept ==
  ASSUME NEW t \in LocalTime, Allowed(t) PROVE MayDialAt(ToUtc(t)) /\ ToUtc(t) \in Int
<1>1. ToUtc(t) \in Int /\ ToLocal(ToUtc(t)) = t
  BY LocalOfUtc
<1>2. ToUtc(t) + 0 = ToUtc(t)
  BY <1>1
<1> QED BY <1>1, <1>2 DEF MayDialAt, ScheduledAt, Clamp

LEMMA ScheduledIsCallable ==
  ASSUME NEW now \in Int
  PROVE  MayDialAt(ScheduledAt(now, Cooldown)) /\ ScheduledAt(now, Cooldown) >= now
<1> DEFINE t == ToLocal(now + Cooldown)
<1>1. Cooldown \in Nat /\ now + Cooldown \in Int
  BY AnalysisAssumption
<1>2. t \in LocalTime /\ ToUtc(t) = now + Cooldown
  BY <1>1, ToLocalType, UtcOfLocal
<1>3. Clamp(t) \in LocalTime /\ Allowed(Clamp(t)) /\ NotAfter(t, Clamp(t))
  BY <1>2, ClampAllowed, ClampNotBefore
<1>4. ScheduledAt(now, Cooldown) = ToUtc(Clamp(t))
  BY DEF ScheduledAt
<1> HIDE DEF t
<1>5. ToUtc(t) <= ToUtc(Clamp(t)) /\ ToUtc(Clamp(t)) \in Int
  BY <1>2, <1>3, UtcMonotone, LocalOfUtc
<1>6. MayDialAt(ToUtc(Clamp(t)))
  BY <1>3, AllowedIsKept
<1> QED BY <1>1, <1>2, <1>4, <1>5, <1>6

LEMMA OpeningsAreKept ==
  ASSUME NEW now \in Int, NEW n \in Nat
  PROVE  LET day == ToLocal(now).day
             at  == ToUtc(Opening(day + n))
         IN  MayDialAt(at) /\ (n > 0 => at >= now) /\ ToLocal(at).day = day + n
<1> DEFINE t == ToLocal(now)  o == Opening(t.day + n)
<1>1. t \in LocalTime /\ ToUtc(t) = now /\ t.day \in Int
  BY ToLocalType, UtcOfLocal DEF LocalTime
<1> HIDE DEF t
<1>2. o \in LocalTime /\ Allowed(o) /\ o.day = t.day + n
  BY <1>1, WindowAssumption DEF Opening, LocalTime, Allowed
<1> HIDE DEF o
<1>3. n > 0 => NotAfter(t, o)
  BY <1>1, <1>2 DEF NotAfter, Before
<1>4. MayDialAt(ToUtc(o)) /\ ToLocal(ToUtc(o)) = o /\ ToUtc(o) \in Int
  BY <1>2, AllowedIsKept, LocalOfUtc
<1>5. n > 0 => ToUtc(o) >= now
  BY <1>1, <1>2, <1>3, <1>4, UtcMonotone
<1>6. MayDialAt(ToUtc(o)) /\ (n > 0 => ToUtc(o) >= now) /\ ToLocal(ToUtc(o)).day = t.day + n
  BY <1>2, <1>4, <1>5
<1> QED BY <1>6 DEF o, t

LEMMA DueIsCallable ==
  ASSUME NEW now \in Int, NEW s, NEW due, due = "today" => TodayPromised(s)
  PROVE  Callable(DueAt(due, now), now, s)
<1> DEFINE day == ToLocal(now).day
<1>1. day \in Int
  BY ToLocalType DEF LocalTime
<1>2. CASE due = "today"
  <2>1. DueAt(due, now) = ToUtc(Opening(day + 0))
    BY <1>1, <1>2 DEF DueAt
  <2>2. day + 0 = day
    BY <1>1
  <2> QED BY <1>2, <2>1, <2>2, OpeningsAreKept DEF Callable
<1>3. CASE due = "tomorrow"
  <2>1. DueAt(due, now) = ToUtc(Opening(day + 1))
    BY <1>3 DEF DueAt
  <2> QED BY <2>1, OpeningsAreKept DEF Callable
<1>4. CASE due = "this_week"
  <2>1. DueAt(due, now) = ToUtc(Opening(day + 2))
    BY <1>4 DEF DueAt
  <2> QED BY <2>1, OpeningsAreKept DEF Callable
<1>5. CASE due \notin {"today", "tomorrow", "this_week"}
  <2>1. DueAt(due, now) = ScheduledAt(now, Cooldown)
    BY <1>5 DEF DueAt
  <2> QED BY <2>1, ScheduledIsCallable DEF Callable
<1> QED BY <1>2, <1>3, <1>4, <1>5

LEMMA RuleTimes ==
  ASSUME NEW c, c.now \in Int, c.commitments \in Lists, NEW x \in Rules(c)
  PROVE  x.at = NoTime \/ Callable(x.at, c.now, c.commitments)
<1> DEFINE s == c.commitments  now == c.now
<1>0. Len(s) \in 0 .. 2 /\ DOMAIN s = 1 .. Len(s)
  BY ListShape
<1>1. CASE x \in HardStops(c) \/ x \in AttemptsSpent(c) \/ x \in InterestOutcome(c)
  BY <1>1, ResultIsOne DEF HardStops, AttemptsSpent, InterestOutcome
<1>2. CASE x \in VoicemailRecontact(c) \/ x \in NoUsefulConversation(c)
  <2>1. x.at = ScheduledAt(now, Cooldown)
    BY <1>2, ResultIsOne DEF VoicemailRecontact, NoUsefulConversation
  <2> QED BY <2>1, ScheduledIsCallable DEF Callable
<1>3. CASE x \in CommitmentBased(c)
  <2>1. PICK i \in 1 .. Len(s) : x \in Committed(s[i], now)
    BY <1>3, CommitmentsAreFew
  <2>2. CASE s[i].type = "callback" /\ Firm(s[i]) /\ s[i].owner \in {"lead", "both"}
    <3>1. x.at = DueAt(s[i].due, now)
      BY <2>1, <2>2, ResultIsOne DEF Committed
    <3>2. s[i].due = "today" => TodayPromised(s)
      BY <2>2 DEF TodayPromised
    <3> QED BY <3>1, <3>2, DueIsCallable
  <2>3. CASE ~(s[i].type = "callback" /\ Firm(s[i]) /\ s[i].owner \in {"lead", "both"})
    <3>1. \/ x \in Result("follow_up", NoTime)
      BY <2>1, <2>3 DEF Committed
    <3> QED BY <3>1, ResultIsOne
  <2> QED BY <2>2, <2>3
<1>4. CASE x \in CallbackRequested(c)
  <2> DEFINE Callback(i) == s[i].type = "callback"
             S == {i \in DOMAIN s : Callback(i)}
             first == CHOOSE i \in DOMAIN s : Callback(i) /\ \A j \in DOMAIN s : Callback(j) => i <= j
  <2>1. CASE S = {}
    <3>1. x.at = DueAt("unknown", now)
      BY <1>4, <2>1, ResultIsOne DEF CallbackRequested
    <3> QED BY <3>1, DueIsCallable
  <2>2. CASE S # {}
    <3>1. S \in SUBSET (1 .. 7)
      BY <1>0
    <3>2. PICK i \in S : \A j \in S : i <= j
      BY <2>2, <3>1, LeastOfFew
    <3>3. first \in DOMAIN s /\ Callback(first)
      BY <3>2
    <3>4. x.at = DueAt(s[first].due, now)
      BY <1>4, <2>2, ResultIsOne DEF CallbackRequested
    <3>5. s[first].due = "today" => TodayPromised(s)
      BY <1>0, <3>3 DEF TodayPromised
    <3> HIDE DEF first
    <3> QED BY <3>4, <3>5, DueIsCallable
  <2> QED BY <2>1, <2>2
<1> QED BY <1>1, <1>2, <1>3, <1>4, RulesAreSeven

TimesInv ==
  /\ Gathered
  /\ snapshot.now \in Clocks
  /\ stage = "asking" => proposal.at = NoTime
  /\ TimesAreCallable

(* Whatever the model promised, no time is proposed at which the dialer would
   put the call off, nor one gone by, but for a callback promised for today. *)
THEOREM ProposedTimesHold == AnalysisSpec => []TimesAreCallable
<1>1. AnalysisInit => TimesInv
  <2>1. \A l \in Leads : l.now \in Clocks
    BY DEF Leads
  <2> QED BY <2>1 DEF AnalysisInit, TimesInv, Gathered, TimesAreCallable, NoProposal
<1>2. TimesInv /\ [AnalysisNext]_analysisVars => TimesInv'
  <2> SUFFICES ASSUME TimesInv, [AnalysisNext]_analysisVars PROVE TimesInv'
    OBVIOUS
  <2>0. Gathered'
    BY GatheredPreserved DEF TimesInv
  <2>1. CASE Decide
    <3>1. UNCHANGED <<snapshot, answer>> /\ stage = "deciding" /\ stage' # "asking"
      BY <2>1 DEF Decide
    <3>2. CASE UNCHANGED proposal
      BY <2>0, <3>1, <3>2 DEF TimesInv, TimesAreCallable, MayDialAt
    <3>3. CASE proposal' \in Rules(Context)
      <4>1. Context.now = snapshot.now /\ Context.commitments = answer.commitments
            /\ snapshot.now \in Int /\ answer.commitments \in Lists
        BY <3>1, AnalysisAssumption DEF Context, TimesInv, Gathered, AnswerFields
      <4>2. proposal'.at = NoTime \/ Callable(proposal'.at, snapshot.now, answer.commitments)
        BY <3>3, <4>1, RuleTimes
      <4> QED BY <2>0, <3>1, <4>2 DEF TimesInv, TimesAreCallable, Callable, TodayPromised
    <3> QED BY <2>1, <3>2, <3>3 DEF Decide
  <2>2. CASE Gather
    <3>1. stage = "asking" /\ proposal' = proposal /\ snapshot' = snapshot
      BY <2>2 DEF Gather
    <3> QED BY <2>0, <3>1 DEF TimesInv, TimesAreCallable
  <2>3. CASE Validate \/ Guess
    <3>1. UNCHANGED <<snapshot, answer, proposal>> /\ stage' # "asking"
      BY <2>3 DEF Validate, Guess, Conclude
    <3> QED BY <2>0, <3>1 DEF TimesInv, TimesAreCallable, MayDialAt
  <2>4. CASE UNCHANGED analysisVars
    BY <2>0, <2>4 DEF TimesInv, TimesAreCallable, MayDialAt, analysisVars
  <2> QED BY <2>1, <2>2, <2>3, <2>4 DEF AnalysisNext
<1>3. TimesInv => TimesAreCallable
  BY DEF TimesInv
<1> QED BY <1>1, <1>2, <1>3, PTL DEF AnalysisSpec

-----------------------------------------------------------------------------
(* The parts of the inductive invariant, each about one call.  A job runs exactly
   while its runner is at work. *)
RunOf(c) ==
  /\ (run[JobOf(c)].pc # "idle") <=> (job[c] = "running")
  /\ run[Operator(c)].pc \in {"idle", "asking", "written"}
  /\ run[Operator(c)].pc # "idle" => c \in reruns
  /\ call[c] # "completed" => job[c] = "absent"
  /\ c \in waiting => job[c] = "failed"

(* A job that may still be picked up has an attempt left, but for stops. *)
AttemptsOf(c) ==
  /\ attempts[c] <= MaxRuns + faults
  /\ job[c] \in {"absent", "pending"} \/ c \in waiting => attempts[c] < MaxRuns + faults
  /\ cut[c] <= faults

WholeOf(c) ==
  /\ analysis[c] = "ok" => written[c] > 0
  /\ written[c] > 0 => analysis[c] # "none"

(* What a run past its writes has behind it. *)
DoneOf(c) ==
  /\ Wrote(JobOf(c)) => written[c] > 0
  /\ run[JobOf(c)].pc = "handed" => crm[c] # "none" \/ c \in lost
  /\ job[c] = "completed" /\ c \notin skipped => written[c] > 0 /\ (crm[c] # "none" \/ c \in lost)

(* The write of the job that no stop has cut short, and the operator's. *)
ByJob(c) == IF Wrote(JobOf(c)) \/ job[c] = "completed" THEN 1 ELSE 0
ByOperator(c) == IF c \in reruns /\ run[Operator(c)].pc # "asking" THEN 1 ELSE 0

CountOf(c) == written[c] <= ByJob(c) + cut[c] + ByOperator(c)

CallInv(c) == RunOf(c) /\ AttemptsOf(c) /\ WholeOf(c) /\ DoneOf(c) /\ CountOf(c)

PostCallInv == TypeOK /\ \A c \in Calls : CallInv(c)

LEMMA RunnerShape ==
  /\ \A c \in Calls : /\ JobOf(c) \in Runners /\ JobOf(c)[1] = c /\ JobOf(c)[2] = "job"
                      /\ Operator(c) \in Runners /\ Operator(c)[1] = c
                      /\ Operator(c)[2] = "operator"
  /\ \A r \in Runners : /\ r[1] \in Calls
                        /\ \/ r = JobOf(r[1]) /\ r[2] = "job"
                           \/ r = Operator(r[1]) /\ r[2] = "operator"
  /\ \A c, d \in Calls : JobOf(c) # Operator(d) /\ (c # d => JobOf(c) # JobOf(d) /\ Operator(c) # Operator(d))
<1>1. \A c \in Calls : /\ JobOf(c) \in Runners /\ JobOf(c)[1] = c /\ JobOf(c)[2] = "job"
                       /\ Operator(c) \in Runners /\ Operator(c)[1] = c
                       /\ Operator(c)[2] = "operator"
  BY DEF Runners, JobOf, Operator
<1>2. ASSUME NEW r \in Runners
      PROVE  /\ r[1] \in Calls
             /\ \/ r = JobOf(r[1]) /\ r[2] = "job"
                \/ r = Operator(r[1]) /\ r[2] = "operator"
  <2>1. PICK c \in Calls, who \in {"job", "operator"} : r = <<c, who>>
    BY DEF Runners
  <2>2. r[1] = c /\ r[2] = who
    BY <2>1
  <2> QED BY <2>1, <2>2 DEF JobOf, Operator
<1>3. \A c, d \in Calls : /\ JobOf(c) # Operator(d)
                         /\ c # d => JobOf(c) # JobOf(d) /\ Operator(c) # Operator(d)
  BY <1>1
<1> QED BY <1>1, <1>2, <1>3

RunRecord == [pc : {"idle", "asking", "raised", "written", "handed"}, dnc : BOOLEAN, keys : SUBSET Keys]

LEMMA GotoShape ==
  ASSUME TypeOK, NEW r \in Runners, NEW pc \in {"asking", "raised", "written", "handed"}, Goto(r, pc)
  PROVE  /\ run' \in [Runners -> RunRecord]
         /\ run'[r].pc = pc
         /\ \A q \in Runners \ {r} : run'[q] = run[q]
<1>1. run \in [Runners -> RunRecord]
  BY DEF TypeOK, RunRecord
<1>2. run[r] \in RunRecord /\ [run[r] EXCEPT !.pc = pc] \in RunRecord
  BY <1>1 DEF RunRecord
<1>3. run' = [run EXCEPT ![r] = [run[r] EXCEPT !.pc = pc]]
  BY <1>1 DEF Goto
<1>4. [run[r] EXCEPT !.pc = pc].pc = pc
  BY <1>2 DEF RunRecord
<1> QED BY <1>1, <1>2, <1>3, <1>4

LEMMA EndRunShape ==
  ASSUME TypeOK, NEW r \in Runners, EndRun(r)
  PROVE  /\ run' \in [Runners -> RunRecord]
         /\ run'[r].pc = "idle"
         /\ \A q \in Runners \ {r} : run'[q] = run[q]
<1>1. run \in [Runners -> RunRecord]
  BY DEF TypeOK, RunRecord
<1>2. Idle \in RunRecord /\ Idle.pc = "idle"
  BY DEF RunRecord, Idle
<1> QED BY <1>1, <1>2 DEF EndRun

LEMMA SnapshotType ==
  ASSUME TypeOK PROVE Snapshot \in RunRecord /\ Snapshot.pc = "asking"
<1>1. lead.dnc \in BOOLEAN
  BY DEF TypeOK
<1> QED BY <1>1 DEF Snapshot, RunRecord

(* What becomes of a run whose model call or write failed. *)
LEMMA RaiseShape ==
  ASSUME TypeOK, NEW r \in Runners, Raise(r)
  PROVE  /\ run' \in [Runners -> RunRecord]
         /\ run'[r].pc = IF r[2] = "job" THEN "raised" ELSE "idle"
         /\ \A q \in Runners \ {r} : run'[q] = run[q]
BY GotoShape, EndRunShape DEF Raise

LEMMA HandedShape ==
  ASSUME TypeOK, NEW r \in Runners, IF r[2] = "job" THEN Goto(r, "handed") ELSE EndRun(r)
  PROVE  /\ run' \in [Runners -> RunRecord]
         /\ run'[r].pc = IF r[2] = "job" THEN "handed" ELSE "idle"
         /\ \A q \in Runners \ {r} : run'[q] = run[q]
BY GotoShape, EndRunShape

LEMMA PostCallSteps ==
  ASSUME Next
  PROVE  \/ \E c \in Calls : \/ CallByHand(c) \/ Dial(c) \/ CallEnds(c) \/ LateTurn(c)
                            \/ Ask(c) \/ SaveCompleted(c) \/ SaveFailed(c) \/ Reanalyze(c)
                            \/ Push(c)
         \/ \E r \in Runners : GptFails(r) \/ Write(r) \/ Hand(r) \/ HandFails(r)
         \/ CancelDial \/ Stop
BY RunnerShape DEF Next, JobSteps, OperatorSteps

-----------------------------------------------------------------------------
(* The writes of the savepoint. *)

LEMMA StatusType ==
  ASSUME NEW status \in {"new", "called", "follow_up", "quoted", "not_interested"},
         NEW result, NEW ready
  PROVE  StatusAfter(status, result, ready) \in {"new", "called", "follow_up", "quoted", "not_interested"}
BY DEF StatusAfter

LEMMA LeadAfterType ==
  ASSUME TypeOK, NEW a, NEW class
  PROVE  LeadAfter(a, class) \in [status : {"new", "called", "follow_up", "quoted", "not_interested"},
                                 dnc : BOOLEAN]
         /\ LeadAfter(a, class).dnc = (lead.dnc \/ a = "close_lead" \/ class = "do_not_contact")
<1>1. lead.status \in {"new", "called", "follow_up", "quoted", "not_interested"}
  BY DEF TypeOK
<1> QED BY <1>1, StatusType DEF LeadAfter, TypeOK

LEMMA FactsType ==
  ASSUME TypeOK, NEW keys \in SUBSET Keys, NEW op \in ProfileOps(keys)
  PROVE  FactsAfter(op) \in [Keys -> 0 .. 2]
<1>1. \A f \in [Keys -> 0 .. 2], k \in Keys :
        Add(f, k) \in [Keys -> 0 .. 2] /\ Drop(f, k) \in [Keys -> 0 .. 2]
  BY DEF Add, Drop
<1>2. facts \in [Keys -> 0 .. 2]
  BY DEF TypeOK
<1>3. CASE op.op = "none"
  BY <1>2, <1>3 DEF FactsAfter
<1>4. CASE op.op = "add"
  <2>1. op.key \in Keys
    BY <1>4 DEF ProfileOps
  <2> QED BY <1>1, <1>2, <1>4, <2>1 DEF FactsAfter
<1>5. CASE op.op = "remove"
  <2>1. op.target \in Keys
    BY <1>5 DEF ProfileOps
  <2> QED BY <1>1, <1>2, <1>5, <2>1 DEF FactsAfter
<1>6. CASE op.op = "update"
  <2>1. op.target \in Keys /\ op.key \in Keys
    BY <1>6 DEF ProfileOps
  <2> QED BY <1>1, <1>2, <1>6, <2>1 DEF FactsAfter
<1> QED BY <1>3, <1>4, <1>5, <1>6 DEF ProfileOps

(* A run that writes either puts everything down or ends as if it had not run. *)
LEMMA WriteShape ==
  ASSUME TypeOK, NEW r \in Runners, Write(r)
  PROVE  /\ run[r].pc = "asking"
         /\ UNCHANGED <<callVars, jobVars, crmVars, skipped, boundVars>>
         /\ \/ /\ Raise(r) /\ UNCHANGED <<leadVars, written>>
            \/ /\ \E a, class : lead' = LeadAfter(a, class) /\ ScheduleRecontact(r, a, lead')
               /\ facts' \in [Keys -> 0 .. 2]
               /\ written' = [written EXCEPT ![r[1]] = @ + 1]
               /\ analysis' = [analysis EXCEPT ![r[1]] = "ok"]
               /\ Goto(r, "written")
<1>1. run[r].keys \in SUBSET Keys
  BY DEF TypeOK
<1>2. PICK a \in Actions, class \in Classes, op \in ProfileOps(run[r].keys) :
        IF Ambiguous(op) THEN Undo(r) ELSE Persist(r, a, class, op)
  BY DEF Write
<1>3. CASE Ambiguous(op)
  BY <1>2, <1>3 DEF Write, Undo
<1>4. CASE ~Ambiguous(op)
  <2>1. facts' \in [Keys -> 0 .. 2]
    BY <1>1, <1>2, <1>4, FactsType DEF Persist
  <2> QED BY <1>2, <1>4, <2>1 DEF Write, Persist, AppendHistory, MarkOk
<1> QED BY <1>3, <1>4

-----------------------------------------------------------------------------
LEMMA TypeInitial == Init => TypeOK
BY PostCallAssumption DEF Init, TypeOK, Runners, Idle

LEMMA RetryType ==
  ASSUME TypeOK, NEW r, NEW a, NEW merged, ScheduleRecontact(r, a, merged)
  PROVE  retry' \in {"none", "pending", "in_progress"} /\ made' \in 0 .. MaxRetries
BY PostCallAssumption DEF TypeOK, ScheduleRecontact, Eligible

LEMMA TypePreserved == PostCallInv /\ [Next]_vars => TypeOK'
<1> SUFFICES ASSUME TypeOK, \A c \in Calls : CallInv(c), [Next]_vars PROVE TypeOK'
  BY DEF PostCallInv
<1> USE DEF callVars, leadVars, jobVars, crmVars, boundVars
<1>1. ASSUME NEW c \in Calls, CallByHand(c) \/ Dial(c) PROVE TypeOK'
  <2>1. call' \in [Calls -> {"none", "live", "completed"}]
    BY <1>1 DEF TypeOK, CallByHand, Dial, Answer
  <2>2. lead' \in [status : {"new", "called", "follow_up", "quoted", "not_interested"}, dnc : BOOLEAN]
    BY <1>1 DEF TypeOK, CallByHand, Dial, Answer
  <2>3. retry' \in {"none", "pending", "in_progress"}
    BY <1>1 DEF TypeOK, CallByHand, Dial
  <2>4. UNCHANGED <<turns, analysis, facts, made, jobVars, run, crmVars, written, skipped, boundVars>>
    BY <1>1 DEF CallByHand, Dial
  <2> QED BY <2>1, <2>2, <2>3, <2>4 DEF TypeOK
<1>2. ASSUME NEW c \in Calls, CallEnds(c) \/ LateTurn(c) PROVE TypeOK'
  <2>1. CASE CallEnds(c)
    <3>1. call' \in [Calls -> {"none", "live", "completed"}] /\ turns' \in [Calls -> {"none", "late", "saved"}]
      BY <2>1 DEF TypeOK, CallEnds
    <3>2. retry' \in {"none", "pending", "in_progress"}
          /\ job' \in [Calls -> {"absent", "pending", "running", "failed", "completed", "dead"}]
      BY <2>1 DEF TypeOK, CallEnds
    <3> QED BY <2>1, <3>1, <3>2 DEF TypeOK, CallEnds
  <2>2. CASE LateTurn(c)
    BY <2>2 DEF TypeOK, LateTurn
  <2> QED BY <1>2, <2>1, <2>2
<1>3. ASSUME NEW c \in Calls, Ask(c) PROVE TypeOK'
  <2>1. attempts' \in [Calls -> 0 .. MaxRuns + MaxFaults]
    <3>1. attempts[c] < MaxRuns + faults
      BY <1>3 DEF Ask, Runnable, CallInv, RunOf, AttemptsOf
    <3> QED BY <1>3, <3>1, PostCallAssumption DEF Ask, TypeOK
  <2>2. run' \in [Runners -> RunRecord]
    <3>1. run \in [Runners -> RunRecord] /\ JobOf(c) \in Runners
      BY RunnerShape DEF TypeOK, RunRecord
    <3> QED BY <1>3, <3>1, SnapshotType DEF Ask
  <2>3. job' \in [Calls -> {"absent", "pending", "running", "failed", "completed", "dead"}]
        /\ skipped' \subseteq Calls /\ waiting' \subseteq Calls
    BY <1>3 DEF Ask, TypeOK
  <2> QED BY <1>3, <2>1, <2>2, <2>3 DEF TypeOK, Ask, RunRecord
<1>4. ASSUME NEW c \in Calls, Reanalyze(c) PROVE TypeOK'
  <2>1. run' \in [Runners -> RunRecord]
    <3>1. run \in [Runners -> RunRecord] /\ Operator(c) \in Runners
      BY RunnerShape DEF TypeOK, RunRecord
    <3> QED BY <1>4, <3>1, SnapshotType DEF Reanalyze
  <2>2. reruns' \subseteq Calls
    BY <1>4 DEF Reanalyze, TypeOK
  <2> QED BY <1>4, <2>1, <2>2 DEF TypeOK, Reanalyze, RunRecord
<1>5. ASSUME NEW r \in Runners, GptFails(r) PROVE TypeOK'
  <2>1. run' \in [Runners -> RunRecord]
    BY <1>5, RaiseShape DEF GptFails
  <2>2. analysis' \in [Calls -> {"none", "failed", "ok"}]
    BY <1>5, RunnerShape DEF GptFails, MarkFailed, TypeOK
  <2>3. faults' \in 0 .. MaxFaults
    BY <1>5, PostCallAssumption DEF GptFails, Fault, TypeOK
  <2> QED BY <1>5, <2>1, <2>2, <2>3 DEF TypeOK, GptFails, RunRecord
<1>6. ASSUME NEW r \in Runners, Write(r) PROVE TypeOK'
  <2>1. UNCHANGED <<callVars, jobVars, crmVars, skipped, boundVars>>
    BY <1>6 DEF Write
  <2>2. run' \in [Runners -> RunRecord]
    BY <1>6, WriteShape, RaiseShape, GotoShape
  <2>3. CASE UNCHANGED <<leadVars, written>>
    BY <2>1, <2>2, <2>3 DEF TypeOK, RunRecord
  <2>4. CASE /\ \E a, class : lead' = LeadAfter(a, class) /\ ScheduleRecontact(r, a, lead')
             /\ facts' \in [Keys -> 0 .. 2]
             /\ written' = [written EXCEPT ![r[1]] = @ + 1]
             /\ analysis' = [analysis EXCEPT ![r[1]] = "ok"]
    <3>1. lead' \in [status : {"new", "called", "follow_up", "quoted", "not_interested"}, dnc : BOOLEAN]
          /\ retry' \in {"none", "pending", "in_progress"} /\ made' \in 0 .. MaxRetries
      BY <2>4, LeadAfterType, RetryType
    <3>2. written' \in [Calls -> Nat] /\ analysis' \in [Calls -> {"none", "failed", "ok"}]
      BY <2>4, RunnerShape DEF TypeOK
    <3> QED BY <2>1, <2>2, <2>4, <3>1, <3>2 DEF TypeOK, RunRecord
  <2> QED BY <1>6, <2>3, <2>4, WriteShape
<1>7. ASSUME NEW r \in Runners, Hand(r) \/ HandFails(r) PROVE TypeOK'
  <2>1. run' \in [Runners -> RunRecord]
    BY <1>7, HandedShape DEF Hand, HandFails
  <2>2. crm' \in [Calls -> {"none", "queued", "completed"}] /\ lost' \subseteq Calls
    <3>1. r[1] \in Calls
      BY RunnerShape
    <3>2. CASE Hand(r)
      BY <3>1, <3>2 DEF Hand, TypeOK
    <3>3. CASE HandFails(r)
      BY <3>1, <3>3 DEF HandFails, TypeOK
    <3> QED BY <1>7, <3>2, <3>3
  <2>3. faults' \in 0 .. MaxFaults
    BY <1>7, PostCallAssumption DEF Hand, HandFails, Fault, TypeOK
  <2> QED BY <1>7, <2>1, <2>2, <2>3 DEF TypeOK, Hand, HandFails, RunRecord
<1>8. ASSUME NEW c \in Calls, SaveCompleted(c) \/ SaveFailed(c) PROVE TypeOK'
  <2>1. run' \in [Runners -> RunRecord]
    BY <1>8, RunnerShape, EndRunShape DEF SaveCompleted, SaveFailed
  <2>2. job' \in [Calls -> {"absent", "pending", "running", "failed", "completed", "dead"}]
        /\ waiting' \subseteq Calls
    BY <1>8 DEF SaveCompleted, SaveFailed, TypeOK
  <2> QED BY <1>8, <2>1, <2>2 DEF TypeOK, SaveCompleted, SaveFailed, RunRecord
<1>9. ASSUME NEW c \in Calls, Push(c) PROVE TypeOK'
  BY <1>9 DEF TypeOK, Push
<1>10. CASE CancelDial
  BY <1>10 DEF TypeOK, CancelDial
<1>11. CASE Stop
  <2>1. job' \in [Calls -> {"absent", "pending", "running", "failed", "completed", "dead"}]
        /\ waiting' \subseteq Calls /\ turns' \in [Calls -> {"none", "late", "saved"}]
    BY <1>11 DEF Stop, TypeOK
  <2>2. cut' \in [Calls -> 0 .. MaxFaults] /\ faults' \in 0 .. MaxFaults
    <3>1. \A c \in Calls : cut[c] <= faults /\ faults < MaxFaults
      BY <1>11 DEF Stop, Fault, CallInv, AttemptsOf
    <3> QED BY <1>11, <3>1, PostCallAssumption DEF Stop, Fault, TypeOK
  <2>3. run' \in [Runners -> RunRecord]
    BY <1>11 DEF Stop, Idle, RunRecord
  <2> QED BY <1>11, <2>1, <2>2, <2>3 DEF TypeOK, Stop, RunRecord
<1>12. CASE UNCHANGED vars
  BY <1>12 DEF TypeOK, vars
<1> QED BY <1>1, <1>2, <1>3, <1>4, <1>5, <1>6, <1>7, <1>8, <1>9, <1>10, <1>11, <1>12, PostCallSteps

-----------------------------------------------------------------------------
LEMMA CallsInitial == Init => \A c \in Calls : CallInv(c)
<1> SUFFICES ASSUME Init, NEW c \in Calls PROVE CallInv(c)
  OBVIOUS
<1>1. run[JobOf(c)].pc = "idle" /\ run[Operator(c)].pc = "idle"
  BY RunnerShape DEF Init, Idle
<1> QED BY <1>1, PostCallAssumption
    DEF Init, CallInv, RunOf, AttemptsOf, WholeOf, DoneOf, CountOf, ByJob, ByOperator, Wrote

(* A step that leaves a call alone keeps what holds of it. *)
Same(c) ==
  /\ call'[c] = call[c] /\ job'[c] = job[c] /\ attempts'[c] = attempts[c]
  /\ written'[c] = written[c] /\ analysis'[c] = analysis[c] /\ cut'[c] = cut[c]
  /\ crm[c] # "none" => crm'[c] # "none"
  /\ run'[JobOf(c)] = run[JobOf(c)] /\ run'[Operator(c)] = run[Operator(c)]
  /\ c \in lost => c \in lost'
  /\ c \in waiting' <=> c \in waiting
  /\ c \in skipped' <=> c \in skipped
  /\ c \in reruns' <=> c \in reruns

LEMMA SameKeeps ==
  ASSUME TypeOK, NEW c \in Calls, CallInv(c), Same(c), faults' \in Nat, faults <= faults'
  PROVE  CallInv(c)'
<1>1. attempts[c] \in Nat /\ faults \in Nat /\ MaxRuns \in Nat /\ cut[c] \in Nat
  BY PostCallAssumption DEF TypeOK
<1>2. RunOf(c)' /\ WholeOf(c)' /\ DoneOf(c)' /\ CountOf(c)'
  BY DEF Same, CallInv, RunOf, WholeOf, DoneOf, CountOf, ByJob, ByOperator, Wrote
<1>3. AttemptsOf(c)'
  BY <1>1 DEF Same, CallInv, AttemptsOf
<1> QED BY <1>2, <1>3 DEF CallInv

LEMMA FaultsGrow ==
  ASSUME TypeOK, [Next]_vars PROVE faults' \in Nat /\ faults <= faults' /\ faults \in Nat
<1>1. faults \in Nat
  BY DEF TypeOK
<1>2. faults' = faults \/ Fault
  BY PostCallSteps DEF vars, boundVars, CallByHand, Dial, CallEnds, LateTurn, Ask, SaveCompleted, SaveFailed,
     Reanalyze, Push, GptFails, Write, Hand, HandFails, CancelDial, Stop
<1> QED BY <1>1, <1>2 DEF Fault

LEMMA NumbersAre ==
  ASSUME TypeOK, NEW c \in Calls
  PROVE  /\ attempts[c] \in Nat /\ written[c] \in Nat /\ cut[c] \in Nat
         /\ MaxRuns \in Nat \ {0} /\ MaxFaults \in Nat
BY PostCallAssumption DEF TypeOK

LEMMA ProviderKeeps ==
  ASSUME PostCallInv, NEW c \in Calls, NEW d \in Calls,
         \/ CallByHand(d) \/ Dial(d) \/ CallEnds(d) \/ LateTurn(d) \/ Push(d)
  PROVE  CallInv(c)'
<1> USE DEF PostCallInv, callVars, leadVars, jobVars, crmVars, boundVars
<1>1. TypeOK /\ CallInv(c) /\ faults \in Nat
  BY DEF TypeOK
<1>2. CASE CallByHand(d) \/ Dial(d)
  <2>1. UNCHANGED <<jobVars, run, crmVars, analysis, written, skipped, boundVars>>
    BY <1>2 DEF CallByHand, Dial
  <2>2. call'[c] = call[c] \/ (call[c] = "none" /\ call'[c] = "live")
    BY <1>1, <1>2 DEF CallByHand, Dial, Answer, TypeOK
  <2> QED BY <1>1, <2>1, <2>2
      DEF CallInv, RunOf, AttemptsOf, WholeOf, DoneOf, CountOf, ByJob, ByOperator, Wrote
<1>3. CASE CallEnds(d)
  <2>1. UNCHANGED <<attempts, waiting, run, crmVars, analysis, written, skipped, boundVars>>
    BY <1>3 DEF CallEnds
  <2>2. CASE c # d
    <3>1. call'[c] = call[c] /\ job'[c] = job[c]
      BY <1>1, <1>3, <2>2 DEF CallEnds, TypeOK
    <3> QED BY <1>1, <2>1, <3>1, SameKeeps DEF Same
  <2>3. CASE c = d
    <3>1. job[c] = "absent" /\ job'[c] = "pending" /\ call'[c] = "completed"
      BY <1>1, <1>3, <2>3 DEF CallEnds, TypeOK, CallInv, RunOf
    <3> QED BY <1>1, <2>1, <3>1
        DEF CallInv, RunOf, AttemptsOf, WholeOf, DoneOf, CountOf, ByJob, ByOperator, Wrote
  <2> QED BY <2>2, <2>3
<1>4. CASE LateTurn(d)
  BY <1>1, <1>4, SameKeeps DEF LateTurn, Same
<1>5. CASE Push(d)
  <2>1. crm[c] # "none" => crm'[c] # "none"
    BY <1>1, <1>5 DEF Push, TypeOK
  <2> QED BY <1>1, <1>5, <2>1, SameKeeps DEF Push, Same
<1> QED BY <1>2, <1>3, <1>4, <1>5

LEMMA AskKeeps ==
  ASSUME PostCallInv, NEW c \in Calls, NEW d \in Calls, Ask(d)
  PROVE  CallInv(c)'
<1> USE DEF PostCallInv, callVars, leadVars, jobVars, crmVars, boundVars
<1>1. TypeOK /\ CallInv(c) /\ CallInv(d) /\ faults \in Nat
  BY DEF TypeOK
<1>2. UNCHANGED <<callVars, leadVars, crmVars, written, boundVars>>
  BY DEF Ask
<1>3. run'[Operator(c)] = run[Operator(c)]
  BY <1>1, RunnerShape DEF Ask, TypeOK
<1>4. CASE c # d
  <2>1. job'[c] = job[c] /\ attempts'[c] = attempts[c] /\ run'[JobOf(c)] = run[JobOf(c)]
        /\ (c \in waiting' <=> c \in waiting) /\ (c \in skipped' <=> c \in skipped)
    BY <1>1, <1>4, RunnerShape DEF Ask, TypeOK
  <2> QED BY <1>1, <1>2, <1>3, <2>1, SameKeeps DEF Same
<1>5. CASE c = d
  <2>1. job[c] \in {"pending", "failed"} /\ call[c] = "completed" /\ run[JobOf(c)].pc = "idle"
        /\ attempts[c] < MaxRuns + faults
    BY <1>1, <1>5 DEF Ask, Runnable, CallInv, RunOf, AttemptsOf
  <2>2. c \notin waiting' /\ attempts'[c] = attempts[c] + 1
    BY <1>1, <1>5 DEF Ask, TypeOK
  <2>3. attempts'[c] <= MaxRuns + faults /\ AttemptsOf(c)' = AttemptsOf(c)'
    BY <1>1, <2>1, <2>2, NumbersAre
  <2>4. CASE turns[d] = "saved"
    <3>1. job'[c] = "running" /\ run'[JobOf(c)].pc = "asking" /\ UNCHANGED skipped
      BY <1>1, <1>5, <2>4, RunnerShape, SnapshotType DEF Ask, TypeOK
    <3> QED BY <1>1, <1>2, <1>3, <2>1, <2>2, <2>3, <3>1
        DEF CallInv, RunOf, AttemptsOf, WholeOf, DoneOf, CountOf, ByJob, ByOperator, Wrote
  <2>5. CASE turns[d] # "saved"
    <3>1. job'[c] = "completed" /\ c \in skipped' /\ UNCHANGED run
      BY <1>1, <1>5, <2>5 DEF Ask, TypeOK
    <3>2. written[c] <= 1 + cut[c] + ByOperator(c)
      BY <1>1, NumbersAre DEF CallInv, CountOf, ByJob, ByOperator
    <3> QED BY <1>1, <1>2, <1>3, <2>1, <2>2, <2>3, <3>1, <3>2
        DEF CallInv, RunOf, AttemptsOf, WholeOf, DoneOf, CountOf, ByJob, ByOperator, Wrote
  <2> QED BY <2>4, <2>5
<1> QED BY <1>4, <1>5

LEMMA ReanalyzeKeeps ==
  ASSUME PostCallInv, NEW c \in Calls, NEW d \in Calls, Reanalyze(d)
  PROVE  CallInv(c)'
<1> USE DEF PostCallInv, callVars, leadVars, jobVars, crmVars, boundVars
<1>1. TypeOK /\ CallInv(c) /\ faults \in Nat
  BY DEF TypeOK
<1>2. UNCHANGED <<callVars, leadVars, jobVars, crmVars, written, skipped, cut, faults>>
  BY DEF Reanalyze
<1>3. run'[JobOf(c)] = run[JobOf(c)]
  BY <1>1, RunnerShape DEF Reanalyze, TypeOK
<1>4. CASE c # d
  <2>1. run'[Operator(c)] = run[Operator(c)] /\ (c \in reruns' <=> c \in reruns)
    BY <1>1, <1>4, RunnerShape DEF Reanalyze, TypeOK
  <2> QED BY <1>1, <1>2, <1>3, <2>1, SameKeeps DEF Same
<1>5. CASE c = d
  <2>1. run'[Operator(c)].pc = "asking" /\ c \notin reruns /\ c \in reruns'
    BY <1>1, <1>5, RunnerShape, SnapshotType DEF Reanalyze, TypeOK
  <2>2. ByOperator(c) = 0 /\ ByOperator(c)' = 0 /\ ByJob(c)' = ByJob(c)
    BY <1>2, <1>3, <2>1 DEF ByOperator, ByJob, Wrote
  <2> QED BY <1>1, <1>2, <1>3, <2>1, <2>2
      DEF CallInv, RunOf, AttemptsOf, WholeOf, DoneOf, CountOf, Wrote
<1> QED BY <1>4, <1>5

(* The steps of a runner: what they do to the call it works for, by whether it
   is the job or the operator. *)
LEMMA OtherCalls ==
  ASSUME TypeOK, NEW c \in Calls, NEW r \in Runners, r[1] # c,
         \A q \in Runners \ {r} : run'[q] = run[q]
  PROVE  run'[JobOf(c)] = run[JobOf(c)] /\ run'[Operator(c)] = run[Operator(c)]
BY RunnerShape

LEMMA GptFailsKeeps ==
  ASSUME PostCallInv, NEW c \in Calls, NEW r \in Runners, GptFails(r), faults' \in Nat, faults <= faults'
  PROVE  CallInv(c)'
<1> USE DEF PostCallInv, callVars, leadVars, jobVars, crmVars, boundVars
<1>1. TypeOK /\ CallInv(c) /\ faults \in Nat
  BY DEF TypeOK
<1>2. /\ run[r].pc = "asking"
      /\ UNCHANGED <<callVars, jobVars, crmVars, written, skipped, cut, reruns>>
      /\ analysis' = [analysis EXCEPT ![r[1]] = "failed"]
  BY DEF GptFails, MarkFailed
<1>3. /\ run'[r].pc = IF r[2] = "job" THEN "raised" ELSE "idle"
      /\ \A q \in Runners \ {r} : run'[q] = run[q]
  BY <1>1, RaiseShape DEF GptFails
<1>4. CASE r[1] # c
  <2>1. analysis'[c] = analysis[c]
    BY <1>1, <1>2, <1>4 DEF TypeOK
  <2> QED BY <1>1, <1>2, <1>3, <1>4, <2>1, OtherCalls, SameKeeps DEF Same
<1>5. CASE r[1] = c
  <2>1. analysis'[c] = "failed"
    BY <1>1, <1>2, <1>5 DEF TypeOK
  <2>2. WholeOf(c)' /\ AttemptsOf(c)'
    BY <1>1, <1>2, <2>1, NumbersAre DEF WholeOf, AttemptsOf, CallInv
  <2>3. CASE r = JobOf(c)
    <3>1. run'[JobOf(c)].pc = "raised" /\ run'[Operator(c)] = run[Operator(c)]
          /\ run[JobOf(c)].pc = "asking"
      BY <1>2, <1>3, <2>3, RunnerShape
    <3> QED BY <1>1, <1>2, <2>2, <3>1
        DEF CallInv, RunOf, DoneOf, CountOf, ByJob, ByOperator, Wrote
  <2>4. CASE r = Operator(c)
    <3>1. run'[Operator(c)].pc = "idle" /\ run'[JobOf(c)] = run[JobOf(c)]
          /\ run[Operator(c)].pc = "asking"
      BY <1>2, <1>3, <2>4, RunnerShape
    <3>2. ByOperator(c) = 0 /\ ByOperator(c)' \in {0, 1} /\ ByJob(c)' = ByJob(c) /\ ByJob(c) \in {0, 1}
      BY <1>2, <3>1 DEF ByOperator, ByJob, Wrote
    <3>3. CountOf(c)'
      BY <1>1, <1>2, <3>2, NumbersAre DEF CountOf, CallInv
    <3> QED BY <1>1, <1>2, <2>2, <3>1, <3>3 DEF CallInv, RunOf, DoneOf, Wrote
  <2> QED BY <1>5, <2>3, <2>4, RunnerShape
<1> QED BY <1>4, <1>5

LEMMA WriteKeeps ==
  ASSUME PostCallInv, NEW c \in Calls, NEW r \in Runners, Write(r)
  PROVE  CallInv(c)'
<1> USE DEF PostCallInv, callVars, leadVars, jobVars, crmVars, boundVars
<1>1. TypeOK /\ CallInv(c) /\ faults \in Nat
  BY DEF TypeOK
<1>2. /\ run[r].pc = "asking"
      /\ UNCHANGED <<callVars, jobVars, crmVars, skipped, boundVars>>
  BY <1>1, WriteShape
<1>3. CASE Raise(r) /\ UNCHANGED <<leadVars, written>>
  <2>1. /\ run'[r].pc = IF r[2] = "job" THEN "raised" ELSE "idle"
        /\ \A q \in Runners \ {r} : run'[q] = run[q]
    BY <1>1, <1>3, RaiseShape
  <2>2. CASE r[1] # c
    BY <1>1, <1>2, <1>3, <2>1, <2>2, OtherCalls, SameKeeps DEF Same
  <2>3. CASE r = JobOf(c)
    <3>1. run'[JobOf(c)].pc = "raised" /\ run'[Operator(c)] = run[Operator(c)]
          /\ run[JobOf(c)].pc = "asking"
      BY <1>2, <2>1, <2>3, RunnerShape
    <3> QED BY <1>1, <1>2, <1>3, <3>1
        DEF CallInv, RunOf, AttemptsOf, WholeOf, DoneOf, CountOf, ByJob, ByOperator, Wrote
  <2>4. CASE r = Operator(c)
    <3>1. run'[Operator(c)].pc = "idle" /\ run'[JobOf(c)] = run[JobOf(c)]
          /\ run[Operator(c)].pc = "asking"
      BY <1>2, <2>1, <2>4, RunnerShape
    <3>2. ByOperator(c) = 0 /\ ByOperator(c)' \in {0, 1} /\ ByJob(c)' = ByJob(c) /\ ByJob(c) \in {0, 1}
      BY <1>2, <3>1 DEF ByOperator, ByJob, Wrote
    <3>3. CountOf(c)'
      BY <1>1, <1>2, <1>3, <3>2, NumbersAre DEF CountOf, CallInv
    <3> QED BY <1>1, <1>2, <1>3, <3>1, <3>3 DEF CallInv, RunOf, AttemptsOf, WholeOf, DoneOf, Wrote
  <2> QED BY <2>2, <2>3, <2>4, RunnerShape
<1>4. CASE /\ written' = [written EXCEPT ![r[1]] = @ + 1]
           /\ analysis' = [analysis EXCEPT ![r[1]] = "ok"]
           /\ Goto(r, "written")
  <2>1. run'[r].pc = "written" /\ \A q \in Runners \ {r} : run'[q] = run[q]
    BY <1>1, <1>4, GotoShape
  <2>2. CASE r[1] # c
    <3>1. written'[c] = written[c] /\ analysis'[c] = analysis[c]
      BY <1>1, <1>4, <2>2 DEF TypeOK
    <3> QED BY <1>1, <1>2, <2>1, <2>2, <3>1, OtherCalls, SameKeeps DEF Same
  <2>3. CASE r[1] = c
    <3>1. written'[c] = written[c] + 1 /\ analysis'[c] = "ok"
      BY <1>1, <1>4, <2>3 DEF TypeOK
    <3>2. WholeOf(c)' /\ AttemptsOf(c)' /\ written'[c] > 0
      BY <1>1, <1>2, <3>1, NumbersAre DEF WholeOf, AttemptsOf, CallInv
    <3>3. CASE r = JobOf(c)
      <4>1. run'[JobOf(c)].pc = "written" /\ run'[Operator(c)] = run[Operator(c)]
            /\ run[JobOf(c)].pc = "asking" /\ job[c] = "running"
        BY <1>1, <1>2, <2>1, <3>3, RunnerShape DEF CallInv, RunOf
      <4>2. ByJob(c) = 0 /\ ByJob(c)' = 1 /\ ByOperator(c)' = ByOperator(c) /\ ByOperator(c) \in {0, 1}
        BY <1>2, <4>1 DEF ByOperator, ByJob, Wrote
      <4>3. CountOf(c)'
        BY <1>1, <1>2, <3>1, <4>2, NumbersAre DEF CountOf, CallInv
      <4> QED BY <1>1, <1>2, <3>2, <4>1, <4>3 DEF CallInv, RunOf, DoneOf, Wrote
    <3>4. CASE r = Operator(c)
      <4>1. run'[Operator(c)].pc = "written" /\ run'[JobOf(c)] = run[JobOf(c)]
            /\ run[Operator(c)].pc = "asking"
        BY <1>2, <2>1, <3>4, RunnerShape
      <4>2. c \in reruns
        BY <1>1, <4>1 DEF CallInv, RunOf
      <4>3. ByOperator(c) = 0 /\ ByOperator(c)' = 1 /\ ByJob(c)' = ByJob(c) /\ ByJob(c) \in {0, 1}
        BY <1>2, <4>1, <4>2 DEF ByOperator, ByJob, Wrote
      <4>4. CountOf(c)'
        BY <1>1, <1>2, <3>1, <4>3, NumbersAre DEF CountOf, CallInv
      <4> QED BY <1>1, <1>2, <3>2, <4>1, <4>2, <4>4 DEF CallInv, RunOf, DoneOf, Wrote
    <3> QED BY <2>3, <3>3, <3>4, RunnerShape
  <2> QED BY <2>2, <2>3
<1> QED BY <1>1, <1>3, <1>4, WriteShape

LEMMA HandKeeps ==
  ASSUME PostCallInv, NEW c \in Calls, NEW r \in Runners, Hand(r) \/ HandFails(r),
         faults' \in Nat, faults <= faults'
  PROVE  CallInv(c)'
<1> USE DEF PostCallInv, callVars, leadVars, jobVars, crmVars, boundVars
<1>1. TypeOK /\ CallInv(c) /\ faults \in Nat
  BY DEF TypeOK
<1>2. /\ run[r].pc = "written"
      /\ UNCHANGED <<callVars, leadVars, jobVars, written, skipped, cut, reruns>>
  BY DEF Hand, HandFails
<1>3. /\ run'[r].pc = IF r[2] = "job" THEN "handed" ELSE "idle"
      /\ \A q \in Runners \ {r} : run'[q] = run[q]
  BY <1>1, HandedShape DEF Hand, HandFails
<1>4. (crm[c] # "none" => crm'[c] # "none") /\ (c \in lost => c \in lost')
  BY <1>1, RunnerShape DEF Hand, HandFails, TypeOK
<1>5. CASE r[1] # c
  BY <1>1, <1>2, <1>3, <1>4, <1>5, OtherCalls, SameKeeps DEF Same
<1>6. CASE r = JobOf(c)
  <2>1. run'[JobOf(c)].pc = "handed" /\ run'[Operator(c)] = run[Operator(c)]
        /\ run[JobOf(c)].pc = "written" /\ job[c] = "running"
    BY <1>1, <1>2, <1>3, <1>6, RunnerShape DEF CallInv, RunOf
  <2>2. crm'[c] # "none" \/ c \in lost'
    BY <1>1, <1>6, RunnerShape DEF Hand, HandFails, TypeOK
  <2>3. AttemptsOf(c)'
    BY <1>1, <1>2, NumbersAre DEF AttemptsOf, CallInv
  <2> QED BY <1>1, <1>2, <2>1, <2>2, <2>3
      DEF CallInv, RunOf, WholeOf, DoneOf, CountOf, ByJob, ByOperator, Wrote
<1>7. CASE r = Operator(c)
  <2>1. run'[Operator(c)].pc = "idle" /\ run'[JobOf(c)] = run[JobOf(c)]
        /\ run[Operator(c)].pc = "written"
    BY <1>1, <1>2, <1>3, <1>7, RunnerShape
  <2>2. AttemptsOf(c)'
    BY <1>1, <1>2, NumbersAre DEF AttemptsOf, CallInv
  <2> QED BY <1>1, <1>2, <1>4, <2>1, <2>2
      DEF CallInv, RunOf, WholeOf, DoneOf, CountOf, ByJob, ByOperator, Wrote
<1> QED BY <1>5, <1>6, <1>7, RunnerShape

LEMMA SaveKeeps ==
  ASSUME PostCallInv, NEW c \in Calls, NEW d \in Calls, SaveCompleted(d) \/ SaveFailed(d)
  PROVE  CallInv(c)'
<1> USE DEF PostCallInv, callVars, leadVars, jobVars, crmVars, boundVars
<1>1. TypeOK /\ CallInv(c) /\ faults \in Nat
  BY DEF TypeOK
<1>2. UNCHANGED <<callVars, leadVars, attempts, crmVars, written, skipped, boundVars>>
  BY DEF SaveCompleted, SaveFailed
<1>3. run'[JobOf(d)].pc = "idle" /\ \A q \in Runners \ {JobOf(d)} : run'[q] = run[q]
  BY <1>1, RunnerShape, EndRunShape DEF SaveCompleted, SaveFailed
<1>4. CASE c # d
  <2>1. job'[c] = job[c] /\ (c \in waiting' <=> c \in waiting)
    BY <1>1, <1>4 DEF SaveCompleted, SaveFailed, TypeOK
  <2>2. run'[JobOf(c)] = run[JobOf(c)] /\ run'[Operator(c)] = run[Operator(c)]
    BY <1>3, <1>4, RunnerShape
  <2> QED BY <1>1, <1>2, <2>1, <2>2, SameKeeps DEF Same
<1>5. CASE c = d /\ SaveCompleted(d)
  <2>1. run[JobOf(c)].pc = "handed" /\ job[c] = "running" /\ c \notin waiting
        /\ job'[c] = "completed" /\ waiting' = waiting
    BY <1>1, <1>5 DEF SaveCompleted, TypeOK, CallInv, RunOf
  <2>2. run'[Operator(c)] = run[Operator(c)] /\ run'[JobOf(c)].pc = "idle"
    BY <1>3, <1>5, RunnerShape
  <2> QED BY <1>1, <1>2, <2>1, <2>2
      DEF CallInv, RunOf, AttemptsOf, WholeOf, DoneOf, CountOf, ByJob, ByOperator, Wrote
<1>6. CASE c = d /\ SaveFailed(d)
  <2>1. run[JobOf(c)].pc = "raised" /\ job[c] = "running" /\ c \notin waiting
        /\ call[c] = "completed"
    BY <1>1, <1>6 DEF SaveFailed, TypeOK, CallInv, RunOf
  <2>2. run'[Operator(c)] = run[Operator(c)] /\ run'[JobOf(c)].pc = "idle"
    BY <1>3, <1>6, RunnerShape
  <2>3. \/ job'[c] = "dead" /\ waiting' = waiting
        \/ attempts[c] < MaxRuns /\ job'[c] = "failed"
    BY <1>1, <1>6, NumbersAre DEF SaveFailed, TypeOK
  <2>4. AttemptsOf(c)'
    BY <1>1, <1>2, <2>1, <2>3, NumbersAre DEF AttemptsOf, CallInv
  <2> QED BY <1>1, <1>2, <2>1, <2>2, <2>3, <2>4
      DEF CallInv, RunOf, WholeOf, DoneOf, CountOf, ByJob, ByOperator, Wrote
<1> QED BY <1>4, <1>5, <1>6

LEMMA StopKeeps ==
  ASSUME PostCallInv, NEW c \in Calls, Stop
  PROVE  CallInv(c)'
<1> USE DEF PostCallInv, callVars, leadVars, jobVars, crmVars, boundVars
<1>1. TypeOK /\ CallInv(c) /\ faults \in Nat /\ faults' = faults + 1
  BY DEF TypeOK, Stop, Fault
<1>2. UNCHANGED <<call, leadVars, attempts, crmVars, written, skipped, reruns>> /\ waiting' = {}
  BY DEF Stop
<1>3. run'[JobOf(c)].pc = "idle" /\ run'[Operator(c)].pc = "idle"
  BY RunnerShape DEF Stop, Idle
<1>4. job'[c] = IF job[c] = "running" THEN "pending" ELSE job[c]
  BY DEF Stop
<1>5. cut'[c] = cut[c] + IF Wrote(JobOf(c)) THEN 1 ELSE 0
  BY DEF Stop
<1>6. AttemptsOf(c)'
  BY <1>1, <1>2, <1>4, <1>5, NumbersAre DEF AttemptsOf, CallInv
<1>7. CountOf(c)'
  <2>1. Wrote(JobOf(c)) => job[c] = "running"
    BY <1>1 DEF CallInv, RunOf, Wrote
  <2>2. ByJob(c)' = IF job[c] = "completed" THEN 1 ELSE 0
    BY <1>3, <1>4 DEF ByJob, Wrote
  <2>3. ByOperator(c) \in {0, 1} /\ ByOperator(c)' \in {0, 1} /\ ByOperator(c) <= ByOperator(c)'
    BY <1>2, <1>3 DEF ByOperator
  <2>4. written[c] <= ByJob(c) + cut[c] + ByOperator(c)
    BY <1>1 DEF CallInv, CountOf
  <2>5. CASE Wrote(JobOf(c))
    <3>1. ByJob(c) = 1 /\ ByJob(c)' = 0 /\ cut'[c] = cut[c] + 1
      BY <1>5, <2>1, <2>2, <2>5 DEF ByJob
    <3> QED BY <1>1, <1>2, <2>3, <2>4, <3>1, NumbersAre DEF CountOf
  <2>6. CASE ~Wrote(JobOf(c))
    <3>1. ByJob(c) = ByJob(c)' /\ ByJob(c) \in {0, 1} /\ cut'[c] = cut[c]
      BY <1>1, <1>5, <2>2, <2>6, NumbersAre DEF ByJob
    <3> QED BY <1>1, <1>2, <2>3, <2>4, <3>1, NumbersAre DEF CountOf
  <2> QED BY <2>5, <2>6
<1>8. RunOf(c)' /\ WholeOf(c)' /\ DoneOf(c)'
  BY <1>1, <1>2, <1>3, <1>4 DEF CallInv, RunOf, WholeOf, DoneOf, Wrote
<1> QED BY <1>6, <1>7, <1>8 DEF CallInv

LEMMA PostCallInitial == Init => PostCallInv
BY TypeInitial, CallsInitial DEF PostCallInv

LEMMA PostCallPreserved == PostCallInv /\ [Next]_vars => PostCallInv'
<1> SUFFICES ASSUME PostCallInv, [Next]_vars PROVE PostCallInv'
  OBVIOUS
<1>1. TypeOK'
  BY TypePreserved
<1>2. TypeOK /\ faults' \in Nat /\ faults <= faults'
  BY FaultsGrow DEF PostCallInv
<1>3. ASSUME NEW c \in Calls PROVE CallInv(c)'
  <2>1. CASE UNCHANGED vars \/ CancelDial
    BY <1>2, <2>1, SameKeeps
    DEF vars, callVars, leadVars, jobVars, crmVars, boundVars, CancelDial, PostCallInv, Same
  <2>2. CASE Next
    BY <1>2, <2>1, <2>2, PostCallSteps, ProviderKeeps, AskKeeps, ReanalyzeKeeps, GptFailsKeeps,
       WriteKeeps, HandKeeps, SaveKeeps, StopKeeps
  <2> QED BY <2>1, <2>2
<1> QED BY <1>1, <1>3 DEF PostCallInv

-----------------------------------------------------------------------------
(* Every variable of the lead's summaries keeps its type: the rows, the attempts
   of a job and the recontacts stay within the client's limits. *)
THEOREM PostCallTypeCorrect == Spec => []TypeOK
<1>1. PostCallInv => TypeOK
  BY DEF PostCallInv
<1> QED BY <1>1, PostCallInitial, PostCallPreserved, PTL DEF Spec

(* A summary is written whole or not at all, whoever runs it and wherever it is
   interrupted. *)
THEOREM SummariesAreWhole == Spec => []WholeOrNothing
<1>1. PostCallInv => WholeOrNothing
  BY DEF PostCallInv, CallInv, WholeOf, WholeOrNothing
<1> QED BY <1>1, PostCallInitial, PostCallPreserved, PTL DEF Spec

(* A call is in the history more often than once only for stops after a commit
   and for an operator. *)
THEOREM DuplicatesHaveACause == Spec => []WritesAccounted
<1>1. PostCallInv => WritesAccounted
  <2> SUFFICES ASSUME PostCallInv, NEW c \in Calls
               PROVE  written[c] <= 1 + cut[c] + (IF c \in reruns THEN 1 ELSE 0)
    BY DEF WritesAccounted
  <2>1. written[c] <= ByJob(c) + cut[c] + ByOperator(c) /\ TypeOK
    BY DEF PostCallInv, CallInv, CountOf
  <2>2. ByJob(c) \in {0, 1} /\ (ByOperator(c) = 0 \/ (ByOperator(c) = 1 /\ c \in reruns))
    BY DEF ByJob, ByOperator
  <2> QED BY <2>1, <2>2, NumbersAre
<1> QED BY <1>1, PostCallInitial, PostCallPreserved, PTL DEF Spec

(* No failure is reported as done: a completed job wrote and handed over. *)
THEOREM CompletedJobsAreDone == Spec => []CompletedIsDone
<1>1. PostCallInv => CompletedIsDone
  BY DEF PostCallInv, CallInv, DoneOf, CompletedIsDone
<1> QED BY <1>1, PostCallInitial, PostCallPreserved, PTL DEF Spec

(* Do-not-call is final, also for the summaries under way when it is set. *)
THEOREM StopStays == Spec => StopIsFinal
<1>1. PostCallInv /\ [Next]_vars => [lead.dnc => lead'.dnc /\ made' = made]_vars
  <2> SUFFICES ASSUME TypeOK, Next, lead.dnc PROVE lead'.dnc /\ made' = made
    BY DEF PostCallInv
  <2> USE DEF callVars, leadVars, jobVars, crmVars, boundVars
  <2>1. ASSUME NEW c \in Calls, Answer(c) PROVE lead'.dnc
    BY <2>1 DEF Answer, TypeOK
  <2>2. ASSUME NEW r \in Runners, Write(r) PROVE lead'.dnc /\ made' = made
    BY <2>2, WriteShape, LeadAfterType DEF ScheduleRecontact, Eligible
  <2> QED BY <2>1, <2>2, PostCallSteps
      DEF CallByHand, Dial, CallEnds, LateTurn, Ask, SaveCompleted, SaveFailed, Reanalyze, Push,
          GptFails, Hand, HandFails, CancelDial, Stop
<1> QED BY <1>1, PostCallInitial, PostCallPreserved, PTL DEF Spec, StopIsFinal

-----------------------------------------------------------------------------
(* The two modules meet: a decision about a lead that had said stop when the
   analysis read it, or says so in this call, is one that PostCall lets the run
   of that snapshot write. *)
THEOREM DecisionsAreAnswerable ==
  ASSUME NEW r \in Runners, Over, snapshot.known, run[r].dnc = snapshot.dnc, StopIsRespected
  PROVE  Answerable(r, decision.action, answer.outcome)
BY DEF Over, StopIsRespected, Answerable, Stopping, HardStop

=============================================================================
