-------------------------- MODULE AutoDialerProofs --------------------------
(***************************************************************************)
(* Proofs about AutoDialer, for any rows, leads, limits and number of      *)
(* stops: type correctness, no call by a second dial but after a stop, no  *)
(* recorded row claimable again, one live call per lead, one parked retry  *)
(* per lead, terminal rows stay terminal.                                  *)
(*                                                                         *)
(* The argument counts the dials of a row that made the provider call      *)
(* (placed) against those a stop cut short (cut).  A row that a further    *)
(* dial may have called (MayDial) has placed <= cut; its call costs the    *)
(* row that standing, and it is regained only by a stop, which pays for it *)
(* in cut.                                                                 *)
(***************************************************************************)
EXTENDS AutoDialer, FiniteSetTheorems, SequenceTheorems, TLAPS

-----------------------------------------------------------------------------
(* The inductive invariant *)

(* The loop waits for a dial, or has its result in hand. *)
DialPC == {"dialing", "accepted", "rejected"}
InHand(r) == cur = r /\ pc \in DialPC

(* Another dial may yet make the provider call for row r: one to come, or the
   one in hand, none of whose requests was carried out. *)
MayDial(r) ==
  \/ status[r] \in {"absent", "pending"}
  \/ r \in won
  \/ status[r] = "in_progress" /\ outcome[r] = 0 /\ ~InHand(r)
  \/ InHand(r) /\ pc = "dialing" /\ rung[LeadOf[r]] = {}

RowInv(r) ==
  /\ outcome[r] <= Latest(LeadOf[r])
  /\ status[r] \in {"absent", "pending"} => outcome[r] = 0
  /\ r \in won => outcome[r] = 0 /\ status[r] \notin {"absent", "pending"}
  /\ placed[r] <= 1 + cut[r]
  /\ MayDial(r) => placed[r] <= cut[r]

(* A lock that is taken has a session; a row's dial is the loop's. *)
LineInv(l) ==
  /\ line[l] # "free" => Latest(l) > 0
  /\ by[l] # Manual => /\ line[l] # "free" /\ pc = "dialing"
                       /\ by[l] = cur /\ LeadOf[cur] = l

(* What the loop holds at each of its steps. *)
LoopInv ==
  /\ pc \in {"idle", "reapA", "reapB", "resolve"} => won = {}
  /\ pc \in {"reapB", "resolve"} => \A r \in todo : outcome[r] # 0
  /\ pc = "resolve" => cur \in Calls
  /\ pc \in DialPC =>
       /\ cur \in Calls /\ cur \notin won
       /\ call > 0 /\ call <= Latest(LeadOf[cur])
       /\ outcome[cur] = 0 /\ status[cur] \notin {"absent", "pending"}
  /\ pc = "dialing" => by[LeadOf[cur]] = cur

SessInv(l) ==
  \A m, n \in DOMAIN sess[l] : sess[l][m] = "active" /\ sess[l][n] = "active" => m = n

IInv ==
  /\ TypeOK /\ LoopInv
  /\ \A r \in Calls : RowInv(r)
  /\ \A l \in Leads : LineInv(l) /\ SessInv(l)

-----------------------------------------------------------------------------
(* Facts about the operators *)

LEMMA SessionLength ==
  ASSUME TypeOK, NEW l \in Leads
  PROVE  Latest(l) \in Nat /\ DOMAIN sess[l] = 1..Latest(l)
BY LenProperties DEF TypeOK, Latest

LEMMA LeadOfRow ==
  ASSUME NEW r \in Calls
  PROVE  LeadOf[r] \in Leads
BY LeadAssumption

(* A session that ends leaves at most the other ones active. *)
LEMMA SessionEnds ==
  ASSUME IInv, NEW l \in Leads, NEW n \in DOMAIN sess[l], NEW v \in SessStatus,
         v # "active", SetSession(l, n, v)
  PROVE  /\ sess' \in [Leads -> Seq(SessStatus)]
         /\ \A k \in Leads : Len(sess'[k]) = Len(sess[k]) /\ SessInv(k)'
<1>1. sess[l] \in Seq(SessStatus) /\ n \in 1..Len(sess[l])
  BY SessionLength DEF IInv, TypeOK, Latest
<1>2. sess'[l] = [sess[l] EXCEPT ![n] = v] /\ \A k \in Leads : k # l => sess'[k] = sess[k]
  BY DEF SetSession, IInv, TypeOK
<1>3. /\ sess'[l] \in Seq(SessStatus) /\ Len(sess'[l]) = Len(sess[l])
      /\ \A j \in 1..Len(sess[l]) : sess'[l][j] = IF j = n THEN v ELSE sess[l][j]
  BY <1>1, <1>2, ExceptSeq
<1>4. sess' \in [Leads -> Seq(SessStatus)]
  BY <1>2, <1>3 DEF SetSession, IInv, TypeOK
<1>5. DOMAIN sess'[l] = 1..Len(sess[l]) /\ DOMAIN sess[l] = 1..Len(sess[l])
  BY <1>1, <1>3, LenProperties
<1>6. SessInv(l)'
  BY <1>3, <1>5 DEF SessInv, IInv
<1>7. \A k \in Leads : k # l => SessInv(k)'
  BY <1>2 DEF SessInv, IInv
<1> QED
  BY <1>2, <1>3, <1>4, <1>6, <1>7

(* A dial adds the only active session of its lead. *)
LEMMA SessionBegins ==
  ASSUME IInv, NEW l \in Leads, NEW who \in Calls \union {Manual},
         ActiveSessions(l) = {}, Seize(l, who)
  PROVE  /\ sess' \in [Leads -> Seq(SessStatus)]
         /\ \A k \in Leads : SessInv(k)'
         /\ \A k \in Leads : Latest(k)' = IF k = l THEN Latest(k) + 1 ELSE Latest(k)
<1>1. sess[l] \in Seq(SessStatus) /\ "active" \in SessStatus
  BY DEF IInv, TypeOK, SessStatus
<1>2. sess'[l] = Append(sess[l], "active") /\ \A k \in Leads : k # l => sess'[k] = sess[k]
  BY DEF Seize, IInv, TypeOK
<1>3. /\ sess'[l] \in Seq(SessStatus) /\ Len(sess'[l]) = Len(sess[l]) + 1
      /\ \A j \in 1..Len(sess[l]) : sess'[l][j] = sess[l][j]
  BY <1>1, <1>2, AppendProperties
<1>4. sess' \in [Leads -> Seq(SessStatus)]
  BY <1>2, <1>3 DEF Seize, IInv, TypeOK
<1>5. DOMAIN sess'[l] = 1..(Len(sess[l]) + 1) /\ DOMAIN sess[l] = 1..Len(sess[l])
      /\ Len(sess[l]) \in Nat
  BY <1>1, <1>3, LenProperties
<1>6. \A j \in 1..Len(sess[l]) : sess'[l][j] # "active"
  BY <1>3, <1>5 DEF ActiveSessions
<1>7. SessInv(l)'
  BY <1>5, <1>6 DEF SessInv
<1>8. \A k \in Leads : k # l => SessInv(k)'
  BY <1>2 DEF SessInv, IInv
<1> QED
  BY <1>2, <1>3, <1>4, <1>7, <1>8 DEF Latest

(* A resolution makes rows terminal, and does nothing else. *)
LEMMA ResolveFacts ==
  ASSUME TypeOK, NEW r \in Calls, NEW v, Resolve(r, v)
  PROVE  /\ status' \in [Calls -> Status]
         /\ \A q \in Calls : status'[q] = status[q] \/ status'[q] \in Terminal
<1>1. CASE \E p \in Calls : status' = [status EXCEPT ![r] = "completed", ![p] = "cancelled"]
  BY <1>1 DEF TypeOK, Status, Terminal
<1>2. CASE Write(r, Resolution(v))
  BY <1>2 DEF TypeOK, Write, Resolution, Status, Terminal
<1> QED
  BY <1>1, <1>2 DEF Resolve, Parked, RowsOf

-----------------------------------------------------------------------------
(* Frames *)

(* A row that does not become dialable again keeps its invariant. *)
LEMMA RowQuiet ==
  ASSUME IInv, NEW r \in Calls,
         outcome'[r] = outcome[r], placed'[r] = placed[r], cut'[r] = cut[r],
         Latest(LeadOf[r])' \in Nat, Latest(LeadOf[r])' >= Latest(LeadOf[r]),
         status'[r] = status[r] \/ status'[r] \in Terminal,
         won' \subseteq won,
         status'[r] = "in_progress" /\ InHand(r) => InHand(r)',
         InHand(r)' /\ pc' = "dialing" /\ rung'[LeadOf[r]] = {} =>
           InHand(r) /\ pc = "dialing" /\ rung[LeadOf[r]] = {}
  PROVE  RowInv(r)'
<1>1. RowInv(r)
  BY DEF IInv
<1>2. status'[r] \in Terminal => status'[r] \notin {"absent", "pending", "in_progress"}
  BY DEF Terminal
<1>3. MayDial(r)' => MayDial(r)
  BY <1>2 DEF MayDial
<1>4. outcome[r] <= Latest(LeadOf[r])'
  BY <1>1, SessionLength, LeadOfRow DEF RowInv, IInv, TypeOK
<1> QED
  BY <1>1, <1>2, <1>3, <1>4 DEF RowInv

(* A step of the world: loop and locks stay, statuses become terminal or a row
   is created. *)
LEMMA WorldKeeps ==
  ASSUME IInv, TypeOK', UNCHANGED <<loopVars, lineVars, outcome, placed, cut>>,
         \A l \in Leads : Len(sess'[l]) = Len(sess[l]) /\ SessInv(l)',
         \A r \in Calls : \/ status'[r] = status[r]
                          \/ status'[r] \in Terminal
                          \/ status[r] = "absent" /\ status'[r] = "pending"
  PROVE  IInv'
<1>1. \A l \in Leads : Latest(l)' = Latest(l) /\ Latest(l) \in Nat
  BY SessionLength DEF Latest, IInv
<1>2. ASSUME NEW r \in Calls PROVE RowInv(r)'
  <2>1. CASE status'[r] = status[r] \/ status'[r] \in Terminal
    BY <1>1, <2>1, RowQuiet, LeadOfRow DEF loopVars, lineVars, InHand
  <2>2. CASE status[r] = "absent" /\ status'[r] = "pending"
    <3>1. RowInv(r) /\ MayDial(r)
      BY <2>2 DEF IInv, MayDial
    <3> QED
      BY <1>1, <2>2, <3>1, LeadOfRow DEF RowInv, loopVars
  <2> QED
    BY <2>1, <2>2
<1>3. LoopInv'
  <2>1. \A r \in Calls : status[r] \notin {"absent", "pending"} =>
                         status'[r] \notin {"absent", "pending"}
    BY DEF Terminal
  <2> QED
    BY <1>1, <2>1, LeadOfRow DEF LoopInv, IInv, loopVars, lineVars, DialPC
<1>4. \A l \in Leads : LineInv(l)'
  BY <1>1 DEF LineInv, IInv, loopVars, lineVars
<1> QED
  BY <1>2, <1>3, <1>4 DEF IInv

(* A step of the loop that is not waiting for a dial: no lock is its own. *)
LEMMA LoopKeeps ==
  ASSUME IInv, TypeOK', LoopInv', UNCHANGED <<sess, lineVars>>, pc # "dialing",
         \A r \in Calls : RowInv(r)'
  PROVE  IInv'
<1>1. \A l \in Leads : LineInv(l)'
  BY DEF LineInv, IInv, lineVars, Latest
<1>2. \A l \in Leads : SessInv(l)'
  BY DEF SessInv, IInv
<1> QED
  BY <1>1, <1>2 DEF IInv

(* A step of the loop that has no row in hand, before and after. *)
LEMMA RowsOutOfHand ==
  ASSUME IInv, pc \notin DialPC, pc' \notin DialPC, won' \subseteq won,
         UNCHANGED <<outcome, placed, cut, sess>>,
         NEW r \in Calls, status'[r] = status[r] \/ status'[r] \in Terminal
  PROVE  RowInv(r)'
<1>1. Latest(LeadOf[r])' = Latest(LeadOf[r]) /\ Latest(LeadOf[r]) \in Nat
  BY SessionLength, LeadOfRow DEF Latest, IInv
<1> QED
  BY <1>1, RowQuiet DEF InHand

-----------------------------------------------------------------------------
(* The initial state *)

LEMMA InitIInv == Init => IInv
<1> SUFFICES ASSUME Init PROVE IInv
  OBVIOUS
<1>1. TypeOK
  BY EmptySeq DEF Init, TypeOK, Status, SessStatus, LoopPC
<1>2. LoopInv
  BY DEF Init, LoopInv, DialPC
<1>3. ASSUME NEW r \in Calls PROVE RowInv(r)
  BY <1>1, SessionLength, LeadOfRow DEF Init, RowInv
<1>4. ASSUME NEW l \in Leads PROVE LineInv(l) /\ SessInv(l)
  BY DEF Init, LineInv, SessInv
<1> QED
  BY <1>1, <1>2, <1>3, <1>4 DEF IInv

-----------------------------------------------------------------------------
(* The queue, the operators, the sessions *)

LEMMA CreateIInv ==
  ASSUME IInv, NEW r \in Calls, Create(r)
  PROVE  IInv'
<1>1. TypeOK'
  BY DEF Create, Write, IInv, TypeOK, Status, Active, loopVars, lineVars, opVars, stopVars
<1>2. \A q \in Calls : \/ status'[q] = status[q]
                       \/ status[q] = "absent" /\ status'[q] = "pending"
  BY DEF Create, Write, IInv, TypeOK
<1>3. \A l \in Leads : Len(sess'[l]) = Len(sess[l]) /\ SessInv(l)'
  BY DEF Create, SessInv, IInv
<1> QED
  BY <1>1, <1>2, <1>3, WorldKeeps DEF Create, stopVars

LEMMA OperatorIInv ==
  ASSUME IInv, NEW r \in Calls,
         OpWrite(r) \/ \E new \in {"cancelled", "completed"} : OpCheck(r, new)
  PROVE  IInv'
<1>1. TypeOK'
  <2>1. CASE OpWrite(r)
    <3>1. op[r] \in {"cancelled", "completed"} /\ op[r] \in Status
      BY <2>1 DEF OpWrite, IInv, TypeOK, Status, Terminal
    <3> QED
      BY <2>1, <3>1 DEF OpWrite, Write, IInv, TypeOK, loopVars, lineVars, stopVars
  <2>2. CASE \E new \in {"cancelled", "completed"} : OpCheck(r, new)
    BY <2>2 DEF OpCheck, IInv, TypeOK, rowVars, loopVars, lineVars, stopVars
  <2> QED
    BY <2>1, <2>2
<1>2. \A q \in Calls : status'[q] = status[q] \/ status'[q] \in Terminal
  BY DEF OpWrite, OpCheck, Write, IInv, TypeOK, Terminal, rowVars
<1>3. \A l \in Leads : Len(sess'[l]) = Len(sess[l]) /\ SessInv(l)'
  BY DEF OpWrite, OpCheck, SessInv, IInv
<1> QED
  BY <1>1, <1>2, <1>3, WorldKeeps DEF OpWrite, OpCheck, rowVars, stopVars

LEMMA CloseSessionIInv ==
  ASSUME IInv, NEW l \in Leads, NEW n \in 1..MaxDials, CloseSession(l, n)
  PROVE  IInv'
<1>1. /\ sess' \in [Leads -> Seq(SessStatus)]
      /\ \A k \in Leads : Len(sess'[k]) = Len(sess[k]) /\ SessInv(k)'
  BY SessionEnds DEF CloseSession, SessStatus
<1>2. /\ status' \in [Calls -> Status]
      /\ \A q \in Calls : status'[q] = status[q] \/ status'[q] \in Terminal
  <2>1. CASE UNCHANGED status
    BY <2>1 DEF IInv, TypeOK
  <2>2. CASE \E r \in Calls, v \in SessStatus : Resolve(r, v)
    BY <2>2, ResolveFacts DEF IInv
  <2> QED
    BY <2>1, <2>2 DEF CloseSession, Linked, InProgress, RowsOf, SessStatus
<1>3. TypeOK'
  BY <1>1, <1>2 DEF CloseSession, IInv, TypeOK, loopVars, lineVars, opVars, stopVars
<1> QED
  BY <1>1, <1>2, <1>3, WorldKeeps DEF CloseSession, stopVars

LEMMA SessionIInv ==
  ASSUME IInv, NEW l \in Leads, NEW n \in 1..MaxDials,
         CompleteSession(l, n) \/ EndSession(l, n)
  PROVE  IInv'
<1>1. /\ sess' \in [Leads -> Seq(SessStatus)]
      /\ \A k \in Leads : Len(sess'[k]) = Len(sess[k]) /\ SessInv(k)'
  BY SessionEnds DEF CompleteSession, EndSession, ActiveSessions, SessStatus
<1>2. TypeOK'
  BY <1>1 DEF CompleteSession, EndSession, IInv, TypeOK, rowVars, loopVars, lineVars,
              opVars, stopVars
<1> QED
  BY <1>1, <1>2, WorldKeeps DEF CompleteSession, EndSession, rowVars, stopVars

-----------------------------------------------------------------------------
(* The reaper *)

LEMMA StartCycleIInv ==
  ASSUME IInv, NEW timedOut \in SUBSET Calls, StartCycle(timedOut)
  PROVE  IInv'
<1>1. TypeOK'
  BY DEF StartCycle, IInv, TypeOK, LoopPC, rowVars, lineVars, opVars, stopVars
<1>2. \A r \in Calls : RowInv(r)'
  BY RowsOutOfHand DEF StartCycle, DialPC, rowVars, stopVars
<1>3. LoopInv'
  BY DEF StartCycle, LoopInv, IInv, DialPC
<1> QED
  BY <1>1, <1>2, <1>3, LoopKeeps DEF StartCycle

LEMMA ReapAIInv ==
  ASSUME IInv, NEW r \in Calls, ReapA(r)
  PROVE  IInv'
<1>1. TypeOK'
  BY DEF ReapA, Visit, EndCycle, Write, IInv, TypeOK, LoopPC, Status, Active, Terminal,
         lineVars, opVars, stopVars
<1>2. /\ pc = "reapA" /\ pc' \in {"reapA", "idle"} /\ won = {} /\ won' = {} /\ cur' = cur
      /\ UNCHANGED <<outcome, placed, cut, sess, line>>
  BY DEF ReapA, Visit, EndCycle, IInv, LoopInv, lineVars, stopVars
<1>3. ASSUME NEW q \in Calls PROVE RowInv(q)'
  <2>1. CASE status'[q] = status[q] \/ status'[q] \in Terminal
    BY <1>2, <2>1, RowsOutOfHand DEF DialPC
  <2>2. CASE q = r /\ r \in Stranded /\ status'[q] = "pending"
    <3>1. RowInv(q) /\ MayDial(q) /\ outcome[q] = 0
      BY <1>2, <2>2 DEF IInv, MayDial, Stranded, InHand, DialPC
    <3> QED
      BY <1>2, <2>2, <3>1 DEF RowInv, Latest
  <2>3. \/ status'[q] = status[q]
        \/ q = r /\ r \in Stranded /\ status'[q] \in {"pending", "failed"}
    BY DEF ReapA, Write, IInv, TypeOK
  <2> QED
    BY <2>1, <2>2, <2>3 DEF Terminal
<1>4. LoopInv'
  BY <1>2 DEF LoopInv, DialPC
<1> QED
  BY <1>1, <1>2, <1>3, <1>4, LoopKeeps DEF ReapA

LEMMA SelectBIInv ==
  ASSUME IInv, SelectB
  PROVE  IInv'
<1>1. TypeOK'
  BY DEF SelectB, IInv, TypeOK, LoopPC, rowVars, lineVars, opVars, stopVars
<1>2. \A r \in Calls : RowInv(r)'
  BY RowsOutOfHand DEF SelectB, DialPC, rowVars, stopVars
<1>3. LoopInv'
  BY DEF SelectB, LoopInv, IInv, DialPC, rowVars
<1> QED
  BY <1>1, <1>2, <1>3, LoopKeeps DEF SelectB

(* The session a recorded row points to exists. *)
LEMMA ReadSessionIInv ==
  ASSUME IInv, NEW r \in Calls, ReadSession(r)
  PROVE  IInv'
<1> DEFINE v == sess[LeadOf[r]][outcome[r]]
<1>1. outcome[r] \in 1..Latest(LeadOf[r])
  <2>1. outcome[r] # 0 /\ outcome[r] <= Latest(LeadOf[r]) /\ outcome[r] \in Nat
    BY DEF ReadSession, IInv, LoopInv, RowInv, TypeOK
  <2> QED
    BY <2>1, SessionLength, LeadOfRow DEF IInv
<1>2. v \in SessStatus
  BY <1>1, LeadOfRow, ElementOfSeq DEF IInv, TypeOK, Latest
<1> HIDE DEF v
<1>3. \/ Visit(r)
      \/ pc' = "resolve" /\ cur' = r /\ seen' = v /\ todo' = todo \ {r} /\ UNCHANGED <<won, call>>
  BY DEF ReadSession, v
<1>4. TypeOK'
  BY <1>2, <1>3 DEF ReadSession, Visit, IInv, TypeOK, LoopPC, rowVars, lineVars, opVars, stopVars
<1>5. pc = "reapB" /\ pc' \in {"reapB", "resolve"} /\ won' = won
  BY <1>3 DEF ReadSession, Visit
<1>6. \A q \in Calls : RowInv(q)'
  BY <1>5, RowsOutOfHand DEF ReadSession, DialPC, rowVars, stopVars
<1>7. LoopInv'
  BY <1>3, <1>5 DEF ReadSession, Visit, LoopInv, IInv, DialPC, rowVars
<1> QED
  BY <1>4, <1>5, <1>6, <1>7, LoopKeeps DEF ReadSession

LEMMA ReapBIInv ==
  ASSUME IInv, ReapB
  PROVE  IInv'
<1>1. cur \in Calls
  BY DEF ReapB, IInv, LoopInv
<1>2. /\ status' \in [Calls -> Status]
      /\ \A q \in Calls : status'[q] = status[q] \/ status'[q] \in Terminal
  BY <1>1, ResolveFacts DEF ReapB, IInv
<1>3. TypeOK'
  BY <1>2 DEF ReapB, IInv, TypeOK, LoopPC, SessStatus, lineVars, opVars, stopVars
<1>4. \A q \in Calls : RowInv(q)'
  BY <1>2, RowsOutOfHand DEF ReapB, DialPC, stopVars
<1>5. LoopInv'
  <2>1. won' = {} /\ pc' = "reapB"
    BY DEF ReapB, IInv, LoopInv
  <2>2. \A r \in todo : outcome[r] # 0
    BY DEF ReapB, IInv, LoopInv
  <2> QED
    BY <2>1, <2>2 DEF ReapB, LoopInv, DialPC
<1> QED
  BY <1>3, <1>4, <1>5, LoopKeeps DEF ReapB

-----------------------------------------------------------------------------
(* The claim *)

LEMMA SelectDueIInv ==
  ASSUME IInv, NEW due \in SUBSET Calls, SelectDue(due)
  PROVE  IInv'
<1>1. TypeOK'
  BY DEF SelectDue, IInv, TypeOK, LoopPC, rowVars, lineVars, opVars, stopVars
<1>2. \A r \in Calls : RowInv(r)'
  BY RowsOutOfHand DEF SelectDue, DialPC, rowVars, stopVars
<1>3. LoopInv'
  BY DEF SelectDue, LoopInv, IInv, DialPC, rowVars
<1> QED
  BY <1>1, <1>2, <1>3, LoopKeeps DEF SelectDue

LEMMA ClaimIInv ==
  ASSUME IInv, NEW r \in Calls, Claim(r)
  PROVE  IInv'
<1>1. \/ UNCHANGED status /\ (Visit(r) \/ EndCycle)
      \/ /\ status[r] = "pending" /\ Write(r, "in_progress") /\ won' = won \union {r}
         /\ todo' = todo \ {r} /\ UNCHANGED <<pc, cur, seen, call>>
  BY DEF Claim
<1>2. TypeOK'
  BY <1>1 DEF Claim, Visit, EndCycle, Write, IInv, TypeOK, LoopPC, Status, Active,
              lineVars, opVars, stopVars
<1>3. /\ pc = "claim" /\ pc' \in {"claim", "idle"} /\ cur' = cur
      /\ pc' = "idle" => won' = {}
      /\ UNCHANGED <<outcome, placed, cut, sess, lineVars>>
  BY <1>1 DEF Claim, Visit, EndCycle, stopVars
<1>4. ASSUME NEW q \in Calls PROVE RowInv(q)'
  <2>1. CASE status' = status /\ won' \subseteq won
    BY <1>3, <2>1, RowsOutOfHand DEF DialPC
  <2>2. CASE status[r] = "pending" /\ Write(r, "in_progress") /\ won' = won \union {r}
    <3>1. RowInv(q) /\ (q = r => MayDial(q) /\ outcome[q] = 0)
      BY <2>2 DEF IInv, MayDial, RowInv
    <3>2. status'[q] = IF q = r THEN "in_progress" ELSE status[q]
      BY <2>2 DEF Write, IInv, TypeOK
    <3> QED
      BY <1>3, <2>2, <3>1, <3>2 DEF RowInv, MayDial, InHand, DialPC, Latest
  <2> QED
    BY <1>1, <2>1, <2>2 DEF Visit, EndCycle
<1>5. LoopInv'
  BY <1>3 DEF LoopInv, DialPC
<1> QED
  BY <1>2, <1>3, <1>4, <1>5, LoopKeeps

LEMMA StartDialingIInv ==
  ASSUME IInv, StartDialing
  PROVE  IInv'
<1>1. TypeOK'
  BY DEF StartDialing, IInv, TypeOK, LoopPC, rowVars, lineVars, opVars, stopVars
<1>2. \A r \in Calls : RowInv(r)'
  BY RowsOutOfHand DEF StartDialing, DialPC, rowVars, stopVars
<1>3. LoopInv'
  BY DEF StartDialing, LoopInv, DialPC
<1> QED
  BY <1>1, <1>2, <1>3, LoopKeeps DEF StartDialing

-----------------------------------------------------------------------------
(* The dial *)

(* A row won is still owed its dial: back in the queue it stays so. *)
LEMMA ForgoIInv ==
  ASSUME IInv, NEW r \in Calls, Forgo(r)
  PROVE  IInv'
<1>1. PICK new \in {"pending", "cancelled", "failed"} : Write(r, new)
  BY DEF Forgo
<1>2. \A q \in Calls : status'[q] = IF q = r THEN new ELSE status[q]
  BY <1>1 DEF Write, IInv, TypeOK
<1>3. TypeOK'
  BY <1>1 DEF Forgo, Drop, Write, IInv, TypeOK, Status, Active, Terminal, lineVars, opVars, stopVars
<1>4. /\ pc = "dial" /\ pc' = pc /\ cur' = cur /\ won' = won \ {r} /\ r \in won
      /\ UNCHANGED <<outcome, placed, cut, sess, lineVars>>
  BY DEF Forgo, Drop, stopVars
<1>5. ASSUME NEW q \in Calls PROVE RowInv(q)'
  <2>1. CASE q # r
    BY <1>2, <1>4, <2>1, RowsOutOfHand DEF DialPC
  <2>2. CASE q = r
    <3>1. RowInv(r) /\ MayDial(r) /\ outcome[r] = 0
      BY <1>4 DEF IInv, MayDial, RowInv
    <3> QED
      BY <1>4, <2>2, <3>1 DEF RowInv, Latest
  <2> QED
    BY <2>1, <2>2
<1>6. LoopInv'
  BY <1>4 DEF LoopInv, DialPC
<1> QED
  BY <1>3, <1>4, <1>5, <1>6, LoopKeeps

(* A dial begins on a free lock, which nobody's row is on. *)
LEMMA SeizeFacts ==
  ASSUME IInv, NEW l \in Leads, NEW who \in Calls \union {Manual},
         ActiveSessions(l) = {}, Seize(l, who)
  PROVE  /\ by[l] = Manual
         /\ line' \in [Leads -> {"free"} \union Requests] /\ rung' = rung
         /\ by' \in [Leads -> Calls \union {Manual}]
         /\ line'[l] = "first" /\ by'[l] = who
         /\ \A k \in Leads : k # l => line'[k] = line[k] /\ by'[k] = by[k]
         /\ Latest(l)' > 0
         /\ \A k \in Leads : Latest(k)' \in Nat /\ Latest(k)' >= Latest(k)
<1>1. by[l] = Manual
  BY DEF Seize, IInv, LineInv
<1>2. \A k \in Leads : /\ Latest(k) \in Nat
                       /\ Latest(k)' = IF k = l THEN Latest(k) + 1 ELSE Latest(k)
  BY SessionBegins, SessionLength DEF IInv
<1>3. Latest(l)' > 0 /\ \A k \in Leads : Latest(k)' \in Nat /\ Latest(k)' >= Latest(k)
  BY <1>2
<1>4. /\ line' \in [Leads -> {"free"} \union Requests] /\ rung' = rung
      /\ by' \in [Leads -> Calls \union {Manual}]
      /\ line'[l] = "first" /\ by'[l] = who
      /\ \A k \in Leads : k # l => line'[k] = line[k] /\ by'[k] = by[k]
  BY DEF Seize, IInv, TypeOK, Requests
<1> QED
  BY <1>1, <1>3, <1>4

LEMMA BeginDialIInv ==
  ASSUME IInv, NEW r \in Calls, BeginDial(r)
  PROVE  IInv'
<1> DEFINE l == LeadOf[r]
<1>1. /\ l \in Leads /\ ActiveSessions(l) = {} /\ Seize(l, r) /\ r \in won /\ pc = "dial"
      /\ pc' = "dialing" /\ cur' = r /\ call' = Latest(l) + 1 /\ won' = won \ {r}
      /\ UNCHANGED <<status, outcome, placed, cut>>
  BY LeadOfRow DEF BeginDial, GuardsPass, rowVars, stopVars
<1> HIDE DEF l
<1>2. /\ line' \in [Leads -> {"free"} \union Requests] /\ rung' = rung
      /\ by' \in [Leads -> Calls \union {Manual}]
      /\ line'[l] = "first" /\ by'[l] = r
      /\ \A k \in Leads : k # l => line'[k] = line[k] /\ by'[k] = by[k]
      /\ Latest(l)' > 0
      /\ \A k \in Leads : Latest(k)' \in Nat /\ Latest(k)' >= Latest(k)
  BY <1>1, SeizeFacts
<1>3. /\ sess' \in [Leads -> Seq(SessStatus)] /\ \A k \in Leads : SessInv(k)'
      /\ Latest(l)' = Latest(l) + 1 /\ Latest(l) \in Nat
  BY <1>1, SessionBegins, SessionLength DEF IInv
<1>4. TypeOK'
  <2>1. TypeOK
    BY DEF IInv
  <2>2. /\ status' \in [Calls -> Status] /\ outcome' \in [Calls -> Nat]
        /\ pc' \in LoopPC /\ cur' \in Calls \union {NoRow} /\ won' \subseteq Calls
    BY <1>1, <2>1 DEF TypeOK, LoopPC
  <2>3. call' \in Nat
    BY <1>1, <1>3
  <2> QED BY <1>1, <1>2, <1>3, <2>1, <2>2, <2>3 DEF BeginDial, TypeOK, rowVars, opVars, stopVars
<1>5. RowInv(r) /\ MayDial(r) /\ outcome[r] = 0 /\ status[r] \notin {"absent", "pending"}
  BY <1>1 DEF IInv, RowInv, MayDial
<1>6. ASSUME NEW q \in Calls PROVE RowInv(q)'
  <2>1. CASE q = r
    BY <1>1, <1>3, <1>5, <2>1 DEF RowInv, l
  <2>2. CASE q # r
    BY <1>1, <1>2, <2>2, RowQuiet, LeadOfRow DEF InHand, DialPC
  <2> QED
    BY <2>1, <2>2
<1>7. LoopInv'
  BY <1>1, <1>2, <1>3, <1>5 DEF LoopInv, DialPC, l
<1>8. ASSUME NEW k \in Leads PROVE LineInv(k)'
  <2>1. CASE k = l
    BY <1>1, <1>2, <2>1 DEF LineInv, l
  <2>2. CASE k # l
    <3>1. by[k] = Manual /\ (line[k] # "free" => Latest(k) > 0) /\ Latest(k) \in Nat
      BY <1>1, SessionLength DEF IInv, LineInv
    <3> QED
      BY <1>2, <2>2, <3>1 DEF LineInv
  <2> QED
    BY <2>1, <2>2
<1> QED
  BY <1>3, <1>4, <1>6, <1>7, <1>8 DEF IInv

LEMMA ManualDialIInv ==
  ASSUME IInv, NEW l \in Leads, ManualDial(l)
  PROVE  IInv'
<1>1. /\ ActiveSessions(l) = {} /\ Seize(l, Manual)
      /\ UNCHANGED <<status, outcome, placed, cut, pc, todo, won, cur, call>>
  BY DEF ManualDial, GuardsPass, rowVars, loopVars, stopVars
<1>2. /\ by[l] = Manual
      /\ line' \in [Leads -> {"free"} \union Requests] /\ rung' = rung
      /\ by' \in [Leads -> Calls \union {Manual}]
      /\ line'[l] = "first" /\ by'[l] = Manual
      /\ \A k \in Leads : k # l => line'[k] = line[k] /\ by'[k] = by[k]
      /\ Latest(l)' > 0
      /\ \A k \in Leads : Latest(k)' \in Nat /\ Latest(k)' >= Latest(k)
  BY <1>1, SeizeFacts
<1>3. sess' \in [Leads -> Seq(SessStatus)] /\ \A k \in Leads : SessInv(k)'
  BY <1>1, SessionBegins
<1>4. TypeOK'
  BY <1>2, <1>3 DEF ManualDial, IInv, TypeOK, rowVars, loopVars, opVars, stopVars
<1>5. pc = "dialing" => cur \in Calls /\ LeadOf[cur] # l
  BY <1>2, NameAssumption DEF IInv, LoopInv, DialPC
<1>6. ASSUME NEW q \in Calls PROVE RowInv(q)'
  BY <1>1, <1>2, <1>5, RowQuiet, LeadOfRow DEF InHand
<1>7. LoopInv'
  <2>1. pc \in DialPC => cur \in Calls /\ LeadOf[cur] \in Leads /\ call <= Latest(LeadOf[cur])'
    <3>1. pc \in DialPC => cur \in Calls /\ LeadOf[cur] \in Leads /\ call <= Latest(LeadOf[cur])
      BY LeadOfRow DEF IInv, LoopInv
    <3>2. \A k \in Leads : Latest(k) \in Nat /\ call \in Nat
      BY SessionLength DEF IInv, TypeOK
    <3> QED
      BY <1>1, <1>2, <3>1, <3>2
  <2> QED
    BY <1>1, <1>2, <1>5, <2>1 DEF LoopInv, IInv, DialPC
<1>8. ASSUME NEW k \in Leads PROVE LineInv(k)'
  <2>1. CASE k = l
    BY <1>2, <2>1 DEF LineInv
  <2>2. CASE k # l
    <3>1. LineInv(k) /\ Latest(k) \in Nat
      BY SessionLength DEF IInv
    <3> QED
      BY <1>1, <1>2, <2>2, <3>1 DEF LineInv
  <2> QED
    BY <2>1, <2>2
<1> QED
  BY <1>3, <1>4, <1>6, <1>7, <1>8 DEF IInv

(* A step of a dial in progress that leaves its lock taken. *)
LEMMA DialGoesOn ==
  ASSUME IInv, TypeOK', NEW l \in Leads, line[l] # "free",
         UNCHANGED <<status, outcome, sess, loopVars, by, cut>>,
         \A k \in Leads : k # l => line'[k] = line[k] /\ rung'[k] = rung[k],
         line'[l] # "free", rung[l] \subseteq rung'[l],
         \A q \in Calls : by[l] # q \/ rung[l] # {} => placed'[q] = placed[q],
         \A q \in Calls : by[l] = q /\ rung[l] = {} =>
           placed'[q] = placed[q] \/ (placed'[q] = placed[q] + 1 /\ rung'[l] # {})
  PROVE  IInv'
<1>1. \A k \in Leads : Latest(k)' = Latest(k) /\ Latest(k) \in Nat
  BY SessionLength DEF Latest, IInv
<1>2. ASSUME NEW q \in Calls PROVE RowInv(q)'
  <2>1. CASE placed'[q] = placed[q]
    <3>1. rung'[LeadOf[q]] = {} => rung[LeadOf[q]] = {}
      BY LeadOfRow
    <3> QED
      BY <1>1, <2>1, <3>1, RowQuiet, LeadOfRow DEF InHand, loopVars
  <2>2. CASE by[l] = q /\ rung[l] = {} /\ placed'[q] = placed[q] + 1 /\ rung'[l] # {}
    <3>1. cur = q /\ pc = "dialing" /\ LeadOf[q] = l /\ q \notin won
          /\ status[q] \notin {"absent", "pending"}
      BY <2>2, NameAssumption DEF IInv, LineInv, LoopInv, DialPC
    <3>2. RowInv(q) /\ MayDial(q)
      BY <2>2, <3>1 DEF IInv, MayDial, InHand, DialPC
    <3>3. placed[q] <= cut[q] /\ placed[q] \in Nat /\ cut[q] \in Nat
      BY <3>2 DEF RowInv, IInv, TypeOK
    <3>4. ~MayDial(q)'
      BY <2>2, <3>1, LeadOfRow DEF MayDial, InHand, DialPC, loopVars
    <3>5. outcome[q] <= Latest(LeadOf[q])'
      BY <1>1, <3>2, LeadOfRow DEF RowInv
    <3> QED
      BY <2>2, <3>1, <3>3, <3>4, <3>5 DEF RowInv, loopVars
  <2> QED
    BY <2>1, <2>2
<1>3. LoopInv'
  BY <1>1, LeadOfRow DEF LoopInv, IInv, loopVars, DialPC
<1>4. ASSUME NEW k \in Leads PROVE LineInv(k)'
  BY <1>1 DEF LineInv, IInv, loopVars
<1>5. \A k \in Leads : SessInv(k)'
  BY DEF SessInv, IInv
<1> QED
  BY <1>2, <1>3, <1>4, <1>5 DEF IInv

(* Being called is what a row's standing is spent on, by the first of the two
   requests of a dial that the provider carries out. *)
LEMMA PlaceCallIInv ==
  ASSUME IInv, NEW l \in Leads, PlaceCall(l)
  PROVE  IInv'
<1>1. /\ line[l] # "free" /\ rung' = [rung EXCEPT ![l] = @ \union {line[l]}]
      /\ UNCHANGED <<rowVars, sess, loopVars, line, by, opVars, stopVars>>
  BY DEF PlaceCall
<1>2. \A k \in Leads : rung'[k] = IF k = l THEN rung[k] \union {line[l]} ELSE rung[k]
  BY <1>1 DEF IInv, TypeOK
<1>3. /\ by[l] \in Calls \union {Manual}
      /\ \A q \in Calls : placed'[q] = IF by[l] = q /\ rung[l] = {} THEN placed[q] + 1
                                                                    ELSE placed[q]
      /\ placed' \in [Calls -> Nat]
  BY NameAssumption DEF PlaceCall, IInv, TypeOK
<1>4. rung' \in [Leads -> SUBSET Requests]
  <2>1. line[l] \in Requests
    BY <1>1 DEF IInv, TypeOK
  <2> QED
    BY <1>1, <2>1 DEF IInv, TypeOK
<1>5. TypeOK'
  BY <1>1, <1>3, <1>4 DEF IInv, TypeOK, rowVars, loopVars, opVars, stopVars
<1> QED
  BY <1>1, <1>2, <1>3, <1>5, DialGoesOn DEF rowVars, stopVars

(* The second request finds the row's standing as the first one left it. *)
LEMMA TransientIInv ==
  ASSUME IInv, NEW l \in Leads, Transient(l)
  PROVE  IInv'
<1>1. /\ line[l] = "first" /\ line' = [line EXCEPT ![l] = "retry"]
      /\ UNCHANGED <<rowVars, sess, loopVars, rung, by, opVars, placed, stopVars>>
  BY DEF Transient
<1>2. \A k \in Leads : line'[k] = IF k = l THEN "retry" ELSE line[k]
  BY <1>1 DEF IInv, TypeOK
<1>3. TypeOK'
  BY <1>1 DEF IInv, TypeOK, Requests, rowVars, loopVars, opVars, stopVars
<1> QED
  BY <1>1, <1>2, <1>3, DialGoesOn DEF rowVars, stopVars

(* The end of a dial, whatever it left: the lock is free, and the loop has the
   result if the dial was its own. *)
LEMMA HangUpIInv ==
  ASSUME IInv, NEW l \in Leads, NEW result \in {"accepted", "rejected"},
         line[l] # "free", HangUp(l, result), UNCHANGED <<outcome, placed, cut>>,
         status' \in [Calls -> Status], tech' \subseteq Calls,
         sess' \in [Leads -> Seq(SessStatus)], UNCHANGED opVars, UNCHANGED stops,
         \A k \in Leads : Len(sess'[k]) = Len(sess[k]) /\ SessInv(k)',
         \A r \in Calls : \/ status'[r] = status[r]
                          \/ status[r] = "absent" /\ status'[r] = "pending"
  PROVE  IInv'
<1>1. /\ \A k \in Leads : /\ line'[k] = IF k = l THEN "free" ELSE line[k]
                          /\ rung'[k] = IF k = l THEN {} ELSE rung[k]
                          /\ by'[k] = IF k = l THEN Manual ELSE by[k]
      /\ UNCHANGED <<todo, won, cur, seen, call>>
      /\ pc' = IF by[l] = Manual THEN pc ELSE result
      /\ line' \in [Leads -> {"free"} \union Requests]
      /\ rung' \in [Leads -> SUBSET Requests]
      /\ by' \in [Leads -> Calls \union {Manual}]
  BY DEF HangUp, IInv, TypeOK
<1>2. TypeOK'
  BY <1>1 DEF IInv, TypeOK, LoopPC, opVars
<1>3. \A k \in Leads : Latest(k)' = Latest(k) /\ Latest(k) \in Nat
  BY SessionLength DEF Latest, IInv
<1>4. by[l] # Manual => pc = "dialing" /\ cur \in Calls /\ by[l] = cur /\ LeadOf[cur] = l
  BY DEF IInv, LineInv, LoopInv, DialPC
<1>5. by[l] = Manual => (pc = "dialing" => cur \in Calls /\ LeadOf[cur] # l)
  BY NameAssumption DEF IInv, LoopInv, DialPC
<1>6. \A r \in Calls : InHand(r)' <=> InHand(r)
  BY <1>1, <1>4 DEF InHand, DialPC
<1>7. ASSUME NEW r \in Calls PROVE RowInv(r)'
  <2>1. CASE status'[r] = status[r]
    <3>1. InHand(r)' /\ pc' = "dialing" /\ rung'[LeadOf[r]] = {} =>
            InHand(r) /\ pc = "dialing" /\ rung[LeadOf[r]] = {}
      <4> SUFFICES ASSUME InHand(r)', pc' = "dialing", rung'[LeadOf[r]] = {}
                   PROVE  InHand(r) /\ pc = "dialing" /\ rung[LeadOf[r]] = {}
        OBVIOUS
      <4>1. by[l] = Manual /\ pc = "dialing"
        BY <1>1, <1>4
      <4>2. InHand(r) /\ cur = r
        BY <1>6 DEF InHand
      <4>3. LeadOf[r] # l
        BY <1>5, <4>1, <4>2
      <4> QED
        BY <1>1, <4>1, <4>2, <4>3, LeadOfRow
    <3>2. Latest(LeadOf[r])' \in Nat /\ Latest(LeadOf[r])' >= Latest(LeadOf[r])
      BY <1>3, LeadOfRow
    <3>3. won' \subseteq won
      BY <1>1
    <3> QED
      BY <1>6, <2>1, <3>1, <3>2, <3>3, RowQuiet
  <2>2. CASE status[r] = "absent" /\ status'[r] = "pending"
    <3>1. RowInv(r) /\ MayDial(r)
      BY <2>2 DEF IInv, MayDial
    <3> QED
      BY <1>1, <1>3, <2>2, <3>1, LeadOfRow DEF RowInv
  <2> QED
    BY <2>1, <2>2
<1>8. LoopInv'
  <2>1. pc \in DialPC => cur \in Calls /\ LeadOf[cur] \in Leads
    BY LeadOfRow DEF IInv, LoopInv
  <2>2. pc' \in DialPC <=> pc \in DialPC
    BY <1>1, <1>4 DEF DialPC
  <2>3. pc' = pc \/ pc' \in {"accepted", "rejected"}
    BY <1>1
  <2>4. pc' = "dialing" => by'[LeadOf[cur]] = cur
    BY <1>1, <1>5, <2>1, <2>3 DEF IInv, LoopInv, DialPC
  <2>5. \A r \in Calls : status[r] \notin {"absent", "pending"} =>
                         status'[r] \notin {"absent", "pending"}
    OBVIOUS
  <2> QED
    BY <1>1, <1>3, <2>1, <2>2, <2>3, <2>4, <2>5 DEF LoopInv, IInv
<1>9. ASSUME NEW k \in Leads PROVE LineInv(k)'
  <2>1. CASE k = l
    BY <1>1, <2>1 DEF LineInv
  <2>2. CASE k # l
    <3>1. LineInv(k) /\ (by[k] # Manual => by[l] = Manual)
      BY <1>4, <2>2 DEF IInv, LineInv
    <3> QED
      BY <1>1, <1>3, <2>2, <3>1 DEF LineInv
  <2> QED
    BY <2>1, <2>2
<1> QED
  BY <1>2, <1>7, <1>8, <1>9 DEF IInv

LEMMA AnsweredIInv ==
  ASSUME IInv, NEW l \in Leads, Accepted(l) \/ Raises(l)
  PROVE  IInv'
<1>1. PICK result \in {"accepted", "rejected"} : HangUp(l, result)
  BY DEF Accepted, Raises
<1>2. UNCHANGED <<rowVars, sess, opVars, placed, stopVars>>
  BY DEF Accepted, Raises
<1>3. \A k \in Leads : Len(sess'[k]) = Len(sess[k]) /\ SessInv(k)'
  BY <1>2 DEF SessInv, IInv
<1>4. status' \in [Calls -> Status] /\ tech' \subseteq Calls /\ sess' \in [Leads -> Seq(SessStatus)]
  BY <1>2 DEF IInv, TypeOK, rowVars
<1>5. line[l] # "free"
  <2>1. rung[l] \subseteq {"first", "retry"}
    BY DEF IInv, TypeOK, Requests
  <2> QED
    BY <2>1 DEF Accepted, Raises
<1> QED
  BY <1>1, <1>2, <1>3, <1>4, <1>5, HangUpIInv DEF rowVars, stopVars

LEMMA FailedIInv ==
  ASSUME IInv, NEW l \in Leads, Failed(l)
  PROVE  IInv'
<1>1. Latest(l) \in DOMAIN sess[l]
  BY SessionLength DEF Failed, IInv, LineInv
<1>2. /\ sess' \in [Leads -> Seq(SessStatus)]
      /\ \A k \in Leads : Len(sess'[k]) = Len(sess[k]) /\ SessInv(k)'
  BY <1>1, SessionEnds DEF Failed, SessStatus
<1>3. /\ status' \in [Calls -> Status] /\ tech' \subseteq Calls
      /\ \A r \in Calls : \/ status'[r] = status[r]
                          \/ status[r] = "absent" /\ status'[r] = "pending"
  <2>1. CASE UNCHANGED <<status, tech>>
    BY <2>1 DEF IInv, TypeOK
  <2>2. CASE \E r \in RowsOf(l) : /\ status[r] = "absent" /\ Write(r, "pending")
                                  /\ tech' = tech \union {r}
    BY <2>2 DEF IInv, TypeOK, RowsOf, Write, Status, Active
  <2> QED
    BY <2>1, <2>2 DEF Failed
<1> QED
  BY <1>2, <1>3, HangUpIInv DEF Failed, stopVars

(* The row in hand gets its session: it is never claimable again. *)
LEMMA RecordOutcomeIInv ==
  ASSUME IInv, RecordOutcome
  PROVE  IInv'
<1>1. /\ pc = "accepted" /\ pc' = "dial" /\ cur' = NoRow /\ won' = won
      /\ outcome' = [outcome EXCEPT ![cur] = call]
      /\ UNCHANGED <<status, placed, cut, sess, lineVars>>
  BY DEF RecordOutcome, stopVars
<1>2. /\ cur \in Calls /\ cur \notin won /\ call > 0 /\ call <= Latest(LeadOf[cur])
      /\ status[cur] \notin {"absent", "pending"}
  BY <1>1 DEF IInv, LoopInv, DialPC
<1>3. \A q \in Calls : outcome'[q] = IF q = cur THEN call ELSE outcome[q]
  BY <1>1 DEF IInv, TypeOK
<1>4. TypeOK'
  BY <1>2 DEF RecordOutcome, IInv, TypeOK, LoopPC, lineVars, opVars, stopVars
<1>5. \A k \in Leads : Latest(k)' = Latest(k) /\ Latest(k) \in Nat
  BY <1>1, SessionLength DEF Latest, IInv
<1>6. ASSUME NEW q \in Calls PROVE RowInv(q)'
  <2>1. CASE q = cur
    <3>1. RowInv(q)
      BY DEF IInv
    <3>2. ~MayDial(q)'
      BY <1>1, <1>2, <1>3, <2>1 DEF MayDial, InHand, DialPC, IInv, TypeOK
    <3> QED
      BY <1>1, <1>2, <1>3, <1>5, <2>1, <3>1, <3>2, LeadOfRow DEF RowInv
  <2>2. CASE q # cur
    BY <1>1, <1>3, <1>5, <2>2, RowQuiet, LeadOfRow DEF InHand, DialPC
  <2> QED
    BY <2>1, <2>2
<1>7. LoopInv'
  BY <1>1 DEF LoopInv, DialPC
<1> QED
  BY <1>1, <1>4, <1>6, <1>7, LoopKeeps

LEMMA FailRowIInv ==
  ASSUME IInv, FailRow
  PROVE  IInv'
<1>1. /\ pc = "rejected" /\ pc' = "dial" /\ cur' = NoRow /\ won' = won /\ Write(cur, "failed")
      /\ UNCHANGED <<outcome, placed, cut, sess, lineVars>>
  BY DEF FailRow, stopVars
<1>2. cur \in Calls
  BY <1>1 DEF IInv, LoopInv, DialPC
<1>3. \A q \in Calls : status'[q] = IF q = cur THEN "failed" ELSE status[q]
  BY <1>1 DEF Write, IInv, TypeOK
<1>4. TypeOK'
  BY DEF FailRow, Write, IInv, TypeOK, Status, Terminal, LoopPC, lineVars, opVars, stopVars
<1>5. \A k \in Leads : Latest(k)' = Latest(k) /\ Latest(k) \in Nat
  BY <1>1, SessionLength DEF Latest, IInv
<1>6. ASSUME NEW q \in Calls PROVE RowInv(q)'
  BY <1>1, <1>3, <1>5, RowQuiet, LeadOfRow DEF InHand, DialPC, Terminal
<1>7. LoopInv'
  BY <1>1 DEF LoopInv, DialPC
<1> QED
  BY <1>1, <1>4, <1>6, <1>7, LoopKeeps

LEMMA RestIInv ==
  ASSUME IInv, Rest
  PROVE  IInv'
<1>1. TypeOK'
  BY DEF Rest, EndCycle, IInv, TypeOK, LoopPC, rowVars, lineVars, opVars, stopVars
<1>2. \A r \in Calls : RowInv(r)'
  BY RowsOutOfHand DEF Rest, EndCycle, DialPC, rowVars, stopVars
<1>3. LoopInv'
  BY DEF Rest, EndCycle, LoopInv, DialPC
<1> QED
  BY <1>1, <1>2, <1>3, LoopKeeps DEF Rest

(* A stop gives the row in hand its standing back, and pays for it. *)
LEMMA StopIInv ==
  ASSUME IInv, Stop
  PROVE  IInv'
<1>1. TypeOK'
  BY DEF Stop, IInv, TypeOK, LoopPC, SessStatus, rowVars
<1>2. /\ pc' = "idle" /\ won' = {} /\ UNCHANGED <<rowVars, sess, placed>>
      /\ \A l \in Leads : line'[l] = "free" /\ by'[l] = Manual
      /\ \A r \in Calls : cut'[r] = IF CutShort(r) THEN cut[r] + 1 ELSE cut[r]
  BY DEF Stop
<1>3. ASSUME NEW r \in Calls PROVE RowInv(r)'
  <2>1. RowInv(r) /\ placed[r] \in Nat /\ cut[r] \in Nat
    BY DEF IInv, TypeOK
  <2>2. placed[r] <= 1 + cut'[r]
    BY <1>2, <2>1 DEF RowInv
  <2>3. ASSUME MayDial(r)' PROVE placed[r] <= cut'[r]
    <3>1. CASE CutShort(r)
      BY <1>2, <2>1, <3>1 DEF RowInv
    <3>2. CASE ~CutShort(r)
      <4>1. MayDial(r)
        <5>1. \/ status[r] \in {"absent", "pending"}
              \/ status[r] = "in_progress" /\ outcome[r] = 0
          BY <1>2, <2>3 DEF MayDial, InHand, DialPC, rowVars
        <5>2. CASE ~InHand(r)
          BY <5>1, <5>2 DEF MayDial
        <5>3. CASE InHand(r)
          <6>1. pc = "dialing"
            BY <3>2, <5>3 DEF CutShort, InHand, DialPC
          <6>2. by[LeadOf[r]] = r
            BY <5>3, <6>1 DEF InHand, IInv, LoopInv
          <6>3. rung[LeadOf[r]] = {}
            BY <3>2, <6>2, LeadOfRow DEF CutShort
          <6> QED
            BY <5>3, <6>1, <6>3 DEF MayDial
        <5> QED
          BY <5>2, <5>3
      <4> QED
        BY <1>2, <2>1, <3>2, <4>1 DEF RowInv
    <3> QED
      BY <3>1, <3>2
  <2> QED
    BY <1>2, <2>1, <2>2, <2>3 DEF RowInv, rowVars, Latest
<1>4. LoopInv'
  BY <1>2 DEF LoopInv, DialPC
<1>5. \A l \in Leads : LineInv(l)' /\ SessInv(l)'
  BY <1>2 DEF LineInv, SessInv, IInv
<1> QED
  BY <1>1, <1>3, <1>4, <1>5 DEF IInv

-----------------------------------------------------------------------------
(* Every step *)

LEMMA StutterIInv ==
  ASSUME IInv, UNCHANGED vars
  PROVE  IInv'
<1>1. TypeOK'
  BY DEF vars, rowVars, loopVars, lineVars, opVars, stopVars, IInv, TypeOK
<1>2. \A l \in Leads : Len(sess'[l]) = Len(sess[l]) /\ SessInv(l)'
  BY DEF vars, SessInv, IInv
<1> QED
  BY <1>1, <1>2, WorldKeeps DEF vars, rowVars, stopVars

LEMMA LoopStepIInv ==
  ASSUME IInv, LoopStep
  PROVE  IInv'
BY ReapAIInv, ReadSessionIInv, ClaimIInv, ForgoIInv, BeginDialIInv, SelectBIInv, ReapBIInv,
   SelectDueIInv, StartDialingIInv, RecordOutcomeIInv, FailRowIInv, RestIInv DEF LoopStep

THEOREM DialerInductive == Spec => []IInv
<1>1. IInv /\ [Next]_vars => IInv'
  <2> SUFFICES ASSUME IInv, [Next]_vars PROVE IInv'
    OBVIOUS
  <2>1. CASE \E r \in Calls : \/ Create(r) \/ OpWrite(r)
                              \/ \E new \in {"cancelled", "completed"} : OpCheck(r, new)
    BY <2>1, CreateIInv, OperatorIInv
  <2>2. CASE \E l \in Leads : ManualDial(l) \/ LineStep(l)
    BY <2>2, ManualDialIInv, PlaceCallIInv, TransientIInv, AnsweredIInv, FailedIInv DEF LineStep
  <2>3. CASE \E l \in Leads, n \in 1..MaxDials : SessionStep(l, n)
    BY <2>3, CloseSessionIInv, SessionIInv DEF SessionStep
  <2>4. CASE \E timedOut \in SUBSET Calls : StartCycle(timedOut)
    BY <2>4, StartCycleIInv
  <2>5. CASE LoopStep \/ Stop
    BY <2>5, LoopStepIInv, StopIInv
  <2>6. CASE UNCHANGED vars
    BY <2>6, StutterIInv
  <2> QED
    BY <2>1, <2>2, <2>3, <2>4, <2>5, <2>6 DEF Next
<1> QED
  BY InitIInv, <1>1, PTL DEF Spec

-----------------------------------------------------------------------------
(* What follows for every behaviour *)

(* Every variable keeps its type; in particular the session the reaper reads
   exists. *)
THEOREM DialerTypeCorrect == Spec => []TypeOK
<1>1. IInv => TypeOK
  BY DEF IInv
<1> QED
  BY <1>1, DialerInductive, PTL

(* Two dials of a row make the provider call only if a stop cut one short. *)
THEOREM RedialsAccounted == Spec => []NoUnaccountedRedial
<1>1. IInv => NoUnaccountedRedial
  BY DEF IInv, RowInv, NoUnaccountedRedial
<1> QED
  BY <1>1, DialerInductive, PTL

(* A row with a recorded session is never claimable again. *)
THEOREM RecordedIsFinal == Spec => []RecordedNotRequeued
<1>1. IInv => RecordedNotRequeued
  BY DEF IInv, RowInv, RecordedNotRequeued
<1> QED
  BY <1>1, DialerInductive, PTL

(* A lead has at most one live call, whoever dialed it. *)
THEOREM OneCallPerLead == Spec => []OneLiveCall
<1>1. IInv => OneLiveCall
  <2> SUFFICES ASSUME IInv, NEW l \in Leads PROVE Cardinality(ActiveSessions(l)) <= 1
    BY DEF OneLiveCall
  <2>1. \A m, n \in ActiveSessions(l) : m = n
    BY DEF IInv, SessInv, ActiveSessions
  <2>2. CASE ActiveSessions(l) = {}
    BY <2>2, FS_EmptySet
  <2>3. CASE ActiveSessions(l) # {}
    <3>1. PICK n : n \in ActiveSessions(l)
      BY <2>3
    <3>2. ActiveSessions(l) = {n}
      BY <2>1, <3>1
    <3>3. Cardinality({n}) = 1
      BY FS_Singleton
    <3> QED
      BY <3>2, <3>3
  <2> QED
    BY <2>2, <2>3
<1> QED
  BY <1>1, DialerInductive, PTL

-----------------------------------------------------------------------------
(* Rows that ended, and parked technical retries.  The dial never reads again
   the status of the row it won (Forgo), so what has to be carried is that such
   a row is still in progress, operators apart. *)

ParkedUnique ==
  \A q, r \in tech \ touched :
    LeadOf[q] = LeadOf[r] /\ status[q] \in Active /\ status[r] \in Active => q = r

QueueInv ==
  /\ \A r \in tech \ touched : status[r] # "absent"
  /\ \A r \in Calls : op[r] # "none" => r \in touched
  /\ \A r \in won \ touched : status[r] = "in_progress"
  /\ ParkedUnique

(* What a step does with the status of a row no operator wrote. *)
RowStep(r) ==
  /\ status[r] \in Terminal => status'[r] \in Terminal
  /\ status[r] # "absent" => status'[r] # "absent"
  /\ r \in won' => status'[r] = "in_progress"

LEMMA Disjoint == "absent" \notin Terminal /\ "absent" \notin Active /\ Active \cap Terminal = {}
BY DEF Active, Terminal

(* Statuses stay, or become terminal on rows that are not won. *)
LEMMA QuietRow ==
  ASSUME QueueInv, NEW r \in Calls \ touched, won' \subseteq won,
         status'[r] = status[r] \/ (status'[r] \in Terminal /\ r \notin won')
  PROVE  RowStep(r)
BY Disjoint DEF QueueInv, RowStep

LEMMA CloseSessionRow ==
  ASSUME IInv, QueueInv, NEW l \in Leads, NEW n \in 1..MaxDials, CloseSession(l, n),
         NEW r \in Calls \ touched
  PROVE  RowStep(r)
<1>1. won' = won /\ n # 0
  BY DEF CloseSession, loopVars
<1>2. CASE UNCHANGED status
  BY <1>1, <1>2, QuietRow
<1>3. CASE \E q \in Linked(l, n), v \in SessStatus : Resolve(q, v)
  <2>1. PICK q \in Linked(l, n), v \in SessStatus : Resolve(q, v)
    BY <1>3
  <2>2. q \in Calls /\ outcome[q] = n
    BY <2>1 DEF Linked, InProgress, RowsOf
  <2>3. q \notin won
    BY <1>1, <2>2 DEF IInv, RowInv
  <2>4. status'[r] = status[r] \/ status'[r] \in Terminal
    BY <2>1, <2>2, ResolveFacts DEF IInv
  <2>5. status'[r] = status[r] \/ r = q \/ status[r] = "pending"
    <3>1. CASE \E p \in Parked(LeadOf[q]) :
                 status' = [status EXCEPT ![q] = "completed", ![p] = "cancelled"]
      BY <2>2, <3>1 DEF Parked, RowsOf, IInv, TypeOK
    <3>2. CASE Write(q, Resolution(v))
      BY <2>2, <3>2 DEF Write, IInv, TypeOK
    <3> QED
      BY <2>1, <3>1, <3>2 DEF Resolve
  <2>6. r \in won => status'[r] = status[r]
    BY <2>3, <2>5 DEF QueueInv
  <2> QED
    BY <1>1, <2>4, <2>6, QuietRow
<1> QED
  BY <1>2, <1>3 DEF CloseSession, SessStatus

(* The queue and the operators. *)
LEMMA QueueRow ==
  ASSUME IInv, QueueInv, NEW q \in Calls, NEW r \in Calls \ touched,
         \/ Create(q) \/ OpWrite(q)
         \/ \E new \in {"cancelled", "completed"} : OpCheck(q, new)
  PROVE  RowStep(r)
<1>1. won' = won
  BY DEF Create, OpWrite, OpCheck, loopVars
<1>2. CASE Create(q)
  <2>1. status'[r] = status[r] \/ (status[r] = "absent" /\ status'[r] = "pending")
    BY <1>2 DEF Create, Write, IInv, TypeOK
  <2> QED
    BY <1>1, <2>1, Disjoint DEF RowStep, QueueInv
<1>3. CASE OpWrite(q)
  <2>1. q \in touched
    BY <1>3 DEF OpWrite, QueueInv
  <2>2. status'[r] = status[r]
    BY <1>3, <2>1 DEF OpWrite, Write, IInv, TypeOK
  <2> QED
    BY <1>1, <2>2, QuietRow
<1>4. CASE \E new \in {"cancelled", "completed"} : OpCheck(q, new)
  BY <1>1, <1>4, QuietRow DEF OpCheck, rowVars
<1> QED
  BY <1>2, <1>3, <1>4

(* The steps of a dial. *)
LEMMA LineRow ==
  ASSUME IInv, QueueInv, NEW l \in Leads, NEW r \in Calls \ touched,
         ManualDial(l) \/ LineStep(l)
  PROVE  RowStep(r)
<1>1. won' = won
  BY DEF ManualDial, LineStep, PlaceCall, Transient, Accepted, Failed, Raises, HangUp, loopVars
<1>2. CASE Failed(l)
  <2>1. \/ status'[r] = status[r]
        \/ status[r] = "absent" /\ status'[r] = "pending"
    BY <1>2 DEF Failed, Write, RowsOf, IInv, TypeOK
  <2> QED
    BY <1>1, <2>1, Disjoint DEF RowStep, QueueInv
<1>3. CASE ~Failed(l)
  BY <1>1, <1>3, QuietRow DEF ManualDial, LineStep, PlaceCall, Transient, Accepted, Raises, rowVars
<1> QED
  BY <1>2, <1>3

(* The reaper and the claim. *)
LEMMA ReaperRow ==
  ASSUME IInv, QueueInv, NEW r \in Calls \ touched,
         \/ \E timedOut \in SUBSET Calls : StartCycle(timedOut)
         \/ \E q \in Calls : ReapA(q) \/ ReadSession(q) \/ Claim(q)
         \/ SelectB \/ ReapB
         \/ \E due \in SUBSET Calls : SelectDue(due)
         \/ StartDialing \/ Rest
  PROVE  RowStep(r)
<1>1. CASE \E q \in Calls : ReapA(q)
  <2>1. PICK q \in Calls : ReapA(q)
    BY <1>1
  <2>2. won = {} /\ won' = {}
    BY <2>1 DEF ReapA, Visit, EndCycle, IInv, LoopInv
  <2>3. \/ status'[r] = status[r]
        \/ status[r] = "in_progress" /\ status'[r] \in {"pending", "failed"}
    BY <2>1 DEF ReapA, Stranded, Write, IInv, TypeOK
  <2> QED
    BY <2>2, <2>3, Disjoint DEF RowStep, Terminal
<1>2. CASE \E q \in Calls : Claim(q)
  <2>1. PICK q \in Calls : Claim(q)
    BY <1>2
  <2>2. CASE status[q] = "pending" /\ Write(q, "in_progress") /\ won' = won \union {q}
    <3>1. \A k \in Calls : status'[k] = IF k = q THEN "in_progress" ELSE status[k]
      BY <2>2 DEF Write, IInv, TypeOK
    <3> QED
      BY <2>2, <3>1 DEF RowStep, QueueInv, Terminal
  <2>3. CASE UNCHANGED status /\ won' \subseteq won
    BY <2>3, QuietRow
  <2>4. status[q] \in Status
    BY DEF IInv, TypeOK
  <2> QED
    BY <2>1, <2>2, <2>3 DEF Claim, Visit, EndCycle
<1>3. CASE ReapB
  <2>1. won = {} /\ won' = {} /\ cur \in Calls
    BY <1>3 DEF ReapB, IInv, LoopInv
  <2>2. status'[r] = status[r] \/ status'[r] \in Terminal
    BY <1>3, <2>1, ResolveFacts DEF ReapB, IInv
  <2> QED
    BY <2>1, <2>2, QuietRow
<1>4. CASE \/ \E timedOut \in SUBSET Calls : StartCycle(timedOut)
           \/ \E q \in Calls : ReadSession(q)
           \/ SelectB
           \/ \E due \in SUBSET Calls : SelectDue(due)
           \/ StartDialing \/ Rest
  <2>1. status' = status /\ won' \subseteq won
    BY <1>4 DEF StartCycle, ReadSession, SelectB, SelectDue, StartDialing, Rest, Visit,
                EndCycle, rowVars
  <2> QED
    BY <2>1, QuietRow
<1> QED
  BY <1>1, <1>2, <1>3, <1>4

(* The loop's own writes on the row it dialed. *)
LEMMA DialRow ==
  ASSUME IInv, QueueInv, NEW r \in Calls \ touched,
         \/ \E q \in Calls : Forgo(q) \/ BeginDial(q)
         \/ RecordOutcome \/ FailRow \/ Stop
  PROVE  RowStep(r)
<1>1. CASE \E q \in Calls : Forgo(q)
  <2>1. PICK q \in Calls : Forgo(q)
    BY <1>1
  <2>2. PICK new \in {"pending", "cancelled", "failed"} : Write(q, new)
    BY <2>1 DEF Forgo
  <2>3. \A k \in Calls : status'[k] = IF k = q THEN new ELSE status[k]
    BY <2>2 DEF Write, IInv, TypeOK
  <2>4. q \in won /\ won' = won \ {q}
    BY <2>1 DEF Forgo, Drop
  <2> QED
    BY <2>3, <2>4 DEF RowStep, QueueInv, Terminal
<1>2. CASE FailRow
  <2>1. cur \in Calls /\ cur \notin won /\ won' = won
    BY <1>2 DEF FailRow, IInv, LoopInv, DialPC
  <2>2. \A k \in Calls : status'[k] = IF k = cur THEN "failed" ELSE status[k]
    BY <1>2 DEF FailRow, Write, IInv, TypeOK
  <2> QED
    BY <2>1, <2>2, QuietRow DEF Terminal
<1>3. CASE (\E q \in Calls : BeginDial(q)) \/ RecordOutcome \/ Stop
  <2>1. status' = status /\ won' \subseteq won
    BY <1>3 DEF BeginDial, RecordOutcome, Stop, rowVars
  <2> QED
    BY <2>1, QuietRow
<1> QED
  BY <1>1, <1>2, <1>3

LEMMA EveryRowSteps ==
  ASSUME IInv, QueueInv, [Next]_vars, NEW r \in Calls \ touched
  PROVE  RowStep(r)
<1>1. CASE \E q \in Calls : \/ Create(q) \/ OpWrite(q)
                            \/ \E new \in {"cancelled", "completed"} : OpCheck(q, new)
  BY <1>1, QueueRow
<1>2. CASE \E l \in Leads : ManualDial(l) \/ LineStep(l)
  BY <1>2, LineRow
<1>3. CASE \E l \in Leads, n \in 1..MaxDials : SessionStep(l, n)
  <2>1. PICK l \in Leads, n \in 1..MaxDials : SessionStep(l, n)
    BY <1>3
  <2>2. CASE CloseSession(l, n)
    BY <2>2, CloseSessionRow
  <2>3. CASE CompleteSession(l, n) \/ EndSession(l, n)
    BY <2>3, QuietRow DEF CompleteSession, EndSession, rowVars, loopVars
  <2> QED
    BY <2>1, <2>2, <2>3 DEF SessionStep
<1>4. CASE \E timedOut \in SUBSET Calls : StartCycle(timedOut)
  BY <1>4, ReaperRow
<1>5. CASE LoopStep
  BY <1>5, ReaperRow, DialRow DEF LoopStep
<1>6. CASE Stop
  BY <1>6, DialRow
<1>7. CASE UNCHANGED vars
  BY <1>7, QuietRow DEF vars, rowVars, loopVars
<1> QED
  BY <1>1, <1>2, <1>3, <1>4, <1>5, <1>6, <1>7 DEF Next

(* Only a failing dial parks a retry: of its lead, and when none is active. *)
Parks(r) ==
  /\ status[r] = "absent"
  /\ \A q \in tech : LeadOf[q] = LeadOf[r] => status[q] \notin Active
  /\ \A q \in Calls : q # r => status'[q] = status[q]
  /\ status'[r] = "pending" /\ tech' = tech \union {r}

LEMMA TechSteps ==
  ASSUME IInv, [Next]_vars
  PROVE  /\ tech' = tech \/ \E r \in Calls : Parks(r)
         /\ touched \subseteq touched'
         /\ \A r \in Calls : op'[r] # "none" => op[r] # "none" \/ r \in touched'
<1>1. tech' = tech \/ \E r \in Calls : Parks(r)
  <2>1. CASE \E l \in Leads : Failed(l)
    <3>1. PICK l \in Leads : Failed(l)
      BY <2>1
    <3>2. ASSUME MayRetry(l), NEW r \in RowsOf(l), status[r] = "absent", Write(r, "pending"),
                 tech' = tech \union {r}
          PROVE  Parks(r)
      <4>1. r \in Calls /\ LeadOf[r] = l
        BY <3>2 DEF RowsOf
      <4>2. \A q \in tech : LeadOf[q] = l => status[q] \notin Active
        BY <3>2 DEF MayRetry, TechRows, RowsOf, IInv, TypeOK
      <4> QED
        BY <3>2, <4>1, <4>2 DEF Parks, Write, IInv, TypeOK
    <3> QED
      BY <3>1, <3>2 DEF Failed, RowsOf
  <2>2. CASE ~\E l \in Leads : Failed(l)
    BY <2>2 DEF Next, Create, OpCheck, OpWrite, ManualDial, LineStep, PlaceCall, Transient, Accepted,
                Raises, SessionStep, CloseSession, CompleteSession, EndSession, StartCycle, LoopStep,
                ReapA, ReadSession, Claim, Forgo, BeginDial, SelectB, ReapB, SelectDue,
                StartDialing, RecordOutcome, FailRow, Rest, Stop, vars, rowVars
  <2> QED
    BY <2>1, <2>2
<1>2. \/ UNCHANGED opVars
      \/ UNCHANGED touched /\ op' = [r \in Calls |-> "none"]
      \/ \E r \in Calls : UNCHANGED touched /\ op' = [op EXCEPT ![r] = "none"]
      \/ \E r \in Calls, new \in {"cancelled", "completed"} :
           touched' = touched \union {r} /\ op' = [op EXCEPT ![r] = new]
  BY DEF Next, Create, OpCheck, OpWrite, ManualDial, LineStep, PlaceCall, Transient, Accepted, Failed, Raises,
         SessionStep, CloseSession, CompleteSession, EndSession, StartCycle, LoopStep,
         ReapA, ReadSession, Claim, Forgo, BeginDial, SelectB, ReapB, SelectDue,
         StartDialing, RecordOutcome, FailRow, Rest, Stop, vars, opVars
<1>3. touched \subseteq touched'
  BY <1>2 DEF opVars
<1>4. \A r \in Calls : op'[r] # "none" => op[r] # "none" \/ r \in touched'
  BY <1>2 DEF opVars, IInv, TypeOK
<1> QED
  BY <1>1, <1>3, <1>4

LEMMA QueueStep ==
  ASSUME IInv, IInv', QueueInv, [Next]_vars
  PROVE  QueueInv'
<1>1. /\ tech' = tech \/ \E r \in Calls : Parks(r)
      /\ touched \subseteq touched'
      /\ \A r \in Calls : op'[r] # "none" => op[r] # "none" \/ r \in touched'
  BY TechSteps
<1>2. \A r \in Calls \ touched : RowStep(r)
  BY EveryRowSteps
<1>3. tech' \subseteq Calls /\ tech \subseteq Calls /\ won' \subseteq Calls
  BY DEF IInv, TypeOK
<1>4. \A r \in tech' \ touched' : status'[r] # "absent"
  BY <1>1, <1>2, <1>3 DEF Parks, RowStep, QueueInv
<1>5. \A r \in Calls : op'[r] # "none" => r \in touched'
  BY <1>1 DEF QueueInv
<1>6. \A r \in won' \ touched' : status'[r] = "in_progress"
  BY <1>1, <1>2, <1>3 DEF RowStep
<1>7. ParkedUnique'
  <2> SUFFICES ASSUME NEW q \in tech' \ touched', NEW r \in tech' \ touched',
                      LeadOf[q] = LeadOf[r], status'[q] \in Active, status'[r] \in Active
               PROVE  q = r
    BY DEF ParkedUnique, Active
  <2>1. \A k \in tech \ touched : status'[k] \in Active => status[k] \in Active
    <3> SUFFICES ASSUME NEW k \in tech \ touched, status'[k] \in Active
                 PROVE  status[k] \in Active
      OBVIOUS
    <3>1. RowStep(k) /\ status[k] # "absent" /\ status[k] \in Status
      BY <1>2, <1>3 DEF QueueInv, IInv, TypeOK
    <3> QED
      BY <3>1, Disjoint DEF RowStep, Status
  <2>2. CASE tech' = tech
    <3>1. status[q] \in Active /\ status[r] \in Active
      BY <1>1, <2>1, <2>2
    <3> QED
      BY <1>1, <2>2, <3>1 DEF QueueInv, ParkedUnique
  <2>3. CASE \E p \in Calls : Parks(p)
    <3>1. PICK p \in Calls : Parks(p)
      BY <2>3
    <3>2. \A k \in tech : LeadOf[k] = LeadOf[p] => status[k] \notin Active
      BY <3>1 DEF Parks
    <3>3. tech' = tech \union {p}
      BY <3>1 DEF Parks
    <3>4. q # p => q \in tech \ touched /\ status[q] \in Active
      BY <1>1, <2>1, <3>3
    <3>5. r # p => r \in tech \ touched /\ status[r] \in Active
      BY <1>1, <2>1, <3>3
    <3>6. CASE q = p \/ r = p
      BY <3>2, <3>4, <3>5, <3>6
    <3>7. CASE q # p /\ r # p
      BY <3>4, <3>5, <3>7 DEF QueueInv, ParkedUnique
    <3> QED
      BY <3>6, <3>7
  <2> QED
    BY <1>1, <2>2, <2>3
<1> QED
  BY <1>4, <1>5, <1>6, <1>7 DEF QueueInv

THEOREM QueueInductive == Spec => []QueueInv
<1>1. Init => QueueInv
  BY DEF Init, QueueInv, ParkedUnique
<1> QED
  BY <1>1, QueueStep, DialerInductive, PTL DEF Spec

(* At most one technical retry of a lead is active, those an operator wrote
   apart. *)
THEOREM RetriesParkOnce == Spec => []OneParkedRetry
<1>1. IInv /\ QueueInv => OneParkedRetry
  <2> SUFFICES ASSUME IInv, QueueInv, NEW l \in Leads
               PROVE  Cardinality({r \in TechRows(l) \ touched : status[r] \in Active}) <= 1
    BY DEF OneParkedRetry
  <2> DEFINE parked == {r \in TechRows(l) \ touched : status[r] \in Active}
  <2>1. \A q, r \in parked : q = r
    BY DEF QueueInv, ParkedUnique, TechRows, RowsOf
  <2> HIDE DEF parked
  <2>2. CASE parked = {}
    BY <2>2, FS_EmptySet DEF parked
  <2>3. CASE parked # {}
    <3>1. PICK r : r \in parked
      BY <2>3
    <3>2. parked = {r}
      BY <2>1, <3>1
    <3>3. Cardinality(parked) = 1
      BY <3>2, FS_Singleton
    <3> QED
      BY <3>3 DEF parked
  <2> QED
    BY <2>2, <2>3
<1> QED
  BY <1>1, DialerInductive, QueueInductive, PTL

(* A row that ended is not dialed again: but for operators, a terminal row
   stays terminal. *)
THEOREM EndedRowsStayEnded == Spec => StaysTerminal
<1>1. IInv /\ QueueInv /\ [Next]_vars =>
        [\A r \in Calls \ touched : status[r] \in Terminal => status'[r] \in Terminal]_vars
  BY EveryRowSteps DEF RowStep
<1> QED
  BY <1>1, DialerInductive, QueueInductive, PTL DEF Spec, StaysTerminal
=============================================================================
