-------------------------- MODULE SipEvidenceProofs --------------------------
(* Types, and the three safety properties of SipEvidence, for any number of
   dials, any window of the match and any limits of the pass.  What they rest on
   is where a row can be while a cycle of the pass has it in hand. *)
EXTENDS SipEvidence, TLAPS

(* The rows a cycle of the pass has selected and not committed. *)
InCycle(n) ==
  \/ hand.n = n
  \/ \E row \in batch : row[1] = n
  \/ \E w \in writes : w.n = n

(* Each of them is in one place of the cycle only. *)
OncePerCycle ==
  /\ \A r1, r2 \in batch : r1[1] = r2[1] => r1 = r2
  /\ \A row \in batch : row[1] # hand.n /\ \A w \in writes : w.n # row[1]
  /\ \A w \in writes : w.n # hand.n
  /\ \A w1, w2 \in writes : w1.n = w2.n => w1 = w2

(* A row before its dial. *)
Fresh(n) ==
  /\ attempts[n] = 0 /\ source[n] = "none" /\ conv[n] = 0
  /\ probe[n] = NoProbe /\ ~InCycle(n)

(* How far a row can be while its dial or probe is under way: one cycle at most
   has met them. *)
Overlap(n) ==
  /\ \/ attempts[n] = 0
     \/ attempts[n] = 1 /\ probe[n].met /\ ~InCycle(n)
  /\ InCycle(n) => probe[n].met

Selected(n) ==
  /\ attempts[n] < MaxAttempts /\ source[n] \in {"none", "probe"}
  /\ source[n] = "probe" => attempts[n] = 0

CycleInv ==
  /\ OncePerCycle
  /\ \A n \in Sessions :
       /\ tel[n] = "none" => Fresh(n)
       /\ probe[n].pc # "none" => Overlap(n)
       /\ InCycle(n) => Selected(n)

SourceInv ==
  \A n \in Sessions :
    /\ attempts[n] = MaxAttempts <=> source[n] = "unreconcilable"
    /\ source[n] \in {"none", "unreconcilable"} => sip[n] = Blank

(* A probe that saw its conversation ended saw the end of a call. *)
RoutedInv ==
  /\ \A k \in over : dialog[k] \in {"refused", "answered"}
  /\ \A n \in Sessions :
       /\ probe[n].pc = "matched" => probe[n].of \in Sessions
       /\ probe[n].pc = "matched" /\ probe[n].ended => probe[n].of \in over
       /\ routed[n] # 0 => routed[n] \in over /\ dialog[routed[n]] = "refused"

(* Another session's call is only ever taken by a row of unlisted, or of linked
   with that call. *)
Foreign(n, k) == k \notin {0, n} => n \in unlisted \/ <<n, k>> \in linked

OwnInv ==
  /\ \A n \in Sessions :
       /\ conv[n] \notin {0, n} => <<n, conv[n]>> \in linked
       /\ probe[n].pc = "matched" => Foreign(n, probe[n].of)
       /\ Foreign(n, sip[n].of)
  /\ \A row \in batch : row[2] \notin {0, row[1]} => row \in linked
  /\ Foreign(hand.n, hand.of)
  /\ \A w \in writes : Foreign(w.n, w.sip.of)

IInv == TypeOK /\ CycleInv /\ SourceInv /\ RoutedInv /\ OwnInv

(* Every step is one of the actions, of some session or row. *)
LEMMA Steps ==
  ASSUME Next
  PROVE  \/ \E n \in Sessions :
              \/ Dial(n) \/ GiveUp(n) \/ Place(n) \/ InviteAgain(n) \/ CallEnds(n)
              \/ \E k \in over : Webhook(k, n)
              \/ \E code \in Response : Respond(n, code)
              \/ DialEnds(n)
              \/ Leaves(n) \/ ProbeMatches(n) \/ ProbeGivesUp(n) \/ ProbeWrites(n)
         \/ \E row \in batch : PassMatches(row) \/ PassSkips(row) \/ ListFails(row)
         \/ SelectCandidates \/ PassFails \/ PassFindsNothing \/ PassFinds
         \/ PassCommits \/ CommitFails
BY DEF Next, Environment, PassStep, ProbeStep

(* A stored conversation, or a listed one. *)
LEMMA CandidatesAreCalls ==
  ASSUME TypeOK, NEW n \in Sessions, NEW stored \in {0} \union Sessions,
         NEW k \in Candidates(n, stored)
  PROVE  k \in Sessions
BY DEF Candidates, Matches, Nearby, Listed, Placed

LEMMA ExtractIsEvidence ==
  ASSUME NEW k \in Sessions PROVE Extract(k) \in Evidence
BY DEF Extract, Evidence, Blank

LEMMA FilledIsEvidence ==
  ASSUME NEW stored \in Evidence, NEW new \in Evidence PROVE Filled(stored, new) \in Evidence
BY DEF Filled

LEMMA Constructed ==
  /\ NoProbe \in Probe
  /\ \A n \in Sessions : Failed(n) \in Write
BY DEF NoProbe, Probe, Failed, Write, Evidence

LEMMA ProbeUpdates ==
  ASSUME NEW p \in Probe, NEW pc \in {"none", "dialing", "waiting", "matched"},
         NEW of \in Sessions, NEW b \in BOOLEAN
  PROVE  /\ [p EXCEPT !.pc = pc] \in Probe
         /\ [p EXCEPT !.pc = pc, !.of = of, !.ended = b] \in Probe
         /\ [p EXCEPT !.met = b] \in Probe
BY DEF Probe

LEMMA InitIInv == Init => IInv
<1> SUFFICES ASSUME Init PROVE IInv
  OBVIOUS
<1>1. TypeOK
  BY SipAssumption, Constructed DEF Init, TypeOK, Telephony, Dialog, Evidence
<1>2. CycleInv
  BY DEF Init, CycleInv, OncePerCycle, Fresh, InCycle, Nothing, NoProbe, Sessions
<1>3. SourceInv
  BY SipAssumption DEF Init, SourceInv
<1>4. RoutedInv
  BY DEF Init, RoutedInv, NoProbe
<1>5. OwnInv
  BY DEF Init, OwnInv, Foreign, NoProbe, Nothing, Blank
<1> QED BY <1>1, <1>2, <1>3, <1>4, <1>5 DEF IInv

LEMMA TypePreserved == IInv /\ [Next]_vars => TypeOK'
<1> SUFFICES ASSUME IInv, [Next]_vars PROVE TypeOK'
  OBVIOUS
<1> USE DEF IInv
<1>1. CASE UNCHANGED vars
  BY <1>1 DEF vars, rowVars, providerVars, passVars, historyVars, TypeOK
<1>2. ASSUME NEW n \in Sessions, Dial(n) PROVE TypeOK'
  <2>1. [probe[n] EXCEPT !.pc = "dialing"] \in Probe
    BY ProbeUpdates DEF TypeOK
  <2>2. probe' = [probe EXCEPT ![n] = [probe[n] EXCEPT !.pc = "dialing"]]
    BY <1>2 DEF Dial
  <2>3. probe' \in [Sessions -> Probe]
    BY <2>1, <2>2 DEF TypeOK
  <2> QED BY <1>2, <2>3 DEF Dial, TypeOK, Telephony, providerVars, passVars, historyVars
<1>3. ASSUME NEW n \in Sessions, NEW k \in over, Webhook(k, n) PROVE TypeOK'
  <2>1. k \in Sessions
    BY DEF TypeOK
  <2> QED BY <1>3, <2>1 DEF Webhook, TypeOK, Telephony, providerVars, passVars, historyVars
<1>19. ASSUME NEW n \in Sessions, GiveUp(n) PROVE TypeOK'
  BY <1>19 DEF GiveUp, TypeOK, Telephony, providerVars, passVars, historyVars
<1>4. ASSUME NEW n \in Sessions, Place(n) \/ InviteAgain(n) PROVE TypeOK'
  BY <1>4 DEF Place, InviteAgain, SetDialog, TypeOK, Dialog, rowVars, passVars, historyVars
<1>5. ASSUME NEW n \in Sessions, NEW code \in Response, Respond(n, code) PROVE TypeOK'
  BY <1>5 DEF Respond, SetDialog, TypeOK, Dialog, rowVars, passVars, historyVars
<1>6. ASSUME NEW n \in Sessions, CallEnds(n) PROVE TypeOK'
  BY <1>6 DEF CallEnds, TypeOK, rowVars, passVars, historyVars
<1>7. ASSUME NEW n \in Sessions, NEW withConv \in BOOLEAN, NEW new \in {tel[n], "failed"},
             DialReturns(n, new, withConv)
      PROVE  TypeOK'
  BY <1>7 DEF DialReturns, Answer, TypeOK, Telephony, Probe, providerVars, passVars, historyVars
<1>8. ASSUME NEW n \in Sessions, NEW withConv \in BOOLEAN,
             NEW new \in {tel[n], "failed", "closed"}, DialFails(n, new, withConv)
      PROVE  TypeOK'
  BY <1>8, Constructed
     DEF DialFails, Answer, TypeOK, Telephony, providerVars, passVars, historyVars
<1>9. ASSUME NEW n \in Sessions, Leaves(n) \/ ProbeGivesUp(n) PROVE TypeOK'
  BY <1>9, Constructed
     DEF Leaves, ProbeGivesUp, ProbeEnds, TypeOK, rowVars, providerVars, passVars, historyVars
<1>10. ASSUME NEW n \in Sessions, ProbeMatches(n) PROVE TypeOK'
  <2>1. PICK k \in Candidates(n, conv[n]) :
          /\ probe' = [probe EXCEPT ![n] =
                         [@ EXCEPT !.pc = "matched", !.of = k, !.ended = k \in over]]
          /\ Looked(n, conv[n], k)
    BY <1>10 DEF ProbeMatches
  <2>2. k \in Sessions
    BY CandidatesAreCalls DEF TypeOK
  <2>3. [probe[n] EXCEPT !.pc = "matched", !.of = k, !.ended = k \in over] \in Probe
    <3>1. probe[n] \in Probe /\ (k \in over) \in BOOLEAN
      BY DEF TypeOK
    <3> QED BY <3>1, <2>2, ProbeUpdates
  <2>4. probe' \in [Sessions -> Probe]
    BY <2>1, <2>3 DEF TypeOK
  <2>5. unlisted' \subseteq Sessions /\ linked' = linked
    BY <2>1 DEF Looked, TypeOK
  <2> QED BY <1>10, <2>4, <2>5 DEF ProbeMatches, TypeOK, rowVars, providerVars, passVars, historyVars
<1>11. ASSUME NEW n \in Sessions, ProbeWrites(n) PROVE TypeOK'
  <2>1. probe[n].of \in Sessions
    BY <1>11 DEF ProbeWrites, RoutedInv
  <2>2. Extract(probe[n].of) \in Evidence /\ Extract(probe[n].of).of \in {0} \union Sessions
    BY <2>1, ExtractIsEvidence DEF Evidence, Blank
  <2>3. Filled(sip[n], Extract(probe[n].of)) \in Evidence
    BY <2>2, FilledIsEvidence DEF TypeOK
  <2> HIDE DEF IInv
  <2>4. TypeOK
    BY DEF IInv
  <2> QED BY <1>11, <2>2, <2>3, <2>4, Constructed
          DEF ProbeWrites, ProbeEnds, TypeOK, Telephony, providerVars, passVars, historyVars
<1>12. CASE SelectCandidates
  <2>1. \A n \in Sessions : [probe[n] EXCEPT !.met = probe[n].pc # "none"] \in Probe
    BY ProbeUpdates DEF TypeOK
  <2>2. probe' \in [Sessions -> Probe]
    BY <1>12, <2>1 DEF SelectCandidates
  <2>3. batch' \subseteq Sessions \X ({0} \union Sessions)
    BY <1>12 DEF SelectCandidates, TypeOK
  <2> QED BY <1>12, <2>2, <2>3 DEF SelectCandidates, TypeOK, rowVars, providerVars, historyVars
<1>13. ASSUME NEW row \in batch, PassMatches(row) PROVE TypeOK'
  <2>1. PICK k \in Candidates(row[1], row[2]) :
          hand' = [n |-> row[1], of |-> k] /\ Looked(row[1], row[2], k)
    BY <1>13 DEF PassMatches
  <2>2. row[1] \in Sessions /\ row[2] \in {0} \union Sessions
    BY DEF TypeOK
  <2>3. k \in Sessions
    BY <2>2, CandidatesAreCalls
  <2> QED BY <1>13, <2>1, <2>2, <2>3
          DEF PassMatches, Looked, TypeOK, rowVars, providerVars, historyVars
<1>14. ASSUME NEW row \in batch, PassSkips(row) \/ ListFails(row) PROVE TypeOK'
  <2>1. Failed(row[1]) \in Write
    BY Constructed DEF TypeOK
  <2> QED BY <1>14, <2>1 DEF PassSkips, ListFails, TypeOK, rowVars, providerVars, historyVars
<1>15. CASE PassFails \/ PassFindsNothing
  <2>1. Failed(hand.n) \in Write
    BY <1>15, Constructed DEF PassFails, PassFindsNothing, TypeOK
  <2> QED BY <1>15, <2>1 DEF PassFails, PassFindsNothing, TypeOK, rowVars, providerVars, historyVars
<1>16. CASE PassFinds
  <2>1. hand.n \in Sessions /\ hand.of \in Sessions
    BY <1>16 DEF PassFinds, TypeOK
  <2>2. Extract(hand.of) \in Evidence
    BY <2>1, ExtractIsEvidence
  <2>3. [n |-> hand.n, ok |-> TRUE, sip |-> Extract(hand.of)] \in Write
    BY <2>1, <2>2 DEF Write
  <2> QED BY <1>16, <2>3 DEF PassFinds, TypeOK, rowVars, providerVars, historyVars
<1>17. CASE PassCommits
  <2> DEFINE found == {w \in writes : w.ok}
             lost == {w.n : w \in writes \ found}
             SipOf(n) == IF \E w \in found : w.n = n
                         THEN Filled(sip[n], (CHOOSE w \in found : w.n = n).sip) ELSE sip[n]
  <2>1. \A n \in Sessions : SipOf(n) \in Evidence
    <3>1. ASSUME NEW n \in Sessions, \E w \in found : w.n = n
          PROVE  (CHOOSE w \in found : w.n = n).sip \in Evidence
      BY <3>1 DEF TypeOK, Write
    <3> QED BY <3>1, FilledIsEvidence DEF TypeOK
  <2>2. \A n \in lost : attempts[n] + 1 \in 0..MaxAttempts
    BY SipAssumption DEF TypeOK, Write, CycleInv, Selected, InCycle
  <2>3. sip' = [n \in Sessions |-> SipOf(n)]
    BY <1>17 DEF PassCommits
  <2>4. attempts' = [n \in Sessions |-> IF n \in lost THEN attempts[n] + 1 ELSE attempts[n]]
    BY <1>17 DEF PassCommits
  <2>5. source' \in [Sessions -> {"none", "probe", "sweep", "unreconcilable"}]
    BY <1>17 DEF PassCommits, TypeOK
  <2> HIDE DEF SipOf, lost
  <2>6. sip' \in [Sessions -> Evidence] /\ attempts' \in [Sessions -> 0..MaxAttempts]
    BY <2>1, <2>2, <2>3, <2>4 DEF TypeOK
  <2> QED BY <1>17, <2>5, <2>6 DEF PassCommits, TypeOK, providerVars, historyVars
<1>18. CASE CommitFails
  BY <1>18 DEF CommitFails, TypeOK, rowVars, providerVars, historyVars
<1> HIDE DEF IInv
<1> QED BY <1>1, <1>2, <1>3, <1>4, <1>5, <1>6, <1>7, <1>8, <1>9, <1>10, <1>11, <1>12, <1>13, <1>14,
           <1>15, <1>16, <1>17, <1>18, <1>19, Steps DEF DialEnds

(* A step of the environment, a dial or a probe leaves the cycle alone. *)
LEMMA StepOutside ==
  ASSUME CycleInv, UNCHANGED <<batch, hand, writes, attempts>>,
         \A m \in Sessions :
           /\ tel'[m] = "none" => /\ tel[m] = "none" /\ source'[m] = source[m]
                                  /\ conv'[m] = conv[m] /\ probe'[m] = probe[m]
           /\ probe'[m].pc # "none" =>
                \/ probe[m].pc # "none" /\ probe'[m].met = probe[m].met
                \/ Fresh(m)
           /\ \/ source'[m] = source[m]
              \/ source'[m] = "probe" /\ probe[m].pc # "none"
  PROVE  CycleInv'
<1>1. \A n : InCycle(n)' <=> InCycle(n)
  BY DEF InCycle
<1>2. OncePerCycle'
  BY DEF CycleInv, OncePerCycle
<1>3. ASSUME NEW n \in Sessions, tel'[n] = "none" PROVE Fresh(n)'
  BY <1>1, <1>3 DEF CycleInv, Fresh, NoProbe
<1>4. ASSUME NEW n \in Sessions, probe'[n].pc # "none" PROVE Overlap(n)'
  <2>1. CASE Fresh(n)
    BY <1>1, <2>1 DEF Fresh, Overlap
  <2>2. CASE probe[n].pc # "none" /\ probe'[n].met = probe[n].met
    <3>1. Overlap(n)
      BY <2>2 DEF CycleInv
    <3> QED BY <1>1, <2>2, <3>1 DEF Overlap
  <2> QED BY <1>4, <2>1, <2>2
<1>5. ASSUME NEW n \in Sessions, InCycle(n)' PROVE Selected(n)'
  BY <1>1, <1>5 DEF CycleInv, Overlap, Selected
<1> QED BY <1>2, <1>3, <1>4, <1>5 DEF CycleInv

(* A step of the pass on one row takes it further in its cycle, or out of it. *)
LEMMA StepInside ==
  ASSUME CycleInv, OncePerCycle', UNCHANGED <<tel, conv, source, attempts, probe>>,
         \A n \in Sessions : InCycle(n)' => InCycle(n)
  PROVE  CycleInv'
BY DEF CycleInv, Fresh, Overlap, Selected, NoProbe

LEMMA CyclePreserved == IInv /\ [Next]_vars => CycleInv'
<1> SUFFICES ASSUME IInv, [Next]_vars PROVE CycleInv'
  OBVIOUS
<1>0. TypeOK /\ CycleInv
  BY DEF IInv
<1>1. CASE UNCHANGED vars
  BY <1>0, <1>1, StepOutside DEF vars, rowVars, passVars
<1>2. ASSUME NEW n \in Sessions, Dial(n) PROVE CycleInv'
  <2>1. \A m \in Sessions : probe'[m] = IF m = n THEN [probe[n] EXCEPT !.pc = "dialing"] ELSE probe[m]
    BY <1>0, <1>2 DEF Dial, TypeOK
  <2>2. Fresh(n)
    BY <1>0, <1>2 DEF Dial, CycleInv
  <2>3. \A m \in Sessions : tel'[m] = IF m = n THEN "open" ELSE tel[m]
    BY <1>0, <1>2 DEF Dial, TypeOK
  <2>4. UNCHANGED <<batch, hand, writes, attempts, source, conv>>
    BY <1>2 DEF Dial, passVars
  <2> QED BY <1>0, <2>1, <2>2, <2>3, <2>4, StepOutside
<1>3. ASSUME NEW n \in Sessions, GiveUp(n) \/ \E k \in over : Webhook(k, n) PROVE CycleInv'
  <2>1. \A m \in Sessions : tel'[m] = "none" => m # n /\ tel[m] = "none"
    BY <1>0, <1>3 DEF Webhook, GiveUp, TypeOK
  <2>2. \A m \in Sessions \ {n} : conv'[m] = conv[m]
    BY <1>0, <1>3 DEF Webhook, GiveUp, TypeOK
  <2>3. UNCHANGED <<batch, hand, writes, attempts, source, probe>>
    BY <1>3 DEF Webhook, GiveUp, passVars
  <2> QED BY <1>0, <2>1, <2>2, <2>3, StepOutside
<1>4. ASSUME NEW n \in Sessions,
             \/ Place(n) \/ InviteAgain(n) \/ CallEnds(n)
             \/ \E code \in Response : Respond(n, code)
      PROVE  CycleInv'
  <2>1. UNCHANGED <<tel, conv, source, attempts, probe, batch, hand, writes>>
    BY <1>4 DEF Place, InviteAgain, CallEnds, Respond, SetDialog, rowVars, passVars
  <2> QED BY <1>0, <2>1, StepOutside
<1>5. ASSUME NEW n \in Sessions,
             \/ DialEnds(n)
      PROVE  CycleInv'
  <2>1. probe[n].pc = "dialing" /\ tel[n] # "none"
    BY <1>0, <1>5 DEF DialEnds, DialReturns, DialFails, Answer, CycleInv, Fresh, NoProbe
  <2>2. \A m \in Sessions : tel'[m] = "none" => m # n /\ tel[m] = "none"
    BY <1>0, <1>5, <2>1 DEF DialEnds, DialReturns, DialFails, Answer, TypeOK
  <2>3. \A m \in Sessions \ {n} : conv'[m] = conv[m] /\ probe'[m] = probe[m]
    BY <1>0, <1>5 DEF DialEnds, DialReturns, DialFails, Answer, TypeOK
  <2>4. probe'[n].pc # "none" => probe'[n].met = probe[n].met
    BY <1>0, <1>5 DEF DialEnds, DialReturns, DialFails, Answer, TypeOK, Probe, NoProbe
  <2>5. UNCHANGED <<batch, hand, writes, attempts, source>>
    BY <1>5 DEF DialEnds, DialReturns, DialFails, Answer, passVars
  <2> QED BY <1>0, <2>1, <2>2, <2>3, <2>4, <2>5, StepOutside
<1>6. ASSUME NEW n \in Sessions,
             Leaves(n) \/ ProbeMatches(n) \/ ProbeGivesUp(n) \/ ProbeWrites(n)
      PROVE  CycleInv'
  <2>0. probe[n].pc # "none"
    BY <1>6 DEF Leaves, ProbeMatches, ProbeGivesUp, ProbeWrites
  <2>1. tel[n] # "none"
    BY <1>0, <2>0 DEF CycleInv, Fresh, NoProbe
  <2>8. tel \in [Sessions -> Telephony]
    BY <1>0 DEF TypeOK
  <2>2. \A m \in Sessions : tel'[m] = "none" => m # n /\ tel[m] = "none"
    BY <1>6, <2>1, <2>8 DEF Leaves, ProbeMatches, ProbeGivesUp, ProbeWrites, rowVars
  <2>3. \A m \in Sessions \ {n} : probe'[m] = probe[m]
    BY <1>0, <1>6
       DEF Leaves, ProbeMatches, ProbeGivesUp, ProbeWrites, ProbeEnds, TypeOK
  <2>7. \A m \in Sessions \ {n} : source'[m] = source[m]
    BY <1>0, <1>6 DEF Leaves, ProbeMatches, ProbeGivesUp, ProbeWrites, TypeOK, rowVars
  <2>4. probe'[n].pc # "none" => probe'[n].met = probe[n].met
    <3>1. CASE Leaves(n) \/ ProbeGivesUp(n) \/ ProbeWrites(n)
      BY <1>0, <3>1 DEF Leaves, ProbeGivesUp, ProbeWrites, ProbeEnds, TypeOK, NoProbe
    <3>2. CASE ProbeMatches(n)
      BY <1>0, <3>2 DEF ProbeMatches, TypeOK, Probe
    <3> QED BY <1>6, <3>1, <3>2
  <2>5. source'[n] = source[n] \/ source'[n] = "probe"
    BY <1>0, <1>6 DEF Leaves, ProbeMatches, ProbeGivesUp, ProbeWrites, TypeOK, rowVars
  <2>6. UNCHANGED <<batch, hand, writes, attempts, conv>>
    BY <1>6 DEF Leaves, ProbeMatches, ProbeGivesUp, ProbeWrites, rowVars, passVars
  <2> QED BY <1>0, <2>0, <2>1, <2>2, <2>3, <2>4, <2>5, <2>6, <2>7, StepOutside
<1>7. CASE SelectCandidates
  <2>1. hand' = Nothing /\ writes' = {} /\ UNCHANGED rowVars
        /\ \A row \in batch' : row[1] \in Sessions /\ Candidate(row[1]) /\ row = <<row[1], conv[row[1]]>>
    BY <1>7 DEF SelectCandidates, Idle
  <2>2. \A n \in Sessions : probe'[n].pc = probe[n].pc /\ (probe'[n].met <=> probe[n].pc # "none")
    BY <1>0, <1>7 DEF SelectCandidates, TypeOK, Probe
  <2>3. \A n \in Sessions : InCycle(n)' => Candidate(n)
    BY <2>1 DEF InCycle, Nothing, Sessions
  <2>4. \A n \in Sessions : probe[n].pc # "none" => attempts[n] = 0
    BY <1>0, <1>7 DEF SelectCandidates, CycleInv, Overlap
  <2>5. OncePerCycle'
    BY <2>1 DEF OncePerCycle, Nothing, Sessions
  <2>6. ASSUME NEW n \in Sessions, tel'[n] = "none" PROVE Fresh(n)'
    <3>1. Fresh(n) /\ ~Candidate(n)
      BY <1>0, <2>1, <2>6 DEF CycleInv, Candidate, rowVars
    <3>2. probe'[n] = [NoProbe EXCEPT !.met = NoProbe.pc # "none"]
      BY <1>7, <3>1 DEF SelectCandidates, Fresh
    <3>3. probe'[n] = NoProbe
      BY <3>2 DEF NoProbe
    <3> QED BY <2>1, <2>3, <3>1, <3>3 DEF Fresh, rowVars
  <2>7. ASSUME NEW n \in Sessions, probe'[n].pc # "none" PROVE Overlap(n)'
    <3>1. attempts'[n] = 0 /\ probe'[n].met
      BY <2>1, <2>2, <2>4, <2>7 DEF rowVars
    <3> QED BY <3>1 DEF Overlap
  <2>8. ASSUME NEW n \in Sessions, InCycle(n)' PROVE Selected(n)'
    BY <2>1, <2>3, <2>8 DEF Candidate, Selected, rowVars
  <2> QED BY <2>5, <2>6, <2>7, <2>8 DEF CycleInv
<1>8. ASSUME NEW row \in batch, PassMatches(row) \/ PassSkips(row) \/ ListFails(row) PROVE CycleInv'
  <2>1. /\ UNCHANGED <<tel, conv, source, attempts, probe>> /\ batch' = batch \ {row} /\ hand = Nothing
        /\ hand' = hand \/ hand'.n = row[1]
        /\ \/ writes' = writes
           \/ writes' = writes \union {Failed(row[1])} /\ hand' = hand
    BY <1>8 DEF PassMatches, PassSkips, ListFails, Visit, rowVars
  <2>2. Failed(row[1]).n = row[1]
    BY DEF Failed
  <2>3. hand.n = 0 /\ row[1] \in Sessions /\ \A w \in writes : w.n # 0
    BY <1>0, <2>1 DEF Nothing, TypeOK, Write, Sessions
  <2>4. OncePerCycle'
    BY <1>0, <2>1, <2>2, <2>3 DEF CycleInv, OncePerCycle, Sessions
  <2>5. \A n \in Sessions : InCycle(n)' => InCycle(n)
    BY <2>1, <2>2 DEF InCycle
  <2> QED BY <1>0, <2>1, <2>4, <2>5, StepInside
<1>9. CASE PassFails \/ PassFindsNothing \/ PassFinds
  <2>1. UNCHANGED <<tel, conv, source, attempts, probe, batch>> /\ hand' = Nothing
    BY <1>9 DEF PassFails, PassFindsNothing, PassFinds, rowVars
  <2>2. PICK w : w.n = hand.n /\ (writes' = writes \/ writes' = writes \union {w})
    BY <1>9 DEF PassFails, PassFindsNothing, PassFinds, Failed
  <2>3. Nothing.n = 0 /\ hand.n # 0
    BY <1>0, <1>9 DEF PassFails, PassFindsNothing, PassFinds, TypeOK, Nothing, Sessions
  <2>6. /\ \A row \in batch : row[1] # 0
        /\ \A v \in writes : v.n # 0
    BY <1>0 DEF TypeOK, Write, Sessions
  <2>7. OncePerCycle
    BY <1>0 DEF CycleInv
  <2>4. OncePerCycle'
    BY <2>1, <2>2, <2>3, <2>6, <2>7 DEF OncePerCycle
  <2>5. \A n \in Sessions : InCycle(n)' => InCycle(n)
    BY <2>1, <2>3, <2>2 DEF InCycle, Sessions
  <2> QED BY <1>0, <2>1, <2>4, <2>5, StepInside
<1>10. CASE PassCommits
  <2>1. /\ UNCHANGED <<tel, conv, probe, batch, hand>>
        /\ batch = {} /\ hand = Nothing /\ writes' = {}
    BY <1>10 DEF PassCommits
  <2>2. OncePerCycle' /\ \A n \in Sessions : ~InCycle(n)'
    BY <2>1 DEF OncePerCycle, InCycle, Nothing, Sessions
  <2>3. \A n \in Sessions : \/ attempts'[n] = attempts[n]
                            \/ attempts'[n] = attempts[n] + 1 /\ InCycle(n)
    <3> DEFINE lost == {w.n : w \in writes \ {w \in writes : w.ok}}
    <3>1. attempts' = [n \in Sessions |-> IF n \in lost THEN attempts[n] + 1 ELSE attempts[n]]
      BY <1>10 DEF PassCommits
    <3>2. \A n \in lost : InCycle(n)
      BY DEF InCycle
    <3> HIDE DEF lost
    <3> QED BY <3>1, <3>2
  <2>4. \A n \in Sessions : ~InCycle(n) => source'[n] = source[n]
    BY <1>10 DEF PassCommits, InCycle
  <2>5. \A n \in Sessions : tel'[n] = "none" => Fresh(n)'
    BY <1>0, <2>1, <2>2, <2>3, <2>4 DEF CycleInv, Fresh, NoProbe
  <2>6. \A n \in Sessions : probe'[n].pc # "none" => Overlap(n)'
    BY <1>0, <2>1, <2>2, <2>3 DEF CycleInv, Overlap
  <2> QED BY <2>2, <2>5, <2>6 DEF CycleInv
<1>11. CASE CommitFails
  <2>1. UNCHANGED <<tel, conv, source, attempts, probe, batch, hand>> /\ batch = {} /\ writes' = {}
    BY <1>11 DEF CommitFails, rowVars
  <2>2. OncePerCycle' /\ \A n \in Sessions : InCycle(n)' => InCycle(n)
    BY <2>1 DEF OncePerCycle, InCycle
  <2> QED BY <1>0, <2>1, <2>2, StepInside
<1> QED BY <1>1, <1>2, <1>3, <1>4, <1>5, <1>6, <1>7, <1>8, <1>9, <1>10, <1>11, Steps

(* A probe writes while its row has attempts left, so it never writes over a row
   that was given up, and the pass gives up only rows it alone has tried. *)
LEMMA SourcePreserved == IInv /\ [Next]_vars => SourceInv'
<1> SUFFICES ASSUME IInv, [Next]_vars PROVE SourceInv'
  OBVIOUS
<1>0. TypeOK /\ CycleInv /\ SourceInv
  BY DEF IInv
<1>1. CASE UNCHANGED <<attempts, source, sip>>
  BY <1>0, <1>1 DEF SourceInv
<1>2. ASSUME NEW n \in Sessions, ProbeWrites(n) PROVE SourceInv'
  <2>1. attempts' = attempts /\ attempts[n] # MaxAttempts
    BY <1>0, <1>2, SipAssumption DEF ProbeWrites, CycleInv, Overlap
  <2>2. \A m \in Sessions \ {n} : source'[m] = source[m] /\ sip'[m] = sip[m]
    BY <1>0, <1>2 DEF ProbeWrites, TypeOK
  <2>3. source'[n] = "probe" \/ (source' = source /\ sip' = sip)
    BY <1>0, <1>2 DEF ProbeWrites, TypeOK
  <2> QED BY <1>0, <2>1, <2>2, <2>3 DEF SourceInv
<1>3. CASE PassCommits
  <2> DEFINE found == {w \in writes : w.ok}
             lost == {w.n : w \in writes \ found}
             parked == {n \in lost : Exhausted(attempts[n] + 1)}
             Found(n) == \E w \in found : w.n = n
  <2>1. /\ attempts' = [n \in Sessions |-> IF n \in lost THEN attempts[n] + 1 ELSE attempts[n]]
        /\ source' = [n \in Sessions |->
             IF n \in parked THEN "unreconcilable" ELSE IF Found(n) THEN "sweep" ELSE source[n]]
        /\ \A n \in Sessions : ~Found(n) => sip'[n] = sip[n]
    BY <1>3 DEF PassCommits
  <2>2. \A n \in lost : ~Found(n) /\ InCycle(n)
    BY <1>0 DEF CycleInv, OncePerCycle, InCycle
  <2>3. \A n \in Sessions : Found(n) => InCycle(n)
    BY DEF InCycle
  <2>4. \A n \in Sessions : n \in parked <=> n \in lost /\ attempts[n] + 1 >= MaxAttempts
    BY DEF Exhausted
  <2> HIDE DEF lost, parked, Found
  <2>5. ASSUME NEW n \in Sessions, n \in lost
        PROVE  /\ attempts'[n] = MaxAttempts <=> source'[n] = "unreconcilable"
               /\ source'[n] \in {"none", "unreconcilable"} => sip'[n] = Blank
    <3>1. Selected(n) /\ ~Found(n)
      BY <1>0, <2>2, <2>5 DEF CycleInv
    <3>2. attempts[n] \in Nat /\ MaxAttempts \in Nat \ {0, 1}
      BY <1>0, SipAssumption DEF TypeOK
    <3>3. n \in parked <=> attempts[n] + 1 = MaxAttempts
      BY <2>4, <2>5, <3>1, <3>2 DEF Selected
    <3>4. attempts'[n] = attempts[n] + 1 /\ sip'[n] = sip[n]
      BY <2>1, <2>5, <3>1
    <3>5. source'[n] = IF n \in parked THEN "unreconcilable" ELSE source[n]
      BY <2>1, <3>1
    <3>6. n \in parked => source[n] = "none"
      BY <3>1, <3>2, <3>3 DEF Selected
    <3> QED BY <1>0, <3>1, <3>3, <3>4, <3>5, <3>6 DEF SourceInv, Selected
  <2>6. ASSUME NEW n \in Sessions, n \notin lost
        PROVE  /\ attempts'[n] = MaxAttempts <=> source'[n] = "unreconcilable"
               /\ source'[n] \in {"none", "unreconcilable"} => sip'[n] = Blank
    <3>1. attempts'[n] = attempts[n] /\ source'[n] = IF Found(n) THEN "sweep" ELSE source[n]
      BY <2>1, <2>4, <2>6
    <3>2. Found(n) => attempts[n] # MaxAttempts
      BY <1>0, <2>3, SipAssumption DEF CycleInv, Selected, TypeOK
    <3> QED BY <1>0, <2>1, <3>1, <3>2 DEF SourceInv
  <2> QED BY <2>5, <2>6 DEF SourceInv
<1>4. \/ UNCHANGED <<attempts, source, sip>> \/ PassCommits
      \/ \E n \in Sessions : ProbeWrites(n)
  <2>1. CASE UNCHANGED vars
    BY <2>1 DEF vars, rowVars
  <2>2. ASSUME NEW n \in Sessions,
               \/ Dial(n) \/ GiveUp(n) \/ Place(n) \/ InviteAgain(n) \/ CallEnds(n)
               \/ \E k \in over : Webhook(k, n)
               \/ \E code \in Response : Respond(n, code)
        PROVE  UNCHANGED <<attempts, source, sip>>
    BY <2>2 DEF Dial, Webhook, GiveUp, Place, InviteAgain, CallEnds, Respond, SetDialog, rowVars
  <2>3. ASSUME NEW n \in Sessions,
               \/ DialEnds(n)
               \/ Leaves(n) \/ ProbeMatches(n) \/ ProbeGivesUp(n)
        PROVE  UNCHANGED <<attempts, source, sip>>
    BY <2>3 DEF DialEnds, DialReturns, DialFails, Answer, Leaves, ProbeMatches, ProbeGivesUp, rowVars
  <2>4. ASSUME \/ \E row \in batch : PassMatches(row) \/ PassSkips(row) \/ ListFails(row)
               \/ SelectCandidates \/ PassFails \/ PassFindsNothing \/ PassFinds \/ CommitFails
        PROVE  UNCHANGED <<attempts, source, sip>>
    BY <2>4 DEF PassMatches, PassSkips, ListFails, SelectCandidates, PassFails, PassFindsNothing,
                PassFinds, CommitFails, rowVars
  <2> QED BY <2>1, <2>2, <2>3, <2>4, Steps
<1> QED BY <1>1, <1>2, <1>3, <1>4

(* A call that ended was refused or answered, and stays what it was. *)
LEMMA RoutedPreserved == IInv /\ [Next]_vars => RoutedInv'
<1> SUFFICES ASSUME IInv, [Next]_vars PROVE RoutedInv'
  OBVIOUS
<1>0. TypeOK /\ RoutedInv
  BY DEF IInv
<1>1. CASE UNCHANGED <<dialog, over, probe, routed>>
  BY <1>0, <1>1 DEF RoutedInv
<1>2. ASSUME NEW n \in Sessions, NEW new, SetDialog(n, new), dialog[n] \notin {"refused", "answered"}
      PROVE  RoutedInv'
  <2>1. n \notin over /\ UNCHANGED <<over, probe, routed>>
    BY <1>0, <1>2 DEF RoutedInv, SetDialog, rowVars
  <2>2. \A k \in Sessions \ {n} : dialog'[k] = dialog[k]
    BY <1>0, <1>2 DEF SetDialog, TypeOK
  <2> QED BY <1>0, <2>1, <2>2 DEF RoutedInv, TypeOK
<1>3. ASSUME NEW n \in Sessions, CallEnds(n) PROVE RoutedInv'
  BY <1>0, <1>3 DEF CallEnds, RoutedInv, rowVars
<1>4. ASSUME NEW n \in Sessions,
             \/ Dial(n) \/ Leaves(n) \/ ProbeGivesUp(n)
             \/ DialEnds(n)
      PROVE  RoutedInv'
  <2>1. UNCHANGED <<dialog, over, routed>>
    BY <1>4 DEF Dial, Leaves, ProbeGivesUp, DialEnds, DialReturns, DialFails, rowVars, providerVars
  <2>2. \A m \in Sessions \ {n} : probe'[m] = probe[m]
    BY <1>0, <1>4 DEF Dial, Leaves, ProbeGivesUp, DialEnds, DialReturns, DialFails, ProbeEnds, TypeOK
  <2>3. probe'[n].pc # "matched"
    BY <1>0, <1>4
       DEF Dial, Leaves, ProbeGivesUp, DialEnds, DialReturns, DialFails, ProbeEnds, TypeOK, Probe, NoProbe
  <2> QED BY <1>0, <2>1, <2>2, <2>3 DEF RoutedInv
<1>5. ASSUME NEW n \in Sessions, ProbeMatches(n) PROVE RoutedInv'
  <2>1. PICK k \in Candidates(n, conv[n]) :
          probe' = [probe EXCEPT ![n] =
                      [@ EXCEPT !.pc = "matched", !.of = k, !.ended = k \in over]]
    BY <1>5 DEF ProbeMatches
  <2>2. k \in Sessions
    BY <1>0, CandidatesAreCalls DEF TypeOK
  <2>3. probe'[n].of = k /\ (probe'[n].ended <=> k \in over)
    <3>1. probe'[n] = [probe[n] EXCEPT !.pc = "matched", !.of = k, !.ended = k \in over]
      BY <1>0, <2>1 DEF TypeOK
    <3>2. probe[n] \in Probe
      BY <1>0 DEF TypeOK
    <3> QED BY <3>1, <3>2 DEF Probe
  <2>4. \A m \in Sessions \ {n} : probe'[m] = probe[m]
    BY <1>0, <2>1 DEF TypeOK
  <2>5. UNCHANGED <<dialog, over, routed>>
    BY <1>5 DEF ProbeMatches, rowVars, providerVars
  <2> QED BY <1>0, <2>2, <2>3, <2>4, <2>5 DEF RoutedInv
<1>6. ASSUME NEW n \in Sessions, ProbeWrites(n) PROVE RoutedInv'
  <2>1. \A m \in Sessions \ {n} : probe'[m] = probe[m] /\ routed'[m] = routed[m]
    BY <1>0, <1>6 DEF ProbeWrites, ProbeEnds, TypeOK
  <2>2. probe'[n].pc # "matched" /\ UNCHANGED <<dialog, over>>
    BY <1>0, <1>6 DEF ProbeWrites, ProbeEnds, TypeOK, NoProbe, providerVars
  <2>3. CASE routed' = routed
    BY <1>0, <2>1, <2>2, <2>3 DEF RoutedInv
  <2>4. CASE routed' # routed
    <3> DEFINE k == probe[n].of
    <3>1. RoutingFailure(probe[n].ended, Extract(k).code) /\ routed'[n] = Extract(k).of
      BY <1>0, <1>6, <2>4 DEF ProbeWrites, TypeOK
    <3>2. k \in over /\ dialog[k] \in {"refused", "answered"}
      BY <1>0, <1>6, <3>1 DEF ProbeWrites, RoutedInv, RoutingFailure
    <3>3. Extract(k) = [of |-> k, code |-> dialog[k]]
      BY <3>2 DEF Extract, Response
    <3>4. dialog[k] = "refused" /\ routed'[n] = k
      BY <3>1, <3>2, <3>3 DEF RoutingFailure
    <3> QED BY <1>0, <2>1, <2>2, <3>2, <3>4 DEF RoutedInv
  <2> QED BY <2>3, <2>4
<1>7. ASSUME NEW n \in Sessions,
             \/ Place(n) \/ InviteAgain(n) \/ \E code \in Response : Respond(n, code)
      PROVE  RoutedInv'
  BY <1>2, <1>7 DEF Place, InviteAgain, Respond
<1>8. CASE SelectCandidates
  <2>1. UNCHANGED <<dialog, over, routed>>
    BY <1>8 DEF SelectCandidates, rowVars, providerVars
  <2>2. \A n \in Sessions : /\ probe'[n].pc = probe[n].pc /\ probe'[n].of = probe[n].of
                            /\ probe'[n].ended = probe[n].ended
    BY <1>0, <1>8 DEF SelectCandidates, TypeOK, Probe
  <2> QED BY <1>0, <2>1, <2>2 DEF RoutedInv
<1>9. CASE \/ \E row \in batch : PassMatches(row) \/ PassSkips(row) \/ ListFails(row)
           \/ PassFails \/ PassFindsNothing \/ PassFinds \/ PassCommits \/ CommitFails
           \/ \E n \in Sessions : GiveUp(n) \/ \E k \in over : Webhook(k, n)
           \/ UNCHANGED vars
  <2>1. UNCHANGED <<dialog, over, probe, routed>>
    BY <1>9 DEF PassMatches, PassSkips, ListFails, PassFails, PassFindsNothing, PassFinds,
                PassCommits, CommitFails, Webhook, GiveUp, rowVars, providerVars, vars
  <2> QED BY <1>1, <2>1
<1> QED BY <1>3, <1>4, <1>5, <1>6, <1>7, <1>8, <1>9, Steps

(* What is known of a row's calls stays known. *)
LEMMA ForeignStays ==
  ASSUME NEW n, NEW k, Foreign(n, k), unlisted \subseteq unlisted', linked \subseteq linked'
  PROVE  Foreign(n, k)'
BY DEF Foreign

(* With its own call listed, a row's match by time is that call: it is always in
   the window, so another one beside it would be a second. *)
LEMMA MatchedByTime ==
  ASSUME NEW n \in Sessions, NEW stored, NEW k \in Candidates(n, stored), Looked(n, stored, k),
         stored \notin {0, n} => <<n, stored>> \in linked
  PROVE  unlisted \subseteq unlisted' /\ linked' = linked /\ Foreign(n, k)'
<1>1. unlisted \subseteq unlisted' /\ linked' = linked
  BY DEF Looked
<1>2. CASE stored # 0
  BY <1>1, <1>2 DEF Candidates, Foreign
<1>3. CASE stored = 0 /\ k # n
  <2>1. Nearby(n) = {k}
    BY <1>3 DEF Candidates, Matches
  <2>2. n \notin Listed
    BY <1>3, <2>1, SipAssumption DEF Nearby
  <2> QED BY <1>3, <2>2 DEF Looked, Foreign
<1> QED BY <1>1, <1>2, <1>3 DEF Foreign

LEMMA OwnPreserved == IInv /\ [Next]_vars => OwnInv'
<1> SUFFICES ASSUME IInv, [Next]_vars PROVE OwnInv'
  OBVIOUS
<1>0. TypeOK /\ OwnInv
  BY DEF IInv
<1>1. CASE UNCHANGED <<conv, sip, probe, batch, hand, writes, historyVars>>
  BY <1>0, <1>1 DEF OwnInv, Foreign, historyVars
<1>2. ASSUME NEW n \in Sessions,
             \/ Dial(n) \/ Leaves(n) \/ ProbeGivesUp(n)
             \/ DialEnds(n)
      PROVE  OwnInv'
  <2>1. UNCHANGED <<sip, batch, hand, writes, unlisted, linked>>
    BY <1>2 DEF Dial, Leaves, ProbeGivesUp, DialEnds, DialReturns, DialFails, rowVars, passVars,
                historyVars
  <2>2. \A m \in Sessions : conv'[m] \in {0, m, conv[m]}
    BY <1>0, <1>2 DEF Dial, Leaves, ProbeGivesUp, DialEnds, DialReturns, DialFails, Answer, TypeOK,
                      rowVars
  <2>3. \A m \in Sessions : probe'[m].pc = "matched" => probe'[m] = probe[m]
    BY <1>0, <1>2 DEF Dial, Leaves, ProbeGivesUp, DialEnds, DialReturns, DialFails, ProbeEnds,
                      TypeOK, Probe, NoProbe
  <2> QED BY <1>0, <2>1, <2>2, <2>3 DEF OwnInv, Foreign
<1>12. ASSUME NEW n \in Sessions, NEW k \in over, Webhook(k, n) PROVE OwnInv'
  <2>1. UNCHANGED <<sip, probe, batch, hand, writes, unlisted>> /\ linked \subseteq linked'
    BY <1>12 DEF Webhook, passVars
  <2>2. \A m \in Sessions \ {n} : conv'[m] = conv[m]
    BY <1>0, <1>12 DEF Webhook, TypeOK
  <2>3. \/ conv'[n] = conv[n]
        \/ conv'[n] = k /\ (k # n => <<n, k>> \in linked')
    BY <1>0, <1>12 DEF Webhook, TypeOK
  <2>4. \A m \in Sessions : conv'[m] \notin {0, m} => <<m, conv'[m]>> \in linked'
    BY <1>0, <2>1, <2>2, <2>3 DEF OwnInv
  <2> QED BY <1>0, <2>1, <2>4 DEF OwnInv, Foreign
<1>3. ASSUME NEW n \in Sessions, ProbeMatches(n) PROVE OwnInv'
  <2>1. PICK k \in Candidates(n, conv[n]) :
          /\ probe' = [probe EXCEPT ![n] =
                         [@ EXCEPT !.pc = "matched", !.of = k, !.ended = k \in over]]
          /\ Looked(n, conv[n], k)
    BY <1>3 DEF ProbeMatches
  <2>2. probe'[n].of = k /\ \A m \in Sessions \ {n} : probe'[m] = probe[m]
    <3>1. probe[n] \in Probe
      BY <1>0 DEF TypeOK
    <3>2. [probe[n] EXCEPT !.pc = "matched", !.of = k, !.ended = k \in over].of = k
      BY <3>1 DEF Probe
    <3> QED BY <1>0, <2>1, <3>2 DEF TypeOK
  <2>3. unlisted \subseteq unlisted' /\ linked' = linked /\ Foreign(n, k)'
    BY <1>0, <2>1, MatchedByTime DEF OwnInv
  <2>4. UNCHANGED <<conv, sip, batch, hand, writes>>
    BY <1>3 DEF ProbeMatches, rowVars, passVars
  <2>5. \A m \in Sessions : probe'[m].pc = "matched" => Foreign(m, probe[m].of)'
    BY <1>0, <2>2, <2>3 DEF OwnInv, Foreign
  <2> QED BY <1>0, <2>3, <2>4, <2>5 DEF OwnInv, Foreign
<1>4. ASSUME NEW n \in Sessions, ProbeWrites(n) PROVE OwnInv'
  <2> DEFINE found == Extract(probe[n].of)
  <2>1. UNCHANGED <<conv, batch, hand, writes, unlisted, linked>>
    BY <1>4 DEF ProbeWrites, passVars, historyVars
  <2>2. \A m \in Sessions : probe'[m].pc = "matched" => probe'[m] = probe[m]
    BY <1>0, <1>4 DEF ProbeWrites, ProbeEnds, TypeOK, NoProbe
  <2>3. found.of \in {0, probe[n].of}
    BY DEF Extract, Blank
  <2>4. Foreign(n, found.of)
    BY <1>0, <1>4, <2>3 DEF OwnInv, ProbeWrites, Foreign
  <2>5. sip'[n] \in {sip[n], found} /\ \A m \in Sessions \ {n} : sip'[m] = sip[m]
    BY <1>0, <1>4 DEF ProbeWrites, Filled, TypeOK
  <2> HIDE DEF found
  <2> QED BY <1>0, <2>1, <2>2, <2>4, <2>5 DEF OwnInv, Foreign
<1>5. CASE SelectCandidates
  <2>1. UNCHANGED <<conv, sip, hand, writes, unlisted, linked>>
    BY <1>5 DEF SelectCandidates, rowVars, historyVars
  <2>2. \A n \in Sessions : probe'[n].pc = probe[n].pc /\ probe'[n].of = probe[n].of
    BY <1>0, <1>5 DEF SelectCandidates, TypeOK, Probe
  <2>3. \A row \in batch' : row[2] \notin {0, row[1]} => row \in linked
    BY <1>0, <1>5 DEF SelectCandidates, OwnInv
  <2> QED BY <1>0, <2>1, <2>2, <2>3 DEF OwnInv, Foreign
<1>6. ASSUME NEW row \in batch, PassMatches(row) PROVE OwnInv'
  <2>1. PICK k \in Candidates(row[1], row[2]) :
          hand' = [n |-> row[1], of |-> k] /\ Looked(row[1], row[2], k)
    BY <1>6 DEF PassMatches
  <2>2. row[1] \in Sessions /\ row = <<row[1], row[2]>>
    BY <1>0 DEF TypeOK
  <2>3. row[2] \notin {0, row[1]} => <<row[1], row[2]>> \in linked
    BY <1>0, <2>2 DEF OwnInv
  <2>4. unlisted \subseteq unlisted' /\ linked' = linked /\ Foreign(row[1], k)'
    BY <2>1, <2>2, <2>3, MatchedByTime
  <2>5. UNCHANGED <<conv, sip, probe, writes>> /\ batch' \subseteq batch
    BY <1>6 DEF PassMatches, rowVars
  <2>6. Foreign(hand.n, hand.of)'
    BY <2>1, <2>4 DEF Foreign
  <2> QED BY <1>0, <2>4, <2>5, <2>6 DEF OwnInv, Foreign
<1>7. ASSUME NEW row \in batch, PassSkips(row) \/ ListFails(row) PROVE OwnInv'
  <2>1. /\ UNCHANGED <<conv, sip, probe, hand, historyVars>> /\ batch' \subseteq batch
        /\ writes' \subseteq writes \union {Failed(row[1])}
    BY <1>7 DEF PassSkips, ListFails, rowVars
  <2>2. Failed(row[1]).sip.of = 0
    BY DEF Failed, Blank
  <2> QED BY <1>0, <2>1, <2>2 DEF OwnInv, Foreign, historyVars
<1>8. CASE PassFails \/ PassFindsNothing \/ PassFinds
  <2>1. UNCHANGED <<conv, sip, probe, batch, historyVars>> /\ hand' = Nothing
    BY <1>8 DEF PassFails, PassFindsNothing, PassFinds, rowVars
  <2>2. PICK w : /\ w.n = hand.n /\ w.sip.of \in {0, hand.of}
                 /\ writes' \subseteq writes \union {w}
    <3>1. CASE PassFinds
      <4> DEFINE new == [n |-> hand.n, ok |-> TRUE, sip |-> Extract(hand.of)]
      <4>1. new.n = hand.n /\ new.sip.of \in {0, hand.of} /\ writes' = writes \union {new}
        BY <3>1 DEF PassFinds, Extract, Blank
      <4> QED BY <4>1
    <3>2. CASE PassFails \/ PassFindsNothing
      <4>1. Failed(hand.n).n = hand.n /\ Failed(hand.n).sip.of = 0
        BY DEF Failed, Blank
      <4> QED BY <3>2, <4>1 DEF PassFails, PassFindsNothing
    <3> QED BY <1>8, <3>1, <3>2
  <2>3. Foreign(w.n, w.sip.of)
    BY <1>0, <2>2 DEF OwnInv, Foreign
  <2> QED BY <1>0, <2>1, <2>2, <2>3 DEF OwnInv, Foreign, historyVars, Nothing
<1>9. CASE PassCommits
  <2> DEFINE found == {w \in writes : w.ok}
             Of(n) == CHOOSE w \in found : w.n = n
  <2>1. \A n \in Sessions :
          sip'[n] = IF \E w \in found : w.n = n THEN Filled(sip[n], Of(n).sip) ELSE sip[n]
    BY <1>9 DEF PassCommits
  <2>2. ASSUME NEW n \in Sessions, \E w \in found : w.n = n
        PROVE  Foreign(n, Of(n).sip.of)
    <3>1. Of(n) \in writes /\ Of(n).n = n
      BY <2>2
    <3> HIDE DEF Of
    <3> QED BY <1>0, <3>1 DEF OwnInv
  <2> HIDE DEF found, Of
  <2>3. \A n \in Sessions : Foreign(n, sip'[n].of)
    BY <1>0, <2>1, <2>2 DEF OwnInv, Filled
  <2>4. UNCHANGED <<conv, probe, batch, hand, historyVars>> /\ writes' = {}
    BY <1>9 DEF PassCommits
  <2> QED BY <1>0, <2>3, <2>4 DEF OwnInv, Foreign, historyVars
<1>10. CASE CommitFails
  <2>1. UNCHANGED <<conv, sip, probe, batch, hand, historyVars>> /\ writes' = {}
    BY <1>10 DEF CommitFails, rowVars
  <2> QED BY <1>0, <2>1 DEF OwnInv, Foreign, historyVars
<1>11. CASE \/ \E n \in Sessions :
                  \/ GiveUp(n) \/ Place(n) \/ InviteAgain(n) \/ CallEnds(n)
                  \/ \E code \in Response : Respond(n, code)
            \/ UNCHANGED vars
  <2>1. UNCHANGED <<conv, sip, probe, batch, hand, writes, historyVars>>
    BY <1>11 DEF GiveUp, Place, InviteAgain, CallEnds, Respond, SetDialog, rowVars, passVars, vars
  <2> QED BY <1>1, <2>1
<1> QED BY <1>2, <1>3, <1>4, <1>5, <1>6, <1>7, <1>8, <1>9, <1>10, <1>11, <1>12, Steps

LEMMA Inductive == Spec => []IInv
<1>1. IInv /\ [Next]_vars => IInv'
  BY TypePreserved, CyclePreserved, SourcePreserved, RoutedPreserved, OwnPreserved DEF IInv
<1> QED BY <1>1, InitIInv, PTL DEF Spec

(* The rows, the provider's calls, the probes and the pass keep their types: in
   particular no row is tried more than reconciliation_max_attempts times. *)
THEOREM SipTypeCorrect == Spec => []TypeOK
<1>1. IInv => TypeOK
  BY DEF IInv
<1> QED BY <1>1, Inductive, PTL

(* The probe fails a row for its routing only when nobody answered the call. *)
THEOREM RoutingErrorsAreTrue == Spec => []RoutingErrorIsTrue
<1>1. IInv => RoutingErrorIsTrue
  BY DEF IInv, RoutedInv, RoutingErrorIsTrue
<1> QED BY <1>1, Inductive, PTL

(* The pass gives a row up exactly when its attempts are used up, and only a row
   without evidence. *)
THEOREM RowsParkInTime == Spec => []ParkedInTime
<1>1. IInv => ParkedInTime
  BY DEF IInv, SourceInv, ParkedInTime
<1> QED BY <1>1, Inductive, PTL

(* A row holds the evidence of another call only if its own was not listed, or if
   that call's webhook gave the row its conversation. *)
THEOREM EvidenceIsOwn == Spec => []NeverGuessed
<1>1. IInv => NeverGuessed
  BY DEF IInv, OwnInv, Foreign, NeverGuessed
<1> QED BY <1>1, Inductive, PTL
=============================================================================
