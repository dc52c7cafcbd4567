------------------------- MODULE OutboundCallProofs -------------------------
(***************************************************************************)
(* Proofs about OutboundCall, for any number of dials, requests and stops: *)
(* type correctness, no completion without evidence, the probe preserves   *)
(* what others wrote, and the refinement of CallLife.                      *)
(*                                                                         *)
(* What a request or a sweep has loaded may be stale.  The argument rests  *)
(* on what cannot become false meanwhile (Monotone): a dialed row stays    *)
(* dialed, a settled row settled, evidence and the end of a call are never *)
(* taken back.  The invariant says of a loaded row only such things.       *)
(***************************************************************************)
EXTENDS OutboundCall, FiniteSetTheorems, TLAPS

-----------------------------------------------------------------------------
(* The inductive invariant *)

(* Rows are dialed in order. *)
Contiguous == Dialed = 1..Newest

(* A dial in progress has a row; the provider placed at most one call for each
   of its two attempts, and calls only what was dialed. *)
LineInv ==
  /\ line # "free" => Newest \in Sessions
  /\ line = "first" => rung[Newest] = IF placed THEN 1 ELSE 0
  /\ line = "retry" /\ ~placed => rung[Newest] <= 1

(* Only a dialed row has anything in its columns. *)
RowInv(n) ==
  n \notin Dialed => /\ status[n] = "none" /\ conv[n] = 0
                     /\ n \notin pcid /\ rung[n] = 0

(* What a request loaded: a dialed row, and if it was settled it still is; and
   the call it is about has ended. *)
ReqInv(h) ==
  /\ req[h].pc # "idle" => req[h].k \in over
  /\ req[h].pc \in {"link", "adopt", "close"} =>
       /\ req[h].n \in Dialed
       /\ req[h].tel \in Settled => tel[req[h].n] \in Settled

(* What the sweeps loaded: dialed rows, with the evidence that was there. *)
SweptInv ==
  /\ \A s \in swept : s[1] \in Dialed /\ (s[2] => s[1] \in ser)
  /\ stale \subseteq Dialed

IInv ==
  /\ TypeOK /\ Contiguous /\ LineInv /\ SweptInv /\ FASafe
  /\ \A n \in Sessions : RowInv(n)
  /\ \A h \in Requests : ReqInv(h)

-----------------------------------------------------------------------------
(* Facts about the operators *)

LEMMA NewestNat ==
  ASSUME TypeOK
  PROVE  Newest \in Nat
<1>1. IsFiniteSet(1..MaxSessions)
  BY FS_Interval, BoundAssumption
<1>2. Dialed \in SUBSET (1..MaxSessions)
  BY DEF Dialed, Sessions
<1> QED
  BY <1>1, <1>2, FS_Subset, FS_CardinalityType DEF Newest

LEMMA NewestDialed ==
  ASSUME IInv, line # "free"
  PROVE  Newest \in Sessions /\ Newest \in Dialed /\ InProgress(Newest)
BY NewestNat DEF IInv, LineInv, Contiguous, Sessions, InProgress

(* A status written on a dialed row dials no other. *)
LEMMA SetTelDialed ==
  ASSUME TypeOK, NEW n \in Dialed, NEW t \in Active \union Settled, SetTel(n, t)
  PROVE  /\ Dialed' = Dialed
         /\ tel' \in [Sessions -> TelStatus]
         /\ \A m \in Sessions : tel'[m] = IF m = n THEN t ELSE tel[m]
<1>1. t # "none"
  BY DEF Active, Settled, NoConversation
<1> QED
  BY <1>1 DEF TypeOK, Dialed, SetTel, TelStatus

(* What a step may not take back. *)
Monotone ==
  /\ Dialed \subseteq Dialed'
  /\ \A n \in Sessions : tel[n] \in Settled => tel'[n] \in Settled
  /\ ser \subseteq ser'
  /\ over \subseteq over'

(* Loaded rows survive a monotone step. *)
LEMMA ReqFrame ==
  ASSUME IInv, Monotone, NEW h \in Requests, req'[h] \in {req[h], Idle}
  PROVE  ReqInv(h)'
<1>1. CASE req'[h] = Idle
  BY <1>1 DEF ReqInv, Idle
<1>2. CASE req'[h] = req[h]
  <2>1. ReqInv(h)
    BY DEF IInv
  <2>2. req[h].n \in Dialed => req[h].n \in Sessions
    BY DEF Dialed
  <2> QED
    BY <1>2, <2>1, <2>2 DEF ReqInv, Monotone
<1> QED
  BY <1>1, <1>2

LEMMA SweptFrame ==
  ASSUME IInv, Monotone, swept' \subseteq swept, stale' \subseteq stale
  PROVE  SweptInv'
BY DEF IInv, SweptInv, Monotone

(* A step that dials nothing, from what it does to each part of the state. *)
LEMMA Kept ==
  ASSUME IInv, TypeOK', FASafe', Dialed' = Dialed, Monotone,
         LineInv' \/ (rung' = rung /\ (line' = "free" \/ UNCHANGED lineVars)),
         SweptInv' \/ (swept' \subseteq swept /\ stale' \subseteq stale),
         \A n \in Sessions : n \notin Dialed =>
           /\ status'[n] = status[n] /\ conv'[n] = conv[n]
           /\ (n \in pcid' => n \in pcid) /\ rung'[n] = rung[n],
         \A h \in Requests : req'[h] \in {req[h], Idle} \/ ReqInv(h)'
  PROVE  IInv'
<1>1. Newest' = Newest /\ Contiguous'
  BY DEF Newest, Contiguous, IInv
<1>2. LineInv'
  BY <1>1 DEF LineInv, IInv, lineVars
<1>3. SweptInv'
  BY SweptFrame
<1>4. \A n \in Sessions : RowInv(n)'
  BY DEF RowInv, IInv
<1>5. \A h \in Requests : ReqInv(h)'
  BY ReqFrame
<1> QED
  BY <1>1, <1>2, <1>3, <1>4, <1>5 DEF IInv

-----------------------------------------------------------------------------
(* The initial state *)

LEMMA InitIInv == Init => IInv
<1> SUFFICES ASSUME Init PROVE IInv
  OBVIOUS
<1>1. TypeOK
  <2>1. Idle \in Request
    BY DEF Idle, Request, TelStatus, Status
  <2>2. req \in [Requests -> Request]
    BY <2>1 DEF Init
  <2>3. swept \subseteq Sessions \X BOOLEAN
    BY DEF Init
  <2>4. stops \in 0..MaxStops /\ counted \in [Sessions -> Nat]
    BY BoundAssumption DEF Init
  <2>5. /\ tel \in [Sessions -> TelStatus]
        /\ status \in [Sessions -> Status]
        /\ conv \in [Sessions -> {0} \union Sessions]
    BY DEF Init, TelStatus, Status
  <2>6. age \in [Sessions -> 0..3] /\ rung \in [Sessions -> 0..2]
    BY DEF Init
  <2>7. line \in {"free", "first", "retry"} /\ placed \in BOOLEAN
    BY DEF Init
  <2>8. /\ pcid \subseteq Sessions /\ ser \subseteq Sessions /\ over \subseteq Sessions
        /\ probes \subseteq Sessions /\ stale \subseteq Sessions
    BY DEF Init
  <2> QED
    BY <2>2, <2>3, <2>4, <2>5, <2>6, <2>7, <2>8 DEF TypeOK
<1>2. Dialed = {}
  BY DEF Init, Dialed
<1>3. Newest = 0 /\ Contiguous
  BY <1>2, FS_EmptySet DEF Newest, Contiguous
<1>4. LineInv /\ SweptInv /\ FASafe
  BY DEF Init, LineInv, SweptInv, FASafe
<1>5. \A n \in Sessions : RowInv(n)
  BY DEF Init, RowInv
<1>6. \A h \in Requests : ReqInv(h)
  BY DEF Init, ReqInv, Idle
<1> QED
  BY <1>1, <1>3, <1>4, <1>5, <1>6 DEF IInv

-----------------------------------------------------------------------------
(* The dial *)

LEMMA DialFacts ==
  ASSUME IInv, Dial
  PROVE  /\ Newest + 1 \in Sessions /\ Newest \in Nat
         /\ tel[Newest + 1] = "none" /\ Newest + 1 \notin Dialed
         /\ Dialed' = 1..(Newest + 1) /\ Newest' = Newest + 1
         /\ \A n \in Sessions : n # Newest + 1 => tel'[n] = tel[n]
         /\ tel'[Newest + 1] = "dialing"
<1>1. Newest \in Nat
  BY NewestNat DEF IInv
<1>2. Newest + 1 \in Sessions /\ Newest + 1 \notin Dialed
  BY <1>1, BoundAssumption DEF Dial, Sessions, IInv, Contiguous
<1>3. tel[Newest + 1] = "none"
  BY <1>2 DEF Dialed
<1>4. /\ \A n \in Sessions : n # Newest + 1 => tel'[n] = tel[n]
      /\ tel'[Newest + 1] = "dialing"
  BY <1>2 DEF Dial, SetTel, IInv, TypeOK
<1>5. Dialed' = Dialed \union {Newest + 1}
  BY <1>2, <1>4 DEF Dialed
<1>6. Dialed' = 1..(Newest + 1)
  BY <1>1, <1>5 DEF IInv, Contiguous
<1>7. Newest' = Newest + 1
  BY <1>1, <1>6, FS_Interval DEF Newest
<1> QED
  BY <1>1, <1>2, <1>3, <1>4, <1>6, <1>7

LEMMA DialIInv ==
  ASSUME IInv, Dial
  PROVE  IInv'
<1> DEFINE N == Newest + 1
<1>1. /\ N \in Sessions /\ Newest \in Nat /\ N \notin Dialed
      /\ Dialed' = 1..N /\ N \in Dialed' /\ Newest' = N
      /\ tel[N] = "none" /\ tel'[N] = "dialing"
      /\ \A n \in Sessions : n # N => tel'[n] = tel[n]
  BY DialFacts
<1>2. rung[N] = 0
  BY <1>1 DEF IInv, RowInv
<1> HIDE DEF N
<1>3. TypeOK'
  BY DEF Dial, IInv, TypeOK, SetTel, Active, worldVars, sweepVars, TelStatus, Status
<1>4. Dialed \subseteq Dialed'
  BY <1>1 DEF Dialed
<1>5. Monotone
  BY <1>1, <1>4 DEF Monotone, Dial, Settled, NoConversation, worldVars
<1>6. Contiguous'
  BY <1>1 DEF Contiguous
<1>7. LineInv'
  BY <1>1, <1>2 DEF LineInv, Dial, worldVars
<1>8. SweptInv'
  BY <1>5, SweptFrame DEF Dial, sweepVars
<1>9. FASafe'
  BY <1>1 DEF FASafe, Dial, IInv
<1>10. ASSUME NEW n \in Sessions PROVE RowInv(n)'
  <2>1. n \notin Dialed' => n \notin Dialed /\ n # N
    BY <1>1, <1>4
  <2>2. n # N => status'[n] = status[n]
    BY DEF Dial, IInv, TypeOK, N
  <2> QED
    BY <2>1, <2>2 DEF RowInv, IInv, Dial, worldVars
<1>11. ASSUME NEW h \in Requests PROVE ReqInv(h)'
  BY <1>5, ReqFrame DEF Dial
<1> QED
  BY <1>3, <1>6, <1>7, <1>8, <1>9, <1>10, <1>11 DEF IInv

LEMMA PlaceCallIInv ==
  ASSUME IInv, PlaceCall
  PROVE  IInv'
<1>1. Newest \in Sessions /\ Newest \in Dialed
  BY NewestDialed DEF PlaceCall
<1>2. rung[Newest] \in 0..1
  BY <1>1 DEF PlaceCall, IInv, TypeOK, LineInv
<1>3. TypeOK'
  BY <1>1, <1>2 DEF PlaceCall, IInv, TypeOK, rowVars, sweepVars
<1>4. Dialed' = Dialed /\ Newest' = Newest /\ Monotone /\ FASafe'
  BY DEF PlaceCall, rowVars, Dialed, Newest, Monotone, IInv, FASafe
<1>5. LineInv'
  BY <1>1, <1>2, <1>4 DEF LineInv, PlaceCall, IInv, TypeOK
<1>6. \A n \in Sessions : n \notin Dialed => rung'[n] = rung[n]
  BY <1>1 DEF PlaceCall, IInv, TypeOK
<1> QED
  BY <1>3, <1>4, <1>5, <1>6, Kept DEF PlaceCall, rowVars, sweepVars

LEMMA AcceptedFacts ==
  ASSUME IInv, NEW withConv \in BOOLEAN, Accepted(withConv)
  PROVE  /\ Newest \in Dialed /\ Newest \in Sessions
         /\ tel' \in [Sessions -> TelStatus]
         /\ \A n \in Sessions : tel'[n] # tel[n] => tel[n] = "dialing" /\ tel'[n] = "ringing"
         /\ \A n \in Sessions : n \notin Dialed => conv'[n] = conv[n]
         /\ conv' \in [Sessions -> {0} \union Sessions]
         /\ Dialed' = Dialed
<1>1. Newest \in Sessions /\ Newest \in Dialed
  BY NewestDialed DEF Accepted
<1>2. /\ tel' \in [Sessions -> TelStatus]
      /\ \A n \in Sessions : tel'[n] # tel[n] => tel[n] = "dialing" /\ tel'[n] = "ringing"
  BY <1>1 DEF Accepted, Persist, IInv, TypeOK, Active, TelStatus
<1>3. /\ conv' \in [Sessions -> {0} \union Sessions]
      /\ \A n \in Sessions : n \notin Dialed => conv'[n] = conv[n]
  BY <1>1 DEF Accepted, Persist, IInv, TypeOK
<1>4. Dialed' = Dialed
  BY <1>2 DEF Dialed
<1> QED
  BY <1>1, <1>2, <1>3, <1>4

LEMMA AcceptedIInv ==
  ASSUME IInv, NEW withConv \in BOOLEAN, Accepted(withConv)
  PROVE  IInv'
<1>1. /\ Newest \in Dialed /\ Newest \in Sessions
      /\ tel' \in [Sessions -> TelStatus]
      /\ \A n \in Sessions : tel'[n] # tel[n] => tel[n] = "dialing" /\ tel'[n] = "ringing"
      /\ \A n \in Sessions : n \notin Dialed => conv'[n] = conv[n]
      /\ conv' \in [Sessions -> {0} \union Sessions]
      /\ Dialed' = Dialed
  BY AcceptedFacts
<1>2. pcid' = pcid \union {Newest}
  BY DEF Accepted, Persist
<1>3. TypeOK'
  BY <1>1, <1>2 DEF Accepted, HangUp, IInv, TypeOK, worldVars, sweepVars
<1>4. FASafe' /\ Monotone
  BY <1>1 DEF Accepted, IInv, FASafe, Monotone, Settled, NoConversation, worldVars
<1> QED
  BY <1>1, <1>2, <1>3, <1>4, Kept DEF Accepted, HangUp, worldVars, sweepVars

(* The other answers write at most a failure on the newest row. *)
LEMMA RefusalFacts ==
  ASSUME IInv, (\E new \in {"no_answer", "failed"} : Refused(new)) \/ TimedOut \/ FailedTwice
  PROVE  \E new \in {"no_answer", "failed", "recurrent_error"} :
           /\ Newest \in Dialed /\ SetTel(Newest, new) /\ HangUp /\ line # "free"
           /\ probes' \in {probes, probes \union {Newest}}
           /\ UNCHANGED <<status, conv, pcid, ser, worldVars, sweepVars, req, counted, stops>>
<1>1. line # "free"
  BY DEF Refused, TimedOut, FailedTwice
<1>2. Newest \in Dialed
  BY <1>1, NewestDialed
<1> QED
  BY <1>1, <1>2 DEF Refused, TimedOut, FailedTwice

LEMMA RefusalIInv ==
  ASSUME IInv, (\E new \in {"no_answer", "failed"} : Refused(new)) \/ TimedOut \/ FailedTwice
  PROVE  IInv'
<1>1. PICK new \in {"no_answer", "failed", "recurrent_error"} :
        /\ Newest \in Dialed /\ SetTel(Newest, new) /\ HangUp /\ line # "free"
        /\ probes' \in {probes, probes \union {Newest}}
        /\ UNCHANGED <<status, conv, pcid, ser, worldVars, sweepVars, req, counted, stops>>
  BY RefusalFacts
<1>2. new \in Settled /\ new \notin {"completed", "voicemail"}
  BY DEF Settled, NoConversation
<1>3. /\ Dialed' = Dialed
      /\ tel' \in [Sessions -> TelStatus]
      /\ \A m \in Sessions : tel'[m] = IF m = Newest THEN new ELSE tel[m]
  BY <1>1, <1>2, SetTelDialed DEF IInv
<1>4. Newest \in Sessions
  BY <1>1 DEF Dialed
<1>5. TypeOK'
  BY <1>1, <1>3, <1>4 DEF HangUp, IInv, TypeOK, worldVars, sweepVars
<1>6. FASafe' /\ Monotone
  BY <1>1, <1>2, <1>3 DEF IInv, FASafe, Monotone, worldVars
<1> QED
  BY <1>1, <1>3, <1>5, <1>6, Kept DEF HangUp, worldVars, sweepVars

(* A second attempt, or an exception. *)
LEMMA TransientIInv ==
  ASSUME IInv, Transient
  PROVE  IInv'
<1>1. Newest \in Sessions /\ rung[Newest] <= 1
  BY NewestDialed DEF Transient, IInv, LineInv
<1>2. TypeOK'
  BY DEF Transient, IInv, TypeOK, rowVars, worldVars, sweepVars
<1>3. Dialed' = Dialed /\ Newest' = Newest /\ Monotone /\ FASafe'
  BY DEF Transient, rowVars, worldVars, Dialed, Newest, Monotone, IInv, FASafe
<1>4. LineInv'
  BY <1>1, <1>3 DEF LineInv, Transient, worldVars
<1> QED
  BY <1>2, <1>3, <1>4, Kept DEF Transient, rowVars, worldVars, sweepVars

LEMMA RaisesIInv ==
  ASSUME IInv, Raises
  PROVE  IInv'
<1>1. TypeOK'
  BY DEF Raises, HangUp, IInv, TypeOK, rowVars, worldVars, sweepVars
<1>2. Dialed' = Dialed /\ Monotone /\ FASafe'
  BY DEF Raises, rowVars, worldVars, Dialed, Monotone, IInv, FASafe
<1> QED
  BY <1>1, <1>2, Kept DEF Raises, HangUp, rowVars, worldVars, sweepVars

-----------------------------------------------------------------------------
(* The world *)

LEMMA CallEndsIInv ==
  ASSUME IInv, NEW k \in Sessions, CallEnds(k)
  PROVE  IInv'
<1>1. TypeOK'
  BY DEF CallEnds, IInv, TypeOK, rowVars, lineVars, sweepVars
<1>2. Dialed' = Dialed /\ Monotone /\ FASafe'
  BY DEF CallEnds, rowVars, Dialed, Monotone, IInv, FASafe
<1> QED
  BY <1>1, <1>2, Kept DEF CallEnds, rowVars, lineVars, sweepVars

LEMMA TickIInv ==
  ASSUME IInv, NEW n \in Sessions, Tick(n)
  PROVE  IInv'
<1>1. age[n] + 1 \in 0..3
  BY DEF Tick, IInv, TypeOK
<1>2. TypeOK'
  BY <1>1 DEF Tick, IInv, TypeOK, rowVars, lineVars, sweepVars
<1>3. Dialed' = Dialed /\ Monotone /\ FASafe'
  BY DEF Tick, rowVars, Dialed, Monotone, IInv, FASafe
<1> QED
  BY <1>2, <1>3, Kept DEF Tick, rowVars, lineVars, sweepVars

-----------------------------------------------------------------------------
(* Requests *)

(* A request loads something and writes nothing. *)
LEMMA LookUpIInv ==
  ASSUME IInv, NEW h \in Requests, NEW row \in Request, Goto(h, row),
         UNCHANGED <<rowVars, counted, requestUnchanged>>,
         row.pc # "idle" => row.k \in over,
         row.pc \in {"link", "adopt", "close"} =>
           /\ row.n \in Dialed
           /\ row.tel \in Settled => tel[row.n] \in Settled
  PROVE  IInv'
<1>1. TypeOK'
  BY DEF Goto, IInv, TypeOK, rowVars, requestUnchanged, worldVars, lineVars, sweepVars
<1>2. Dialed' = Dialed /\ Monotone /\ FASafe'
  BY DEF rowVars, requestUnchanged, worldVars, Dialed, Monotone, IInv, FASafe
<1>3. ReqInv(h)'
  BY <1>2 DEF ReqInv, Goto, IInv, TypeOK, rowVars, requestUnchanged, worldVars
<1>4. \A i \in Requests : i # h => req'[i] = req[i]
  BY DEF Goto, IInv, TypeOK
<1> QED
  BY <1>1, <1>2, <1>3, <1>4, Kept
  DEF rowVars, requestUnchanged, worldVars, lineVars, sweepVars

(* The row a request loads, as it is now. *)
LEMMA RowLoaded ==
  ASSUME TypeOK, NEW pc \in {"link", "adopt", "close"}, NEW kind \in {"postcall", "end"},
         NEW k \in Sessions, NEW n \in Sessions
  PROVE  /\ Row(pc, kind, k, n) \in Request
         /\ Row(pc, kind, k, n).k = k /\ Row(pc, kind, k, n).n = n
         /\ Row(pc, kind, k, n).tel = tel[n] /\ Row(pc, kind, k, n).pc = pc
BY DEF Row, Request, TypeOK

LEMMA IdleRequest == Idle \in Request /\ Idle.pc = "idle"
BY DEF Idle, Request, TelStatus, Status

LEMMA ReqTyped ==
  ASSUME TypeOK, NEW h \in Requests
  PROVE  /\ req[h] \in Request /\ req[h].kind \in {"postcall", "end"}
         /\ req[h].tel \in TelStatus /\ req[h].status \in Status
BY DEF TypeOK, Request

LEMMA KnownIInv ==
  ASSUME IInv, NEW h \in Requests, NEW kind \in {"postcall", "end"}, NEW k \in Sessions,
         Known(h, kind, k)
  PROVE  IInv'
<1>1. PICK n \in ByConversation(k) : Goto(h, Row("close", kind, k, n))
  BY DEF Known
<1>2. n \in Sessions /\ n \in Dialed
  BY <1>1 DEF ByConversation, IInv, RowInv, Sessions
<1>3. k \in over
  BY DEF Known, Arrive
<1> QED
  BY <1>1, <1>2, <1>3, RowLoaded, LookUpIInv DEF Known, IInv

LEMMA UnknownIInv ==
  ASSUME IInv, NEW h \in Requests, NEW kind \in {"postcall", "end"}, NEW k \in Sessions,
         Unknown(h, kind, k)
  PROVE  IInv'
<1> DEFINE pc == IF kind = "end" THEN "reconcile" ELSE "orphan"
           row == [Idle EXCEPT !.pc = pc, !.kind = kind, !.k = k]
<1>1. /\ row \in Request /\ row.k = k /\ row.pc \notin {"link", "adopt", "close"}
  BY DEF Idle, Request, TelStatus, Status
<1>2. k \in over /\ Goto(h, row) /\ UNCHANGED <<rowVars, counted, requestUnchanged>>
  BY DEF Unknown, Arrive
<1> HIDE DEF row
<1> QED
  BY <1>1, <1>2, LookUpIInv

LEMMA ByProviderCallIInv ==
  ASSUME IInv, NEW h \in Requests, ByProviderCall(h)
  PROVE  IInv'
<1>1. req[h].k \in Sessions /\ req[h].k \in Dialed /\ req[h].k \in over
  BY DEF ByProviderCall, IInv, TypeOK, RowInv, ReqInv
<1> QED
  BY <1>1, RowLoaded, ReqTyped, LookUpIInv DEF ByProviderCall, IInv

LEMMA ByLeadIInv ==
  ASSUME IInv, NEW h \in Requests, ByLead(h)
  PROVE  IInv'
<1>1. PICK n \in Orphans : Goto(h, Row("link", req[h].kind, req[h].k, n))
  BY DEF ByLead
<1>2. n \in Sessions /\ n \in Dialed
  BY <1>1 DEF Orphans, OrphanStatuses, Active, Dialed
<1>3. req[h].k \in over /\ req[h].k \in Sessions
  BY DEF ByLead, IInv, ReqInv, TypeOK
<1> QED
  BY <1>1, <1>2, <1>3, RowLoaded, ReqTyped, LookUpIInv DEF ByLead, IInv

LEMMA ReconcileIInv ==
  ASSUME IInv, NEW h \in Requests, Reconcile(h)
  PROVE  IInv'
<1>1. PICK n \in Sessions : /\ status[n] = "initiated"
                            /\ Goto(h, Row("adopt", "end", req[h].k, n))
  BY DEF Reconcile
<1>2. n \in Dialed
  BY <1>1 DEF IInv, RowInv
<1>3. req[h].k \in over /\ req[h].k \in Sessions
  BY DEF Reconcile, IInv, ReqInv, TypeOK
<1>4. TypeOK /\ UNCHANGED <<rowVars, counted, requestUnchanged>>
  BY DEF Reconcile, IInv
<1> DEFINE loaded == Row("adopt", "end", req[h].k, n)
<1>5. /\ loaded \in Request /\ loaded.k = req[h].k /\ loaded.n = n
      /\ loaded.tel = tel[n] /\ loaded.pc = "adopt"
  BY <1>1, <1>3, <1>4, RowLoaded
<1>6. Goto(h, loaded)
  BY <1>1
<1> HIDE DEF loaded
<1> QED BY <1>2, <1>3, <1>4, <1>5, <1>6, LookUpIInv

LEMMA GiveUpIInv ==
  ASSUME IInv, NEW h \in Requests, NotFound(h) \/ LeaveAlone(h)
  PROVE  IInv'
BY IdleRequest, LookUpIInv DEF NotFound, LeaveAlone

(* What a request writes on the row it loaded: evidence, and a settled status
   unless the row has one. *)
Proves(n) ==
  /\ n \in Dialed /\ over # {}
  /\ ser' = ser \union {n}
  /\ tel' \in [Sessions -> TelStatus] /\ tel'[n] \in Settled
  /\ \A m \in Sessions : m # n => tel'[m] = tel[m]

(* What it writes over: nothing settled but by "completed" or "voicemail". *)
LEMMA CloseFacts ==
  ASSUME IInv, NEW h \in Requests, Close(h)
  PROVE  /\ Proves(req[h].n)
         /\ tel'[req[h].n] \in {tel[req[h].n], "completed", "voicemail"}
<1> DEFINE n == req[h].n
<1>1. n \in Dialed /\ n \in Sessions /\ over # {}
  BY DEF Close, IInv, ReqInv, Dialed
<1>2. PICK t \in Heuristic(n, SessionEnd(req[h].tel)) :
        SetTel(n, Written(req[h].tel, t, tel[n]))
  BY DEF Close
<1>3. \/ t \in {"completed", "voicemail"}
      \/ t = req[h].tel /\ t \in NoConversation
  BY <1>2 DEF Heuristic, SessionEnd
<1>4. req[h].tel \in Settled => tel[n] \in Settled
  BY DEF Close, IInv, ReqInv
<1>5. /\ Written(req[h].tel, t, tel[n]) \in Settled
      /\ Written(req[h].tel, t, tel[n]) \in {tel[n], "completed", "voicemail"}
  BY <1>3, <1>4 DEF Written, Settled
<1>6. /\ tel' \in [Sessions -> TelStatus]
      /\ \A m \in Sessions : tel'[m] = IF m = n THEN Written(req[h].tel, t, tel[n]) ELSE tel[m]
  BY <1>1, <1>2, <1>5 DEF SetTel, IInv, TypeOK, TelStatus
<1>7. ser' = ser \union {n}
  BY DEF Close
<1> QED
  BY <1>1, <1>5, <1>6, <1>7 DEF Proves

LEMMA AdoptFacts ==
  ASSUME IInv, NEW h \in Requests, Adopt(h)
  PROVE  /\ Proves(req[h].n)
         /\ tel'[req[h].n] \in {tel[req[h].n], "completed", "voicemail"}
<1> DEFINE n == req[h].n
           t == SessionEnd(req[h].tel)
<1>1. n \in Dialed /\ n \in Sessions /\ over # {}
  BY DEF Adopt, IInv, ReqInv, Dialed
<1>2. SetTel(n, Written(req[h].tel, t, tel[n]))
  BY DEF Adopt
<1>3. t = "completed" \/ (t = req[h].tel /\ t \in NoConversation)
  BY DEF SessionEnd
<1>4. req[h].tel \in Settled => tel[n] \in Settled
  BY DEF Adopt, IInv, ReqInv
<1> HIDE DEF t
<1>5. /\ Written(req[h].tel, t, tel[n]) \in Settled
      /\ Written(req[h].tel, t, tel[n]) \in {tel[n], "completed", "voicemail"}
  BY <1>3, <1>4 DEF Written, Settled
<1>6. /\ tel' \in [Sessions -> TelStatus]
      /\ \A m \in Sessions : tel'[m] = IF m = n THEN Written(req[h].tel, t, tel[n]) ELSE tel[m]
  BY <1>1, <1>2, <1>5 DEF SetTel, IInv, TypeOK, TelStatus
<1>7. ser' = ser \union {n}
  BY DEF Adopt
<1> QED
  BY <1>1, <1>5, <1>6, <1>7 DEF Proves

LEMMA LinkFacts ==
  ASSUME IInv, NEW h \in Requests, Link(h)
  PROVE  \/ tel' = tel /\ ser' = ser /\ conv' = conv /\ req[h].tel = "completed"
         \/ Proves(req[h].n) /\ tel'[req[h].n] = "completed"
<1>1. req[h].n \in Dialed /\ req[h].n \in Sessions /\ over # {}
  BY DEF Link, IInv, ReqInv, Dialed
<1>2. CASE req[h].tel = "completed"
  BY <1>2 DEF Link
<1>3. CASE req[h].tel # "completed"
  <2>1. SetTel(req[h].n, "completed") /\ ser' = ser \union {req[h].n}
    BY <1>3 DEF Link
  <2>2. "completed" \in Settled
    BY DEF Settled
  <2> QED
    BY <1>1, <2>1, <2>2 DEF Proves, SetTel, IInv, TypeOK, TelStatus
<1> QED
  BY <1>2, <1>3

LEMMA ProvesKeeps ==
  ASSUME IInv, NEW n, Proves(n), over' = over
  PROVE  Dialed' = Dialed /\ Monotone /\ FASafe'
<1>1. Dialed' = Dialed
  BY DEF Proves, Dialed, Settled, NoConversation
<1> QED
  BY <1>1 DEF Proves, Monotone, FASafe, IInv

LEMMA CloseIInv ==
  ASSUME IInv, NEW h \in Requests, Close(h)
  PROVE  IInv'
<1> DEFINE n == req[h].n
<1>1. Proves(n) /\ n \in Sessions /\ n \in Dialed
  BY CloseFacts DEF Proves, Dialed
<1>2. Dialed' = Dialed /\ Monotone /\ FASafe'
  BY <1>1, ProvesKeeps DEF Close, requestUnchanged, worldVars
<1>3. /\ status' \in [Sessions -> Status] /\ counted' \in [Sessions -> Nat]
      /\ \A m \in Sessions : m # n => status'[m] = status[m]
  BY <1>1 DEF Close, Count, IInv, TypeOK, Status
<1>4. req' = [req EXCEPT ![h] = Idle]
  BY DEF Close, Goto
<1>5. req' \in [Requests -> Request] /\ \A i \in Requests : req'[i] \in {req[i], Idle}
  BY <1>4, IdleRequest DEF IInv, TypeOK
<1>6. TypeOK'
  BY <1>1, <1>3, <1>5
  DEF Proves, Close, IInv, TypeOK, requestUnchanged, worldVars, lineVars, sweepVars
<1> QED
  BY <1>1, <1>2, <1>3, <1>5, <1>6, Kept
  DEF Close, requestUnchanged, worldVars, lineVars, sweepVars

LEMMA AdoptIInv ==
  ASSUME IInv, NEW h \in Requests, Adopt(h)
  PROVE  IInv'
<1> DEFINE n == req[h].n
<1>1. Proves(n) /\ n \in Sessions /\ n \in Dialed
  BY AdoptFacts DEF Proves, Dialed
<1>2. Dialed' = Dialed /\ Monotone /\ FASafe'
  BY <1>1, ProvesKeeps DEF Adopt, requestUnchanged, worldVars
<1>3. req[h].k \in {0} \union Sessions
  BY DEF IInv, TypeOK, Request
<1>4. /\ status' \in [Sessions -> Status] /\ counted' \in [Sessions -> Nat]
      /\ conv' \in [Sessions -> {0} \union Sessions]
      /\ \A m \in Sessions : m # n => status'[m] = status[m] /\ conv'[m] = conv[m]
  BY <1>1, <1>3 DEF Adopt, Count, IInv, TypeOK, Status
<1>5. req' = [req EXCEPT ![h] = Idle]
  BY DEF Adopt, Goto
<1>6. req' \in [Requests -> Request] /\ \A i \in Requests : req'[i] \in {req[i], Idle}
  BY <1>5, IdleRequest DEF IInv, TypeOK
<1>7. TypeOK'
  BY <1>1, <1>4, <1>6
  DEF Proves, Adopt, IInv, TypeOK, requestUnchanged, worldVars, lineVars, sweepVars
<1> QED
  BY <1>1, <1>2, <1>4, <1>6, <1>7, Kept
  DEF Adopt, requestUnchanged, worldVars, lineVars, sweepVars

LEMMA LinkIInv ==
  ASSUME IInv, NEW h \in Requests, Link(h)
  PROVE  IInv'
<1> DEFINE n == req[h].n
           row == [req[h] EXCEPT !.pc = "close", !.tel = "completed"]
<1>1. n \in Sessions /\ n \in Dialed /\ req[h].k \in over /\ req[h].k \in Sessions
  BY DEF Link, IInv, ReqInv, Dialed, TypeOK
<1>2. /\ Dialed' = Dialed /\ Monotone /\ FASafe' /\ tel' \in [Sessions -> TelStatus]
      /\ tel'[n] \in Settled /\ ser' \subseteq ser \union {n}
  <2>1. CASE Proves(n)
    BY <2>1, ProvesKeeps DEF Proves, Link, requestUnchanged, worldVars
  <2>2. CASE tel' = tel /\ ser' = ser /\ req[h].tel = "completed"
    BY <2>2 DEF Dialed, Monotone, FASafe, IInv, ReqInv, TypeOK, Settled,
                Link, requestUnchanged, worldVars
  <2> QED
    BY <2>1, <2>2, LinkFacts
<1>3. /\ conv' \in [Sessions -> {0} \union Sessions]
      /\ \A m \in Sessions : m # n => conv'[m] = conv[m]
  BY <1>1 DEF Link, IInv, TypeOK
<1>4. row \in Request /\ row.k = req[h].k /\ row.n = n
  BY ReqTyped DEF IInv, Request, TelStatus, Settled
<1>5. req' = [req EXCEPT ![h] = row]
  BY DEF Link, Goto
<1> HIDE DEF row
<1>6. /\ req' \in [Requests -> Request] /\ req'[h] = row
      /\ \A i \in Requests : i # h => req'[i] = req[i]
  BY <1>4, <1>5 DEF IInv, TypeOK
<1>7. TypeOK'
  BY <1>1, <1>2, <1>3, <1>6
  DEF Link, IInv, TypeOK, requestUnchanged, worldVars, lineVars, sweepVars
<1>8. ReqInv(h)'
  BY <1>1, <1>2, <1>4, <1>6 DEF ReqInv, Monotone
<1> QED
  BY <1>1, <1>2, <1>3, <1>6, <1>7, <1>8, Kept
  DEF Link, requestUnchanged, worldVars, lineVars, sweepVars

-----------------------------------------------------------------------------
(* The probe, the sweeps, the stop *)

LEMMA ProbeIInv ==
  ASSUME IInv, NEW n \in Sessions, Probe(n)
  PROVE  IInv'
<1>1. /\ tel' \in [Sessions -> TelStatus] /\ Dialed' = Dialed
      /\ \A m \in Sessions : tel'[m] # tel[m] =>
           tel[m] \in {"dialing", "ringing"} /\ tel'[m] = "failed"
  <2>1. CASE UNCHANGED tel
    BY <2>1 DEF IInv, TypeOK, Dialed
  <2>2. CASE Routable(n) /\ SetTel(n, "failed")
    <3>1. n \in Dialed /\ "failed" \in Active \union Settled
      BY <2>2 DEF Routable, Dialed, Settled
    <3> QED
      BY <2>2, <3>1, SetTelDialed DEF IInv, Routable
  <2> QED
    BY <2>1, <2>2 DEF Probe
<1>2. TypeOK'
  BY <1>1 DEF Probe, IInv, TypeOK, worldVars, lineVars, sweepVars
<1>3. Monotone /\ FASafe'
  BY <1>1 DEF Probe, Monotone, FASafe, IInv, Settled, NoConversation, worldVars
<1> QED
  BY <1>1, <1>2, <1>3, Kept DEF Probe, worldVars, lineVars, sweepVars

LEMMA SelectOverdueIInv ==
  ASSUME IInv, SelectOverdue
  PROVE  IInv'
<1>1. ASSUME NEW s \in swept'
      PROVE  s \in Sessions \X BOOLEAN /\ s[1] \in Dialed /\ (s[2] => s[1] \in ser)
  <2> DEFINE Late == {m \in Sessions : Overdue(m)}
             Has(n) == n \in ser
  <2>1. swept' = {<<n, Has(n)>> : n \in Late}
    BY DEF SelectOverdue
  <2>2. Late \subseteq Sessions /\ Late \subseteq Dialed
    BY DEF Overdue, Dialed
  <2>3. \A n : Has(n) \in BOOLEAN
    OBVIOUS
  <2> HIDE DEF Late, Has
  <2>4. PICK n \in Late : s = <<n, Has(n)>>
    BY <2>1
  <2>5. s \in Sessions \X BOOLEAN /\ s[1] = n /\ s[2] = Has(n)
    BY <2>2, <2>3, <2>4
  <2>6. Has(n) => n \in ser
    BY DEF Has
  <2> QED
    BY <2>2, <2>5, <2>6
<1>2. TypeOK'
  BY <1>1 DEF SelectOverdue, IInv, TypeOK, rowVars, worldVars, lineVars
<1>3. Dialed' = Dialed /\ Monotone /\ FASafe'
  BY DEF SelectOverdue, rowVars, worldVars, Dialed, Monotone, IInv, FASafe
<1>4. SweptInv'
  BY <1>1, <1>3 DEF SweptInv, SelectOverdue, IInv, rowVars
<1> QED
  BY <1>2, <1>3, <1>4, Kept DEF SelectOverdue, rowVars, worldVars, lineVars

(* A row the sweep had loaded gets a verdict, completed only with evidence. *)
LEMMA SweepFacts ==
  ASSUME IInv, Sweep
  PROVE  /\ tel' \in [Sessions -> TelStatus] /\ Dialed' = Dialed
         /\ \A n \in Sessions : tel'[n] # tel[n] =>
              /\ n \in Dialed /\ tel'[n] \in {"completed", "stale_in_call"}
              /\ \E e \in BOOLEAN : <<n, e>> \in swept
              /\ tel'[n] = "completed" => n \in ser
<1>1. ASSUME NEW n \in Sessions, tel'[n] # tel[n]
      PROVE  /\ n \in Dialed /\ tel'[n] \in {"completed", "stale_in_call"}
             /\ \E e \in BOOLEAN : <<n, e>> \in swept
             /\ tel'[n] = "completed" => n \in ser
  <2>1. PICK e \in BOOLEAN : <<n, e>> \in swept
    BY <1>1 DEF Sweep, IInv, TypeOK
  <2>2. n \in Dialed
    BY <2>1 DEF IInv, SweptInv
  <2>3. tel'[n] = Verdict(n, <<n, TRUE>> \in swept)
    BY <2>1 DEF Sweep
  <2>4. <<n, TRUE>> \in swept => n \in ser
    BY DEF IInv, SweptInv
  <2> QED
    BY <2>1, <2>2, <2>3, <2>4 DEF Verdict
<1>2. DOMAIN tel' = Sessions /\ tel' = [n \in Sessions |-> tel'[n]]
  BY DEF Sweep
<1>3. \A n \in Sessions : tel'[n] \in TelStatus
  BY <1>1 DEF IInv, TypeOK, TelStatus, Settled
<1>4. tel' \in [Sessions -> TelStatus]
  BY <1>2, <1>3
<1>5. Dialed' = Dialed
  BY <1>1 DEF Dialed
<1> QED
  BY <1>1, <1>4, <1>5

LEMMA SweepIInv ==
  ASSUME IInv, Sweep
  PROVE  IInv'
<1>1. /\ tel' \in [Sessions -> TelStatus] /\ Dialed' = Dialed
      /\ \A n \in Sessions : tel'[n] # tel[n] =>
              /\ n \in Dialed /\ tel'[n] \in {"completed", "stale_in_call"}
              /\ tel'[n] = "completed" => n \in ser
  BY SweepFacts
<1>2. TypeOK'
  BY <1>1 DEF Sweep, IInv, TypeOK, worldVars, lineVars
<1>3. Monotone /\ FASafe'
  BY <1>1 DEF Sweep, Monotone, FASafe, IInv, Settled, worldVars
<1> QED
  BY <1>1, <1>2, <1>3, Kept DEF Sweep, worldVars, lineVars

LEMMA StaleIInv ==
  ASSUME IInv, SelectStale \/ Abandon
  PROVE  IInv'
<1>1. TypeOK'
  BY DEF SelectStale, Abandon, IInv, TypeOK, Status, rowVars, worldVars, lineVars
<1>2. Dialed' = Dialed /\ Monotone /\ FASafe'
  BY DEF SelectStale, Abandon, rowVars, worldVars, Dialed, Monotone, IInv, FASafe
<1>3. stale \subseteq Dialed /\ stale' \subseteq Dialed
  BY DEF SelectStale, Abandon, Stale, IInv, SweptInv, RowInv
<1>4. SweptInv'
  BY <1>2, <1>3 DEF SweptInv, IInv, Monotone, SelectStale, Abandon
<1>5. \A n \in Sessions : n \notin Dialed => status'[n] = status[n]
  BY <1>3 DEF SelectStale, Abandon, rowVars
<1> QED
  BY <1>1, <1>2, <1>4, <1>5, Kept DEF SelectStale, Abandon, rowVars, worldVars, lineVars

LEMMA StopIInv ==
  ASSUME IInv, Stop
  PROVE  IInv'
<1>1. stops' \in 0..MaxStops
  BY BoundAssumption DEF Stop, IInv, TypeOK
<1>2. req' \in [Requests -> Request] /\ \A h \in Requests : req'[h] = Idle
  BY IdleRequest DEF Stop
<1>3. TypeOK'
  BY <1>1, <1>2 DEF Stop, HangUp, IInv, TypeOK, rowVars, worldVars
<1>4. Dialed' = Dialed /\ Monotone /\ FASafe'
  BY DEF Stop, rowVars, worldVars, Dialed, Monotone, IInv, FASafe
<1> QED
  BY <1>2, <1>3, <1>4, Kept DEF Stop, HangUp, rowVars, worldVars

-----------------------------------------------------------------------------
(* Every step *)

LEMMA RequestIInv ==
  ASSUME IInv, NEW h \in Requests,
         Handle(h) \/ \E kind \in {"postcall", "end"}, k \in Sessions : Deliver(h, kind, k)
  PROVE  IInv'
BY KnownIInv, UnknownIInv, ByProviderCallIInv, ByLeadIInv, ReconcileIInv, GiveUpIInv,
   LinkIInv, CloseIInv, AdoptIInv DEF Handle, Deliver

LEMMA AnswerIInv ==
  ASSUME IInv, Answer
  PROVE  IInv'
BY AcceptedIInv, RefusalIInv, TransientIInv, RaisesIInv DEF Answer

LEMMA StutterIInv ==
  ASSUME IInv, UNCHANGED vars
  PROVE  IInv'
<1>1. TypeOK'
  BY DEF vars, rowVars, worldVars, lineVars, sweepVars, IInv, TypeOK
<1>2. Dialed' = Dialed /\ Monotone /\ FASafe'
  BY DEF vars, rowVars, worldVars, Dialed, Monotone, IInv, FASafe
<1> QED
  BY <1>1, <1>2, Kept DEF vars, rowVars, worldVars, lineVars, sweepVars

THEOREM OutboundInductive == Spec => []IInv
<1>1. IInv /\ [Next]_vars => IInv'
  <2> SUFFICES ASSUME IInv, [Next]_vars PROVE IInv'
    OBVIOUS
  <2>1. CASE Dial \/ PlaceCall \/ Answer
    BY <2>1, DialIInv, PlaceCallIInv, AnswerIInv
  <2>2. CASE \E n \in Sessions : CallEnds(n) \/ Tick(n) \/ Probe(n)
    BY <2>2, CallEndsIInv, TickIInv, ProbeIInv
  <2>3. CASE \/ \E h \in Requests, kind \in {"postcall", "end"}, k \in Sessions :
                  Deliver(h, kind, k)
             \/ \E h \in Requests : Handle(h)
    BY <2>3, RequestIInv
  <2>4. CASE SelectOverdue \/ Sweep \/ SelectStale \/ Abandon \/ Stop
    BY <2>4, SelectOverdueIInv, SweepIInv, StaleIInv, StopIInv
  <2>5. CASE UNCHANGED vars
    BY <2>5, StutterIInv
  <2> QED
    BY <2>1, <2>2, <2>3, <2>4, <2>5 DEF Next
<1> QED
  BY InitIInv, <1>1, PTL DEF Spec

-----------------------------------------------------------------------------
(* What follows for every behaviour *)

(* Every variable keeps its type; the provider is asked at most twice in a
   dial. *)
THEOREM OutboundTypeCorrect == Spec => []TypeOK
<1>1. IInv => TypeOK
  BY DEF IInv
<1> QED
  BY <1>1, OutboundInductive, PTL

(* No row is completed or voicemail without session-end evidence, whoever wrote
   the status and however stale the row it had loaded. *)
THEOREM NoFalseCompletion == Spec => []FASafe
<1>1. IInv => FASafe
  BY DEF IInv
<1> QED
  BY <1>1, OutboundInductive, PTL

(* The writes by status, for the two results below: what each step may do to
   the status of a row. *)
LEMMA StatusWrites ==
  ASSUME IInv, [Next]_vars, NEW n \in Sessions, tel'[n] # tel[n]
  PROVE  \/ tel[n] = "none" /\ Dial /\ n = Newest + 1
         \/ tel[n] = "dialing" /\ tel'[n] = "ringing"
         \/ InProgress(n) /\ n \in Dialed /\ tel'[n] \in NoConversation \union {"failed"}
         \/ n \in Dialed /\ tel'[n] \in {"completed", "voicemail"}
         \/ tel[n] \in {"dialing", "ringing"} /\ tel'[n] = "failed"
         \/ (\E e \in BOOLEAN : <<n, e>> \in swept) /\ n \in Dialed /\ tel'[n] = "stale_in_call"
<1>1. CASE Dial
  BY <1>1, DialFacts
<1>2. CASE PlaceCall \/ Transient \/ Raises
  BY <1>2 DEF PlaceCall, Transient, Raises, rowVars
<1>3. CASE \E withConv \in BOOLEAN : Accepted(withConv)
  BY <1>3, AcceptedFacts
<1>4. CASE (\E new \in {"no_answer", "failed"} : Refused(new)) \/ TimedOut \/ FailedTwice
  <2>1. PICK new \in {"no_answer", "failed", "recurrent_error"} :
          Newest \in Dialed /\ SetTel(Newest, new) /\ line # "free"
    BY <1>4, RefusalFacts
  <2>2. n = Newest /\ tel'[n] = new
    BY <2>1 DEF SetTel, IInv, TypeOK
  <2> QED
    BY <2>1, <2>2 DEF InProgress, NoConversation
<1>5. CASE \E k \in Sessions : CallEnds(k) \/ Tick(k)
  BY <1>5 DEF CallEnds, Tick, rowVars
<1>6. CASE \E k \in Sessions : Probe(k)
  BY <1>6 DEF Probe, Routable, SetTel, IInv, TypeOK
<1>7. CASE \E h \in Requests :
             \/ \E kind \in {"postcall", "end"}, k \in Sessions : Deliver(h, kind, k)
             \/ ByProviderCall(h) \/ ByLead(h) \/ Reconcile(h) \/ NotFound(h) \/ LeaveAlone(h)
  BY <1>7 DEF Deliver, Known, Unknown, ByProviderCall, ByLead, Reconcile, NotFound,
              LeaveAlone, rowVars
<1>8. CASE \E h \in Requests : Link(h) \/ Close(h) \/ Adopt(h)
  BY <1>8, LinkFacts, CloseFacts, AdoptFacts DEF Proves
<1>9. CASE Sweep
  BY <1>9, SweepFacts
<1>10. CASE SelectOverdue \/ SelectStale \/ Abandon \/ Stop \/ UNCHANGED vars
  BY <1>10 DEF SelectOverdue, SelectStale, Abandon, Stop, vars, rowVars
<1> QED
  BY <1>1, <1>2, <1>3, <1>4, <1>5, <1>6, <1>7, <1>8, <1>9, <1>10
  DEF Next, Answer, Handle

(* A completed call is taken back only by the dial in progress on its row or by
   a sweep that had loaded it: not by the probe, a webhook or /end. *)
THEOREM CompletionTakenBackBy == Spec => ProbePreserves
<1>1. IInv /\ [Next]_vars =>
        [\A n \in Sessions :
           tel[n] = "completed" /\ tel'[n] \notin {"completed", "voicemail"} =>
             InProgress(n) \/ \E e \in BOOLEAN : <<n, e>> \in swept]_vars
  BY StatusWrites DEF NoConversation
<1> QED
  BY <1>1, OutboundInductive, PTL DEF Spec, ProbePreserves

-----------------------------------------------------------------------------
(* OutboundCall implements CallLife *)

LEMMA PhaseFacts ==
  ASSUME NEW t \in TelStatus
  PROVE  /\ Phase(t) \in {"none", "open", "settled"}
         /\ Phase(t) = "none" <=> t = "none"
         /\ Phase(t) = "open" <=> t \in Active
         /\ Phase(t) = "settled" <=> t \in Settled
BY DEF Phase, TelStatus, Active, Settled, NoConversation

(* Without new evidence, some open rows settle, or nothing happens. *)
LEMMA LifeSettles ==
  ASSUME TypeOK, TypeOK', Dialed' = Dialed, Monotone, ser' = ser, over' = over
  PROVE  [Life!Next]_(Life!vars)
<1> DEFINE S == {n \in Sessions : Phase(tel'[n]) # Phase(tel[n])}
<1>1. \A n \in Sessions : tel[n] \in TelStatus /\ tel'[n] \in TelStatus
  BY DEF TypeOK
<1>2. ASSUME NEW n \in S PROVE Phase(tel[n]) = "open" /\ Phase(tel'[n]) = "settled"
  <2>1. tel[n] = "none" <=> tel'[n] = "none"
    BY DEF Dialed
  <2>2. tel[n] \in Settled => tel'[n] \in Settled
    BY DEF Monotone
  <2> QED
    BY <1>1, <2>1, <2>2, PhaseFacts
<1>3. [n \in Sessions |-> Phase(tel'[n])] =
        [n \in Sessions |-> IF n \in S THEN "settled" ELSE [m \in Sessions |-> Phase(tel[m])][n]]
  BY <1>2
<1>4. \A n \in S : [m \in Sessions |-> Phase(tel[m])][n] = "open"
  BY <1>2
<1>5. S \in SUBSET Sessions
  OBVIOUS
<1> HIDE DEF S
<1>6. Life!Settle(S)
  BY <1>3, <1>4 DEF Life!Settle
<1> QED
  BY <1>5, <1>6 DEF Life!Next

(* A request that leaves evidence settles its row. *)
LEMMA LifeProves ==
  ASSUME IInv, NEW n, Proves(n), over' = over
  PROVE  Life!Next
<1>1. n \in Sessions /\ tel[n] \in TelStatus /\ tel[n] # "none"
  BY DEF Proves, Dialed, IInv, TypeOK
<1>2. Phase(tel'[n]) = "settled" /\ Phase(tel[n]) # "none"
  BY <1>1, PhaseFacts DEF Proves, TelStatus
<1>3. \A m \in Sessions : m # n => Phase(tel'[m]) = Phase(tel[m])
  BY DEF Proves
<1>4. Life!Prove(n)
  BY <1>1, <1>2, <1>3 DEF Life!Prove, Proves
<1> QED
  BY <1>1, <1>4 DEF Life!Next

(* A dial opens a row while no other is open. *)
LEMMA LifeOpens ==
  ASSUME IInv, Dial
  PROVE  Life!Next
<1> DEFINE N == Newest + 1
<1>1. /\ N \in Sessions /\ tel[N] = "none" /\ tel'[N] = "dialing"
      /\ \A n \in Sessions : n # N => tel'[n] = tel[n]
  BY DialFacts
<1> HIDE DEF N
<1>2. \A n \in Sessions : tel[n] \in TelStatus
  BY DEF IInv, TypeOK
<1>3. Phase(tel[N]) = "none" /\ Phase(tel'[N]) = "open"
  BY <1>1 DEF Phase, Active
<1>4. \A n \in Sessions : Phase(tel[n]) # "open"
  BY <1>2, PhaseFacts DEF Dial
<1>5. \A n \in Sessions : n # N => Phase(tel'[n]) = Phase(tel[n])
  BY <1>1
<1>6. Life!Open(N)
  BY <1>1, <1>3, <1>4, <1>5 DEF Life!Open, Dial, worldVars
<1> QED
  BY <1>1, <1>6 DEF Life!Next

(* But for a dial, the rows dialed and settled stay so. *)
LEMMA StatusKept ==
  ASSUME IInv, [Next]_vars, ~Dial, IInv'
  PROVE  /\ Dialed' = Dialed
         /\ \A n \in Sessions : tel[n] \in Settled => tel'[n] \in Settled
<1>1. ASSUME NEW n \in Sessions, tel'[n] # tel[n]
      PROVE  /\ n \in Dialed /\ tel'[n] # "none"
             /\ tel[n] \in Settled => tel'[n] \in Settled
  <2>1. \/ n \in Dialed /\ tel'[n] \in Settled
        \/ tel[n] \in {"dialing", "ringing"} /\ tel'[n] \in {"ringing", "failed"}
    BY <1>1, StatusWrites DEF Settled
  <2> QED
    BY <1>1, <2>1 DEF Dialed, Settled, NoConversation
<1> QED
  BY <1>1 DEF Dialed

LEMMA StepOfLife ==
  ASSUME IInv, [Next]_vars, IInv'
  PROVE  [Life!Next]_(Life!vars)
<1>1. CASE Dial
  BY <1>1, LifeOpens
<1>2. CASE \E k \in Sessions : CallEnds(k)
  <2>1. PICK k \in Sessions : CallEnds(k)
    BY <1>2
  <2>2. k \in Dialed
    BY <2>1 DEF CallEnds, IInv, RowInv
  <2>3. [n \in Sessions |-> Phase(tel[n])][k] # "none"
    BY <2>2, PhaseFacts DEF Dialed, IInv, TypeOK
  <2>4. Life!EndCall(k)
    BY <2>1, <2>3 DEF CallEnds, rowVars, Life!EndCall
  <2> QED
    BY <2>4 DEF Life!Next
<1>3. CASE \E h \in Requests : Close(h) \/ Adopt(h) \/ Link(h)
  <2>1. PICK h \in Requests : Close(h) \/ Adopt(h) \/ Link(h)
    BY <1>3
  <2>2. over' = over
    BY <2>1 DEF Close, Adopt, Link, requestUnchanged, worldVars
  <2>3. Proves(req[h].n) \/ (tel' = tel /\ ser' = ser)
    BY <2>1, CloseFacts, AdoptFacts, LinkFacts
  <2> QED
    BY <2>2, <2>3, LifeProves DEF Life!vars
<1>4. CASE ~Dial /\ ser' = ser /\ over' = over
  BY <1>4, StatusKept, LifeSettles DEF Monotone, IInv
<1>5. CASE PlaceCall \/ Answer
  <2>1. ser' = ser /\ over' = over
    BY <1>5 DEF PlaceCall, Answer, Accepted, Refused, TimedOut, Transient, FailedTwice,
                Raises, rowVars, worldVars
  <2> QED
    BY <1>1, <1>4, <2>1
<1>6. CASE \E n \in Sessions : Tick(n) \/ Probe(n)
  <2>1. ser' = ser /\ over' = over
    BY <1>6 DEF Tick, Probe, rowVars, worldVars
  <2> QED
    BY <1>1, <1>4, <2>1
<1>7. CASE \E h \in Requests :
             \/ \E kind \in {"postcall", "end"}, k \in Sessions : Deliver(h, kind, k)
             \/ ByProviderCall(h) \/ ByLead(h) \/ Reconcile(h) \/ NotFound(h) \/ LeaveAlone(h)
  <2>1. ser' = ser /\ over' = over
    BY <1>7 DEF Deliver, Known, Unknown, ByProviderCall, ByLead, Reconcile, NotFound,
                LeaveAlone, rowVars, requestUnchanged, worldVars
  <2> QED
    BY <1>1, <1>4, <2>1
<1>8. CASE SelectOverdue \/ Sweep \/ SelectStale \/ Abandon \/ Stop \/ UNCHANGED vars
  <2>1. ser' = ser /\ over' = over
    BY <1>8 DEF SelectOverdue, Sweep, SelectStale, Abandon, Stop, vars, rowVars, worldVars
  <2> QED
    BY <1>1, <1>4, <2>1
<1> QED
  BY <1>1, <1>2, <1>3, <1>5, <1>6, <1>7, <1>8 DEF Next, Handle

(* The rows of a lead live the life CallLife promises: opened once and alone,
   settled, never reopened, evidence kept and only after a call ended. *)
THEOREM OutboundRefinement == Spec => LifeOfCall
<1>1. Init => Life!Init
  <2>1. Phase("none") = "none"
    BY DEF Phase, Active
  <2> QED
    BY <2>1 DEF Init, Life!Init
<1>2. IInv /\ IInv' /\ [Next]_vars => [Life!Next]_(Life!vars)
  BY StepOfLife
<1> QED
  BY <1>1, <1>2, OutboundInductive, PTL DEF Spec, LifeOfCall, Life!Spec
=============================================================================
