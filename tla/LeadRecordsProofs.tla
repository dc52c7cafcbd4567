------------------------- MODULE LeadRecordsProofs -------------------------
(* The leads of one client, for any tables the CRM returns and any number of
   imports, tool calls and routes: duplicates are accounted for, a captured
   field and its fact agree, an import goes forward only. *)
EXTENDS LeadRecords, TLAPS

Lead == [phone : Phones, status : Statuses, field : Values \union {None},
         fact : Values \union {None}, looked : 0 .. MaxLeads, captured : BOOLEAN]

(* The record at hand has a phone; if nobody was found for it, whoever has its
   phone came after the look-up.  DuplicatesAccounted is not inductive without. *)
AtHand(e) ==
  /\ e.todo # <<>>
  /\ Head(e.todo).phone # None
  /\ e.hit = 0 => \A l \in Rows : leads[l].phone = Head(e.todo).phone => e.looked < l

LookedUp == \A i \in Imports : imp[i].pc = "found" => AtHand(imp[i])

Inv == TypeOK /\ LookedUp

-----------------------------------------------------------------------------
(* What the operators return. *)

LEMMA StatusSet ==
  Statuses = {"new", "called", "follow_up", "quoted", "interested", "not_interested"}
BY DEF Statuses, Order

LEMMA RankIsNat ==
  ASSUME NEW s \in Statuses
  PROVE  Rank(s) \in Nat
<1>1. \E n \in DOMAIN Order : Order[n] = s
  BY DEF Statuses
<1>2. Rank(s) \in DOMAIN Order
  BY <1>1 DEF Rank
<1>3. DOMAIN Order \subseteq Nat
  BY DEF Order
<1> QED BY <1>2, <1>3

LEMMA FollowsAreStatuses ==
  ASSUME NEW s
  PROVE  Follows(s) \subseteq Statuses
BY StatusSet DEF Follows

LEMMA RowIsLead ==
  ASSUME NEW phone \in Phones, NEW status \in Statuses, NEW value \in Values \union {None},
         NEW looked \in 0 .. MaxLeads
  PROVE  Row(phone, status, value, looked) \in Lead
BY DEF Row, Lead

LEMMA HeadIsRecord ==
  ASSUME NEW todo \in Seq(Records), todo # <<>>
  PROVE  Head(todo) \in Records /\ Tail(todo) \in Seq(Records)
OBVIOUS

LEMMA EntriesGrow ==
  ASSUME NEW n \in Nat, NEW m \in Nat, n <= m
  PROVE  Entry(n) \subseteq Entry(m)
BY DEF Entry

(* An import past its fetch. *)
LEMMA UnderWay ==
  ASSUME TypeOK, NEW i \in Imports, imp[i].pc \in {"next", "found"}
  PROVE  imp[i] \in Entry(Len(leads))
BY DEF TypeOK, Idle, Done

LEMMA NextIsEntry ==
  ASSUME NEW m \in Nat, NEW e \in Entry(m), e.todo # <<>>
  PROVE  NextRecord(e) \in Entry(m) /\ NextRecord(e).pc = "next"
         /\ NextRecord(e).loaded = e.loaded
<1>1. Tail(e.todo) \in Seq(Records)
  BY HeadIsRecord DEF Entry
<1> QED BY <1>1 DEF NextRecord, Entry

LEMMA FoundIsEntry ==
  ASSUME NEW e \in Entry(Len(leads)), Len(leads) \in Nat, NEW l \in 0 .. Len(leads)
  PROVE  /\ Found(e, l) \in Entry(Len(leads))
         /\ Found(e, l).todo = e.todo /\ Found(e, l).hit = l
         /\ Found(e, l).looked = Len(leads)
<1>1. Len(leads) \in 0 .. Len(leads)
  OBVIOUS
<1> QED BY <1>1 DEF Found, Entry

LEMMA HoldingIsEntry ==
  ASSUME NEW m \in Nat, NEW e \in Entry(m), NEW l \in Nat, NEW status \in Statuses \union {None}
  PROVE  /\ Holding(e, l, status) \in Entry(m)
         /\ Holding(e, l, status).pc = e.pc /\ Holding(e, l, status).todo = e.todo
         /\ Holding(e, l, status).hit = e.hit
BY DEF Holding, Entry

(* A row of the table: what it is, and what it stays when fields change. *)
LEMMA RowOf ==
  ASSUME TypeOK, NEW l \in Rows
  PROVE  /\ leads[l] \in Lead
         /\ leads[l].phone \in Phones /\ leads[l].status \in Statuses
         /\ leads[l].field \in Values \union {None}
<1>1. leads \in Seq(Lead)
  BY DEF TypeOK, Lead
<1>2. leads[l] \in Lead
  BY <1>1 DEF Rows
<1> QED BY <1>2 DEF Lead

-----------------------------------------------------------------------------
(* Steps that leave the rows as they are, or keep their number and phones. *)

SamePhones == Len(leads') = Len(leads) /\ \A l \in Rows : leads'[l].phone = leads[l].phone

LEMMA RowsKeepType ==
  ASSUME TypeOK, NEW l \in Rows, NEW lead \in Lead, leads' = [leads EXCEPT ![l] = lead],
         lead.phone = leads[l].phone
  PROVE  leads' \in Seq(Lead) /\ SamePhones
<1>1. leads \in Seq(Lead)
  BY DEF TypeOK, Lead
<1>2. leads' \in Seq(Lead) /\ Len(leads') = Len(leads)
  BY <1>1 DEF Rows
<1>3. \A k \in Rows : leads'[k] = IF k = l THEN lead ELSE leads[k]
  BY <1>1 DEF Rows
<1> QED BY <1>2, <1>3 DEF SamePhones

(* The entry of one import changes, over rows with the same phones. *)
LEMMA ImportStep ==
  ASSUME Inv, NEW i \in Imports, NEW e \in {Idle, Done} \union Entry(Len(leads)),
         e.pc = "found" => AtHand(e),
         imp' = [imp EXCEPT ![i] = e], UNCHANGED <<cap, route>>,
         leads' \in Seq(Lead), SamePhones
  PROVE  Inv'
<1>1. \A j \in Imports : imp'[j] = IF j = i THEN e ELSE imp[j]
  BY DEF Inv, TypeOK
<1>2. TypeOK'
  BY DEF Inv, TypeOK, SamePhones, Lead, Rows
<1>3. Rows' = Rows
  BY DEF SamePhones, Rows
<1>4. ASSUME NEW j \in Imports, imp'[j].pc = "found" PROVE AtHand(imp[j])' 
  <2>1. CASE j = i
    BY <1>1, <1>3, <1>4, <2>1 DEF AtHand, SamePhones
  <2>2. CASE j # i
    BY <1>1, <1>3, <1>4, <2>2 DEF Inv, LookedUp, AtHand, SamePhones
  <2> QED BY <2>1, <2>2
<1> QED BY <1>2, <1>4 DEF Inv, LookedUp

(* A step of a tool call or of a route. *)
LEMMA OtherStep ==
  ASSUME Inv, UNCHANGED imp, leads' \in Seq(Lead), SamePhones,
         cap' \in [Captures -> {Idle, Done} \union
           [pc : {"read"}, lead : Rows, value : Values, seen : Values \union {None}]],
         route' \in [Routes -> {Idle, Done} \union [pc : {"loaded"}, lead : Rows, to : Statuses]]
  PROVE  Inv'
<1>1. TypeOK'
  BY DEF Inv, TypeOK, SamePhones, Lead, Rows
<1>2. LookedUp'
  BY DEF Inv, LookedUp, AtHand, SamePhones, Rows
<1> QED BY <1>1, <1>2 DEF Inv

(* A row is added, by nobody's import or by the import i, which goes on. *)
LEMMA AddedStep ==
  ASSUME Inv, NEW lead \in Lead, leads' = Append(leads, lead), Len(leads) < MaxLeads,
         UNCHANGED <<cap, route>>,
         imp' \in [Imports -> {Idle, Done} \union Entry(Len(leads) + 1)],
         \A j \in Imports : imp'[j].pc = "found" => imp'[j] = imp[j]
  PROVE  Inv'
<1>1. leads' \in Seq(Lead) /\ Len(leads') = Len(leads) + 1
      /\ (\A l \in Rows : leads'[l] = leads[l]) /\ leads'[Len(leads) + 1] = lead
  BY DEF Inv, TypeOK, Lead, Rows
<1>2. Rows' = Rows \union {Len(leads) + 1} /\ Rows \subseteq Rows'
  BY <1>1 DEF Rows, Inv, TypeOK
<1>3. TypeOK'
  <2>1. cap' \in [Captures -> {Idle, Done} \union
           [pc : {"read"}, lead : Rows', value : Values, seen : Values \union {None}]]
    BY <1>2 DEF Inv, TypeOK
  <2>2. route' \in [Routes -> {Idle, Done} \union [pc : {"loaded"}, lead : Rows', to : Statuses]]
    BY <1>2 DEF Inv, TypeOK
  <2> QED BY <1>1, <2>1, <2>2, LeadRecordsAssumption DEF TypeOK, Lead, Rows
<1>4. ASSUME NEW j \in Imports, imp'[j].pc = "found"
      PROVE  AtHand(imp[j])'
  <2>1. imp'[j] = imp[j] /\ AtHand(imp[j])
    BY <1>4 DEF Inv, LookedUp
  <2>2. imp[j].looked \in 0 .. Len(leads)
    BY <1>4, <2>1, UnderWay DEF Inv, Entry
  <2>3. ASSUME imp[j].hit = 0, NEW l \in Rows', leads'[l].phone = Head(imp[j].todo).phone
        PROVE  imp[j].looked < l
    <3>1. CASE l \in Rows
      BY <1>1, <2>1, <2>3, <3>1 DEF AtHand
    <3>2. CASE l = Len(leads) + 1
      BY <2>2, <3>2 DEF Inv, TypeOK
    <3> QED BY <1>2, <2>3, <3>1, <3>2
  <2> QED BY <2>1, <2>3 DEF AtHand
<1> QED BY <1>3, <1>4 DEF Inv, LookedUp

-----------------------------------------------------------------------------
LEMMA Initially == Init => Inv
<1> SUFFICES ASSUME Init PROVE Inv
  OBVIOUS
<1>1. TypeOK
  BY LeadRecordsAssumption DEF Init, TypeOK
<1>2. LookedUp
  BY DEF Init, LookedUp, Idle
<1> QED BY <1>1, <1>2 DEF Inv

LEMMA InvKept == Inv /\ [Next]_vars => Inv'
<1> SUFFICES ASSUME Inv, [Next]_vars PROVE Inv'
  OBVIOUS
<1>0. TypeOK /\ leads \in Seq(Lead) /\ Len(leads) \in Nat /\ Len(leads) <= MaxLeads
  BY DEF Inv, TypeOK, Lead
<1>00. UNCHANGED leads => leads' \in Seq(Lead) /\ SamePhones
  BY <1>0 DEF SamePhones, Rows
<1>1. ASSUME Post PROVE Inv'
  <2>1. PICK phone \in Phones, value \in Values \union {None} :
          leads' = Append(leads, Row(phone, "new", value, 0))
    BY <1>1 DEF Post
  <2>2. Row(phone, "new", value, 0) \in Lead
    BY RowIsLead, StatusSet, LeadRecordsAssumption
  <2>3. imp' \in [Imports -> {Idle, Done} \union Entry(Len(leads) + 1)]
    BY <1>0, <1>1, EntriesGrow DEF Post, TypeOK
  <2> QED BY <1>1, <2>1, <2>2, <2>3, AddedStep DEF Post
<1>2. ASSUME NEW o \in Routes, LoadLead(o) PROVE Inv'
  <2>0. PICK l \in Rows : \E to \in Follows(leads[l].status) :
          route' = [route EXCEPT ![o] = [pc |-> "loaded", lead |-> l, to |-> to]]
    BY <1>2 DEF LoadLead
  <2>1. PICK to \in Follows(leads[l].status) :
          route' = [route EXCEPT ![o] = [pc |-> "loaded", lead |-> l, to |-> to]]
    BY <2>0
  <2>2. to \in Statuses
    BY FollowsAreStatuses
  <2>3. route' \in [Routes -> {Idle, Done} \union [pc : {"loaded"}, lead : Rows, to : Statuses]]
    BY <1>0, <2>1, <2>2 DEF TypeOK
  <2> QED BY <1>0, <1>00, <1>2, <2>3, OtherStep DEF LoadLead, TypeOK
<1>3. ASSUME NEW o \in Routes, WriteStatus(o) PROVE Inv'
  <2> DEFINE l == route[o].lead  lead == [leads[l] EXCEPT !.status = route[o].to]
  <2>1. l \in Rows /\ route[o].to \in Statuses
    BY <1>0, <1>3 DEF WriteStatus, TypeOK, Idle, Done
  <2>2. lead \in Lead /\ lead.phone = leads[l].phone
    BY <1>0, <2>1, RowOf DEF Lead
  <2>3. leads' = [leads EXCEPT ![l] = lead]
    BY <1>3 DEF WriteStatus
  <2>4. route' \in [Routes -> {Idle, Done} \union [pc : {"loaded"}, lead : Rows, to : Statuses]]
    BY <1>0, <1>3 DEF WriteStatus, TypeOK
  <2>5. leads' \in Seq(Lead) /\ SamePhones
    BY <1>0, <2>1, <2>2, <2>3, RowsKeepType
  <2> QED BY <1>0, <1>3, <2>4, <2>5, OtherStep DEF WriteStatus, TypeOK
<1>4. ASSUME NEW i \in Imports, Fetch(i) PROVE Inv'
  <2>1. PICK table \in Tables : imp' = [imp EXCEPT ![i] =
         [pc |-> "next", todo |-> table, hit |-> 0, looked |-> 0,
          loaded |-> [l \in 1 .. MaxLeads |-> None]]]
    BY <1>4 DEF Fetch
  <2>2. [pc |-> "next", todo |-> table, hit |-> 0, looked |-> 0,
         loaded |-> [l \in 1 .. MaxLeads |-> None]] \in Entry(Len(leads))
    BY <1>0, LeadRecordsAssumption DEF Entry
  <2> QED BY <1>00, <1>4, <2>1, <2>2, ImportStep DEF Fetch
<1>5. ASSUME NEW i \in Imports, SkipRecord(i) PROVE Inv'
  <2>1. NextRecord(imp[i]) \in Entry(Len(leads)) /\ NextRecord(imp[i]).pc = "next"
    BY <1>0, <1>5, UnderWay, NextIsEntry DEF SkipRecord
  <2> QED BY <1>00, <1>5, <2>1, ImportStep DEF SkipRecord
<1>6. ASSUME NEW i \in Imports, LookUp(i) PROVE Inv'
  <2> DEFINE phone == Head(imp[i].todo).phone
  <2>1. imp[i] \in Entry(Len(leads)) /\ imp[i].todo # <<>> /\ phone # None
    BY <1>0, <1>6, UnderWay DEF LookUp
  <2>2. CASE /\ Matches(phone) = {}
             /\ imp' = [imp EXCEPT ![i] = Found(@, 0)]
    <3>1. /\ Found(imp[i], 0) \in Entry(Len(leads))
          /\ Found(imp[i], 0).todo = imp[i].todo /\ Found(imp[i], 0).hit = 0
      BY <1>0, <2>1, FoundIsEntry
    <3>2. \A l \in Rows : leads[l].phone # phone
      BY <2>2 DEF Matches
    <3>3. AtHand(Found(imp[i], 0))
      BY <2>1, <3>1, <3>2 DEF AtHand
    <3> QED BY <1>00, <1>6, <2>2, <3>1, <3>3, ImportStep DEF LookUp
  <2>3. ASSUME NEW l \in Matches(phone), NEW status \in {leads[l].status, imp[i].loaded[l]} \ {None},
               imp' = [imp EXCEPT ![i] = Holding(Found(@, l), l, status)]
        PROVE  Inv'
    <3> DEFINE e == Holding(Found(imp[i], l), l, status)
    <3>1. l \in Rows /\ l \in 0 .. Len(leads) /\ l \in 1 .. MaxLeads /\ l # 0
      BY <1>0, LeadRecordsAssumption DEF Matches, Rows
    <3>2. status \in Statuses
      BY <1>0, <2>1, <3>1, RowOf DEF Entry
    <3>3. e \in Entry(Len(leads)) /\ e.todo = imp[i].todo /\ e.hit = l
      <4>1. /\ Found(imp[i], l) \in Entry(Len(leads))
            /\ Found(imp[i], l).todo = imp[i].todo /\ Found(imp[i], l).hit = l
        BY <1>0, <2>1, <3>1, FoundIsEntry
      <4>2. l \in Nat /\ status \in Statuses \union {None}
        BY <3>1, <3>2
      <4> QED BY <1>0, <4>1, <4>2, HoldingIsEntry
    <3>4. AtHand(e)
      BY <2>1, <3>1, <3>3 DEF AtHand
    <3> QED BY <1>00, <1>6, <2>3, <3>3, <3>4, ImportStep DEF LookUp
  <2> QED BY <1>6, <2>2, <2>3 DEF LookUp
<1>7. ASSUME NEW i \in Imports, Update(i) PROVE Inv'
  <2> DEFINE rec == Head(imp[i].todo)  l == imp[i].hit  was == imp[i].loaded[l]
             status == IF Ahead(rec.status, was) THEN rec.status ELSE leads[l].status
             e == Holding(NextRecord(imp[i]), l, IF Ahead(rec.status, was) THEN rec.status ELSE was)
  <2>1. imp[i] \in Entry(Len(leads)) /\ imp[i].todo # <<>> /\ l # 0 /\ imp[i].pc = "found"
    BY <1>0, <1>7, UnderWay DEF Update, Inv, LookedUp, AtHand
  <2>2. l \in Rows /\ rec \in Records
    BY <1>0, <2>1, HeadIsRecord DEF Entry, Rows
  <2>3. /\ status \in Statuses
        /\ (IF Ahead(rec.status, was) THEN rec.status ELSE was) \in Statuses \union {None}
    <3>1. Ahead(rec.status, was) => rec.status \in Statuses
      BY <2>2 DEF Ahead, Records
    <3>2. was \in Statuses \union {None}
      <4>1. l \in 1 .. MaxLeads
        BY <1>0, <2>2, LeadRecordsAssumption DEF Rows
      <4> QED BY <2>1, <4>1 DEF Entry
    <3> QED BY <1>0, <2>2, <3>1, <3>2, RowOf
  <2>4. e \in Entry(Len(leads)) /\ e.pc = "next"
    <3>1. NextRecord(imp[i]) \in Entry(Len(leads)) /\ NextRecord(imp[i]).pc = "next"
      BY <1>0, <2>1, NextIsEntry
    <3>2. l \in Nat
      BY <2>2 DEF Rows
    <3> HIDE DEF l, was, rec
    <3> QED BY <1>0, <2>3, <3>1, <3>2, HoldingIsEntry
  <2>5. leads' \in Seq(Lead) /\ SamePhones
    <3>1. CASE leads' = [leads EXCEPT ![l].status = status]
      <4>1. [leads[l] EXCEPT !.status = status] \in Lead
            /\ [leads[l] EXCEPT !.status = status].phone = leads[l].phone
        BY <1>0, <2>2, <2>3, RowOf DEF Lead
      <4> QED BY <1>0, <2>2, <3>1, <4>1, RowsKeepType
    <3>2. ASSUME rec.value # None, NEW value \in {rec.value, leads[l].field} \ {None},
                 leads' = [leads EXCEPT ![l].status = status, ![l].field = value,
                                        ![l].captured = FALSE]
          PROVE  leads' \in Seq(Lead) /\ SamePhones
      <4> DEFINE lead == [leads[l] EXCEPT !.status = status, !.field = value, !.captured = FALSE]
      <4>1. value \in Values
        BY <1>0, <2>2, <3>2, RowOf DEF Records
      <4>2. lead \in Lead /\ lead.phone = leads[l].phone
        BY <1>0, <2>2, <2>3, <4>1, RowOf DEF Lead
      <4>3. leads' = [leads EXCEPT ![l] = lead]
        BY <3>2
      <4> QED BY <1>0, <2>2, <4>2, <4>3, RowsKeepType
    <3> QED BY <1>7, <3>1, <3>2 DEF Update
  <2>6. imp' = [imp EXCEPT ![i] = e]
    BY <1>7 DEF Update
  <2> QED BY <1>7, <2>4, <2>5, <2>6, ImportStep DEF Update
<1>8. ASSUME NEW i \in Imports, Create(i) PROVE Inv'
  <2> DEFINE rec == Head(imp[i].todo)  status == Known(rec.status)
             e == Holding(NextRecord(imp[i]), Len(leads) + 1, status)
  <2>1. imp[i] \in Entry(Len(leads)) /\ imp[i].todo # <<>> /\ rec.phone # None
    BY <1>0, <1>8, UnderWay DEF Create, Inv, LookedUp, AtHand
  <2>2. rec \in Records
    BY <2>1, HeadIsRecord DEF Entry
  <2>3. status \in Statuses
    BY <2>2, StatusSet DEF Known, Records
  <2>4. Row(rec.phone, status, rec.value, imp[i].looked) \in Lead
    BY <1>0, <2>1, <2>2, <2>3, RowIsLead, LeadRecordsAssumption DEF Records, Entry
  <2>5. e \in Entry(Len(leads) + 1) /\ e.pc = "next"
    <3>1. NextRecord(imp[i]) \in Entry(Len(leads) + 1) /\ NextRecord(imp[i]).pc = "next"
      BY <1>0, <2>1, NextIsEntry, EntriesGrow
    <3>2. Len(leads) + 1 \in Nat /\ status \in Statuses \union {None}
      BY <1>0, <2>3
    <3> HIDE DEF status
    <3> QED BY <3>1, <3>2, HoldingIsEntry
  <2>6. imp' = [imp EXCEPT ![i] = e]
    BY <1>8 DEF Create
  <2>7. \A j \in Imports : imp[j] \in {Idle, Done} \union Entry(Len(leads) + 1)
    BY <1>0, EntriesGrow DEF TypeOK
  <2>8. imp' \in [Imports -> {Idle, Done} \union Entry(Len(leads) + 1)]
    BY <1>0, <2>5, <2>6, <2>7 DEF TypeOK
  <2>9. \A j \in Imports : imp'[j].pc = "found" => imp'[j] = imp[j]
    BY <1>0, <2>5, <2>6 DEF TypeOK
  <2> QED BY <1>8, <2>4, <2>8, <2>9, AddedStep DEF Create
<1>9. ASSUME NEW i \in Imports, PersistFails(i) PROVE Inv'
  <2>1. imp[i] \in Entry(Len(leads)) /\ imp[i].todo # <<>>
    BY <1>0, <1>9, UnderWay DEF PersistFails, Inv, LookedUp, AtHand
  <2>2. NextRecord(imp[i]) \in Entry(Len(leads)) /\ NextRecord(imp[i]).pc = "next"
    BY <1>0, <2>1, NextIsEntry
  <2>3. CASE imp' = [imp EXCEPT ![i] = NextRecord(@)]
    BY <1>00, <1>9, <2>2, <2>3, ImportStep DEF PersistFails
  <2>4. CASE imp' = [imp EXCEPT ![i] = Holding(NextRecord(@), imp[i].hit, None)]
    <3> DEFINE e == Holding(NextRecord(imp[i]), imp[i].hit, None)
    <3>1. e \in Entry(Len(leads)) /\ e.pc = "next"
      <4>1. imp[i].hit \in Nat
        BY <1>0, <2>1 DEF Entry
      <4> QED BY <1>0, <2>2, <4>1, HoldingIsEntry
    <3> QED BY <1>00, <1>9, <2>4, <3>1, ImportStep DEF PersistFails
  <2> QED BY <1>9, <2>3, <2>4 DEF PersistFails
<1>10. ASSUME NEW i \in Imports, EndImport(i) PROVE Inv'
  BY <1>00, <1>10, ImportStep DEF EndImport, Done
<1>11. ASSUME NEW c \in Captures, ReadField(c) PROVE Inv'
  <2>1. PICK l \in Rows, value \in Values : cap' = [cap EXCEPT ![c] =
          [pc |-> "read", lead |-> l, value |-> value, seen |-> leads[l].field]]
    BY <1>11 DEF ReadField
  <2>2. leads[l].field \in Values \union {None}
    BY <1>0, RowOf
  <2>3. cap' \in [Captures -> {Idle, Done} \union
           [pc : {"read"}, lead : Rows, value : Values, seen : Values \union {None}]]
    BY <1>0, <2>1, <2>2 DEF TypeOK
  <2> QED BY <1>0, <1>00, <1>11, <2>3, OtherStep DEF ReadField, TypeOK
<1>12. ASSUME NEW c \in Captures, Capture(c) PROVE Inv'
  <2> DEFINE l == cap[c].lead  value == cap[c].value
             lead == [leads[l] EXCEPT
               !.field = IF value # cap[c].seen THEN value ELSE @,
               !.fact = FactAfter(c),
               !.captured = value # cap[c].seen \/ leads[l].field = cap[c].seen]
  <2>0. cap[c] \in [pc : {"read"}, lead : Rows, value : Values, seen : Values \union {None}]
    BY <1>0, <1>12 DEF Capture, TypeOK, Idle, Done
  <2>1. l \in Rows /\ value \in Values
    BY <2>0
  <2>2. lead \in Lead /\ lead.phone = leads[l].phone
    <3>1. leads[l] \in Lead /\ leads[l].field \in Values \union {None}
      BY <1>0, <2>1, RowOf
    <3>2. (value # cap[c].seen \/ leads[l].field = cap[c].seen) \in BOOLEAN
      OBVIOUS
    <3>3. (IF value # cap[c].seen THEN value ELSE leads[l].field) \in Values \union {None}
      BY <2>1, <3>1
    <3>4. FactAfter(c) \in Values \union {None}
      BY <2>1 DEF FactAfter
    <3> QED BY <3>1, <3>2, <3>3, <3>4 DEF Lead
  <2>3. leads' = [leads EXCEPT ![l] = lead]
    BY <1>12 DEF Capture
  <2>4. leads' \in Seq(Lead) /\ SamePhones
    BY <1>0, <2>1, <2>2, <2>3, RowsKeepType
  <2>5. cap' \in [Captures -> {Idle, Done} \union
           [pc : {"read"}, lead : Rows, value : Values, seen : Values \union {None}]]
    BY <1>0, <1>12 DEF Capture, TypeOK
  <2> QED BY <1>0, <1>12, <2>4, <2>5, OtherStep DEF Capture, TypeOK
<1>13. ASSUME NEW c \in Captures, CaptureFails(c) PROVE Inv'
  <2>1. cap' \in [Captures -> {Idle, Done} \union
           [pc : {"read"}, lead : Rows, value : Values, seen : Values \union {None}]]
    BY <1>0, <1>13 DEF CaptureFails, TypeOK
  <2> QED BY <1>0, <1>00, <1>13, <2>1, OtherStep DEF CaptureFails, TypeOK
<1>14. ASSUME UNCHANGED vars PROVE Inv'
  BY <1>14 DEF vars, Inv, TypeOK, LookedUp, AtHand, Rows
<1> QED
  BY <1>1, <1>2, <1>3, <1>4, <1>5, <1>6, <1>7, <1>8, <1>9, <1>10, <1>11, <1>12, <1>13, <1>14
  DEF Next

(* The rows, the imports, the tool calls and the routes keep their types. *)
THEOREM LeadsTypeCorrect == Spec => []TypeOK
<1>1. Inv => TypeOK
  BY DEF Inv
<1> QED BY <1>1, Initially, InvKept, PTL DEF Spec

-----------------------------------------------------------------------------
(* What the rows tell of each other and of themselves. *)

Told == DuplicatesAccounted /\ FactIsField

LEMMA OneRowTold ==
  ASSUME TypeOK, Told, NEW l \in Rows, NEW lead \in Lead, leads' = [leads EXCEPT ![l] = lead],
         lead.phone = leads[l].phone, lead.looked = leads[l].looked,
         lead.captured => lead.fact = lead.field
  PROVE  Told'
<1>1. leads \in Seq(Lead)
  BY DEF TypeOK, Lead
<1>2. Rows' = Rows /\ \A k \in Rows : leads'[k] = IF k = l THEN lead ELSE leads[k]
  BY <1>1 DEF Rows
<1>3. \A k \in Rows : leads'[k].phone = leads[k].phone /\ leads'[k].looked = leads[k].looked
  BY <1>2
<1>4. DuplicatesAccounted'
  BY <1>2, <1>3 DEF Told, DuplicatesAccounted
<1>5. FactIsField'
  BY <1>2 DEF Told, FactIsField
<1> QED BY <1>4, <1>5 DEF Told

LEMMA NewRowTold ==
  ASSUME TypeOK, Told, NEW lead \in Lead, leads' = Append(leads, lead),
         \A l \in Rows : leads[l].phone = lead.phone => lead.looked < l,
         lead.captured = FALSE
  PROVE  Told'
<1>1. leads \in Seq(Lead)
  BY DEF TypeOK, Lead
<1>2. /\ Len(leads) \in Nat
      /\ \A l \in Rows : leads'[l] = leads[l] /\ l < Len(leads) + 1
      /\ leads'[Len(leads) + 1] = lead
  BY <1>1 DEF Rows
<1>3. Rows' = Rows \union {Len(leads) + 1}
  BY <1>1 DEF Rows
<1>4. DuplicatesAccounted'
  <2> SUFFICES ASSUME NEW l \in Rows', NEW m \in Rows', l < m, leads'[l].phone = leads'[m].phone
               PROVE  leads'[m].looked < l
    BY DEF DuplicatesAccounted
  <2>1. Rows \subseteq Nat
    BY DEF Rows
  <2>2. l \in Rows
    BY <1>2, <1>3, <2>1
  <2>3. CASE m \in Rows
    BY <1>2, <2>2, <2>3 DEF Told, DuplicatesAccounted
  <2>4. CASE m = Len(leads) + 1
    BY <1>2, <2>2, <2>4
  <2> QED BY <1>3, <2>3, <2>4
<1>5. FactIsField'
  BY <1>2, <1>3 DEF Told, FactIsField
<1> QED BY <1>4, <1>5 DEF Told

LEMMA ToldKept == Inv /\ Told /\ [Next]_vars => Told'
<1> SUFFICES ASSUME Inv, Told, [Next]_vars PROVE Told'
  OBVIOUS
<1>0. TypeOK
  BY DEF Inv
<1>1. ASSUME UNCHANGED leads PROVE Told'
  BY <1>1 DEF Told, DuplicatesAccounted, FactIsField, Rows
<1>2. ASSUME Post PROVE Told'
  <2>1. PICK phone \in Phones, value \in Values \union {None} :
          leads' = Append(leads, Row(phone, "new", value, 0))
    BY <1>2 DEF Post
  <2> DEFINE lead == Row(phone, "new", value, 0)
  <2>2. lead \in Lead
    BY RowIsLead, StatusSet, LeadRecordsAssumption
  <2>3. lead.looked = 0 /\ lead.captured = FALSE
    BY DEF Row
  <2>4. \A l \in Rows : 0 < l
    BY DEF Rows
  <2> HIDE DEF lead
  <2> QED BY <1>0, <2>1, <2>2, <2>3, <2>4, NewRowTold DEF lead
<1>3. ASSUME NEW o \in Routes, WriteStatus(o) PROVE Told'
  <2> DEFINE l == route[o].lead  lead == [leads[l] EXCEPT !.status = route[o].to]
  <2>1. l \in Rows /\ route[o].to \in Statuses
    BY <1>0, <1>3 DEF WriteStatus, TypeOK, Idle, Done
  <2>2. /\ lead \in Lead /\ lead.phone = leads[l].phone /\ lead.looked = leads[l].looked
        /\ lead.captured => lead.fact = lead.field
    BY <1>0, <2>1, RowOf DEF Lead, Told, FactIsField
  <2>3. leads' = [leads EXCEPT ![l] = lead]
    BY <1>3 DEF WriteStatus
  <2> QED BY <1>0, <2>1, <2>2, <2>3, OneRowTold
<1>4. ASSUME NEW i \in Imports, Update(i) PROVE Told'
  <2> DEFINE rec == Head(imp[i].todo)  l == imp[i].hit
             status == IF Ahead(rec.status, imp[i].loaded[l]) THEN rec.status ELSE leads[l].status
  <2>1. imp[i] \in Entry(Len(leads)) /\ imp[i].todo # <<>> /\ l # 0
    BY <1>0, <1>4, UnderWay DEF Update, Inv, LookedUp, AtHand
  <2>2. Len(leads) \in Nat
    BY <1>0 DEF TypeOK
  <2>3. l \in Rows /\ rec \in Records
    BY <2>1, <2>2, HeadIsRecord DEF Entry, Rows
  <2>4. status \in Statuses
    <3>1. Ahead(rec.status, imp[i].loaded[l]) => rec.status \in Statuses
      BY <2>3 DEF Ahead, Records
    <3> QED BY <1>0, <2>3, <3>1, RowOf
  <2>5. CASE leads' = [leads EXCEPT ![l].status = status]
    <3> DEFINE lead == [leads[l] EXCEPT !.status = status]
    <3> HIDE DEF status
    <3>1. /\ lead \in Lead /\ lead.phone = leads[l].phone /\ lead.looked = leads[l].looked
          /\ lead.captured => lead.fact = lead.field
      BY <1>0, <2>3, <2>4, RowOf DEF Lead, Told, FactIsField
    <3> QED BY <1>0, <2>3, <2>5, <3>1, OneRowTold
  <2>6. ASSUME rec.value # None, NEW value \in {rec.value, leads[l].field} \ {None},
               leads' = [leads EXCEPT ![l].status = status, ![l].field = value,
                                      ![l].captured = FALSE]
        PROVE  Told'
    <3> DEFINE lead == [leads[l] EXCEPT !.status = status, !.field = value, !.captured = FALSE]
    <3>1. value \in Values
      BY <1>0, <2>3, <2>6, RowOf DEF Records
    <3>2. leads' = [leads EXCEPT ![l] = lead]
      BY <2>6
    <3> HIDE DEF status
    <3>3. /\ lead \in Lead /\ lead.phone = leads[l].phone /\ lead.looked = leads[l].looked
          /\ lead.captured = FALSE
      BY <1>0, <2>3, <2>4, <3>1, RowOf DEF Lead
    <3> QED BY <1>0, <2>3, <3>2, <3>3, OneRowTold
  <2> QED BY <1>4, <2>5, <2>6 DEF Update
<1>5. ASSUME NEW i \in Imports, Create(i) PROVE Told'
  <2> DEFINE rec == Head(imp[i].todo)  status == Known(rec.status)
             lead == Row(rec.phone, status, rec.value, imp[i].looked)
  <2>1. /\ imp[i] \in Entry(Len(leads)) /\ imp[i].todo # <<>> /\ rec.phone # None
        /\ \A l \in Rows : leads[l].phone = rec.phone => imp[i].looked < l
    BY <1>0, <1>5, UnderWay DEF Create, Inv, LookedUp, AtHand
  <2>2. rec \in Records /\ Len(leads) \in Nat /\ Len(leads) <= MaxLeads
    BY <1>0, <2>1, HeadIsRecord DEF Entry, TypeOK
  <2>3. status \in Statuses
    BY <2>2, StatusSet DEF Known, Records
  <2>4. lead \in Lead
    BY <2>1, <2>2, <2>3, RowIsLead, LeadRecordsAssumption DEF Records, Entry
  <2>5. lead.phone = rec.phone /\ lead.looked = imp[i].looked /\ lead.captured = FALSE
    BY DEF Row
  <2>6. leads' = Append(leads, lead)
    BY <1>5 DEF Create
  <2> HIDE DEF lead
  <2> QED BY <1>0, <2>1, <2>4, <2>5, <2>6, NewRowTold
<1>6. ASSUME NEW c \in Captures, Capture(c) PROVE Told'
  <2> DEFINE l == cap[c].lead  value == cap[c].value  seen == cap[c].seen
             lead == [leads[l] EXCEPT
               !.field = IF value # seen THEN value ELSE @,
               !.fact = FactAfter(c),
               !.captured = value # seen \/ leads[l].field = seen]
  <2>0. cap[c] \in [pc : {"read"}, lead : Rows, value : Values, seen : Values \union {None}]
    BY <1>0, <1>6 DEF Capture, TypeOK, Idle, Done
  <2>1. l \in Rows /\ value \in Values
    BY <2>0
  <2>2. /\ lead \in Lead /\ lead.phone = leads[l].phone /\ lead.looked = leads[l].looked
        /\ lead.captured => lead.fact = lead.field
    BY <1>0, <2>1, RowOf DEF Lead, FactAfter
  <2>3. leads' = [leads EXCEPT ![l] = lead]
    BY <1>6 DEF Capture
  <2> QED BY <1>0, <2>1, <2>2, <2>3, OneRowTold
<1>7. ASSUME NEW o \in Routes, LoadLead(o) PROVE Told'
  BY <1>1, <1>7 DEF LoadLead
<1>8. ASSUME NEW i \in Imports, Fetch(i) \/ SkipRecord(i) \/ LookUp(i) \/ PersistFails(i) \/ EndImport(i)
      PROVE  Told'
  BY <1>1, <1>8 DEF Fetch, SkipRecord, LookUp, PersistFails, EndImport
<1>9. ASSUME NEW c \in Captures, ReadField(c) \/ CaptureFails(c) PROVE Told'
  BY <1>1, <1>9 DEF ReadField, CaptureFails
<1>10. ASSUME UNCHANGED vars PROVE Told'
  BY <1>1, <1>10 DEF vars
<1> QED
  BY <1>2, <1>3, <1>4, <1>5, <1>6, <1>7, <1>8, <1>9, <1>10 DEF Next

LEMMA ToldAlways == Spec => []Told
<1>1. Init => Told
  <2> SUFFICES ASSUME Init PROVE Told
    OBVIOUS
  <2>1. Rows = {}
    BY DEF Init, Rows
  <2> QED BY <2>1 DEF Told, DuplicatesAccounted, FactIsField
<1> QED BY <1>1, Initially, InvKept, ToldKept, PTL DEF Spec

(* Whoever made the second lead of a phone had not looked for one after the
   first was there, whatever imports, posts and tables there are. *)
THEOREM DuplicatesExplained == Spec => []DuplicatesAccounted
<1>1. Told => DuplicatesAccounted
  BY DEF Told
<1> QED BY <1>1, ToldAlways, PTL

(* The field and the fact of a capture agree until another writer of the field. *)
THEOREM CapturedTwiceTheSame == Spec => []FactIsField
<1>1. Told => FactIsField
  BY DEF Told
<1> QED BY <1>1, ToldAlways, PTL

-----------------------------------------------------------------------------
(* An import takes over a status only if it ranks above the one it had loaded. *)

LEMMA UpdateGoesForward ==
  ASSUME Inv, NEW i \in Imports, Update(i), leads[imp[i].hit].status = imp[i].loaded[imp[i].hit]
  PROVE  Rank(leads'[imp[i].hit].status) >= Rank(leads[imp[i].hit].status)
<1> DEFINE rec == Head(imp[i].todo)  l == imp[i].hit  was == imp[i].loaded[l]
           status == IF Ahead(rec.status, was) THEN rec.status ELSE leads[l].status
<1>1. imp[i] \in Entry(Len(leads)) /\ imp[i].todo # <<>> /\ l # 0 /\ TypeOK
  BY UnderWay DEF Update, Inv, LookedUp, AtHand
<1>2. Len(leads) \in Nat /\ leads \in Seq(Lead)
  BY <1>1 DEF TypeOK, Lead
<1>3. l \in Rows /\ rec \in Records
  BY <1>1, <1>2, HeadIsRecord DEF Entry, Rows
<1>4. leads[l] \in Lead /\ leads[l].status \in Statuses
  BY <1>1, <1>3, RowOf
<1>5. leads'[l].status = status
  <2>1. l \in DOMAIN leads /\ leads[l] \in Lead
    BY <1>2, <1>3, <1>4 DEF Rows
  <2>2. CASE leads' = [leads EXCEPT ![l].status = status]
    <3> HIDE DEF status
    <3> QED BY <2>1, <2>2 DEF Lead
  <2>3. ASSUME NEW value, leads' = [leads EXCEPT ![l].status = status, ![l].field = value,
                                                 ![l].captured = FALSE]
        PROVE  leads'[l].status = status
    <3> HIDE DEF status
    <3> QED BY <2>1, <2>3 DEF Lead
  <2> QED BY <2>2, <2>3 DEF Update
<1>6. CASE Ahead(rec.status, was)
  <2>1. rec.status \in Statuses /\ Rank(rec.status) > Rank(leads[l].status)
    BY <1>3, <1>6 DEF Ahead, Records
  <2> QED BY <1>4, <1>5, <1>6, <2>1, RankIsNat
<1>7. CASE ~Ahead(rec.status, was)
  BY <1>4, <1>5, <1>7, RankIsNat
<1> QED BY <1>6, <1>7

(* No import takes a lead back behind the status it had loaded it with. *)
THEOREM ImportsGoForward == Spec => ForwardOnly
<1>1. ASSUME Inv, [Next]_vars, NEW i \in Imports,
             imp[i].pc = "found", imp[i].hit # 0, imp'[i].pc = "next",
             leads[imp[i].hit].status = imp[i].loaded[imp[i].hit]
      PROVE  Rank(leads'[imp[i].hit].status) >= Rank(leads[imp[i].hit].status)
  <2>1. imp[i] \in Entry(Len(leads)) /\ TypeOK
    BY <1>1, UnderWay DEF Inv
  <2>2. imp[i].hit \in Rows
    BY <1>1, <2>1 DEF Entry, Rows, TypeOK
  <2>3. Rank(leads[imp[i].hit].status) \in Nat
    BY <2>1, <2>2, RowOf, RankIsNat
  <2>4. CASE leads' = leads
    BY <2>3, <2>4
  <2>5. CASE Update(i)
    BY <1>1, <2>5, UpdateGoesForward
  <2>6. imp'[i] # imp[i]
    BY <1>1
  <2>7. ASSUME NEW j \in Imports, Update(j) \/ Create(j) PROVE j = i /\ Update(i)
    BY <1>1, <2>1, <2>6, <2>7 DEF Update, Create, TypeOK
  <2>8. ASSUME UNCHANGED imp PROVE FALSE
    BY <2>6, <2>8
  <2>9. CASE Post \/ \E o \in Routes : LoadLead(o) \/ WriteStatus(o)
    BY <2>8, <2>9 DEF Post, LoadLead, WriteStatus
  <2>10. ASSUME NEW j \in Imports,
                Fetch(j) \/ SkipRecord(j) \/ LookUp(j) \/ PersistFails(j) \/ EndImport(j)
         PROVE  leads' = leads
    BY <2>10 DEF Fetch, SkipRecord, LookUp, PersistFails, EndImport
  <2>11. CASE \E c \in Captures : ReadField(c) \/ Capture(c) \/ CaptureFails(c)
    BY <2>8, <2>11 DEF ReadField, Capture, CaptureFails
  <2>12. CASE UNCHANGED vars
    BY <2>8, <2>12 DEF vars
  <2> QED BY <1>1, <2>4, <2>5, <2>7, <2>9, <2>10, <2>11, <2>12 DEF Next
<1>2. Inv /\ [Next]_vars =>
        [\A i \in Imports :
           imp[i].pc = "found" /\ imp[i].hit # 0 /\ imp'[i].pc = "next" =>
             LET l == imp[i].hit
             IN  \/ Rank(leads'[l].status) >= Rank(leads[l].status)
                 \/ leads[l].status # imp[i].loaded[l]]_vars
  BY <1>1
<1> QED BY <1>2, Initially, InvKept, PTL DEF Spec, ForwardOnly
=============================================================================
