----------------------------- MODULE LeadRecords -----------------------------
(***************************************************************************)
(* The leads of one client as everything but calls writes them: the batch  *)
(* import from the CRM (backend/app/integrations/crm_import_service.py),   *)
(* POST /leads and the status route (leads/router.py), and the             *)
(* conversation tool capture_data (tools/capture_data.py), which writes a  *)
(* custom field and a "captured:" profile fact that must tell the same.    *)
(*                                                                         *)
(* A transaction holds the database's write lock from its first flush to   *)
(* its commit; what it read before may have changed, and an UPDATE names   *)
(* only the columns that differ from what was read.  The import reads and  *)
(* writes one record after the other, each in a SAVEPOINT whose RELEASE    *)
(* commits, in one session that does not refresh what it still holds.      *)
(*                                                                         *)
(* One custom field stands for all.  Names, mails, external ids and the    *)
(* legacy columns a record also writes are left out.                       *)
(***************************************************************************)
EXTENDS Naturals, Sequences

CONSTANTS
  Phones, Values,  \* normalized phones, coerced values of the field
  None,
  Tables,          \* what a fetch may return: sequences of mapped records
  Imports, Captures, Routes,   \* bound: runs, tool calls, status changes
  MaxLeads         \* bound: rows of leads

Order == <<"new", "called", "follow_up", "quoted", "interested", "not_interested">>
Statuses == {Order[n] : n \in DOMAIN Order}

(* A record: a phone or None when it does not normalize; a status, which may be
   a label nobody mapped; a value, None when the record has none. *)
Records == [phone : Phones \union {None}, status : Statuses \union {None}, value : Values \union {None}]

ASSUME LeadRecordsAssumption ==
  /\ None \notin Values \union Phones /\ Tables \subseteq Seq(Records)
  /\ MaxLeads \in Nat

VARIABLES
  leads,           \* the rows, in the order of their commits, each with its field and its fact
  imp,             \* imp[i]: what is left of the table, what was found, the statuses the session loaded
  cap,             \* cap[c]: the lead, the value, the field as it was read
  route            \* route[o]: the lead and the status it is to have

vars == <<leads, imp, cap, route>>

-----------------------------------------------------------------------------
Rows == 1 .. Len(leads)

Rank(s) == CHOOSE n \in DOMAIN Order : Order[n] = s

(* VALID_TRANSITIONS *)
Follows(from) ==
  CASE from \in {"new", "follow_up"} -> {"called"}
    [] from = "called" -> {"quoted", "interested", "not_interested", "follow_up"}
    [] OTHER -> {}

Idle == [pc |-> "idle"]
Done == [pc |-> "done"]

Entry(m) ==
  [pc : {"next", "found"}, todo : Seq(Records), hit : 0 .. m, looked : 0 .. m,
   loaded : [1 .. MaxLeads -> Statuses \union {None}]]

(* Where an import, a tool call and a request for another status may be. *)
TypeOK ==
  /\ leads \in Seq([phone : Phones, status : Statuses, field : Values \union {None},
                    fact : Values \union {None}, looked : 0 .. MaxLeads, captured : BOOLEAN])
  /\ Len(leads) <= MaxLeads
  /\ imp \in [Imports -> {Idle, Done} \union Entry(Len(leads))]
  /\ cap \in [Captures -> {Idle, Done} \union
       [pc : {"read"}, lead : Rows, value : Values, seen : Values \union {None}]]
  /\ route \in [Routes -> {Idle, Done} \union [pc : {"loaded"}, lead : Rows, to : Statuses]]

Init ==
  /\ leads = <<>>
  /\ imp = [i \in Imports |-> Idle]
  /\ cap = [c \in Captures |-> Idle]
  /\ route = [o \in Routes |-> Idle]

(* A new row; "looked" is how many there were when its creator looked for one
   with its phone, "captured" says that the last write of the field was a
   capture that met the field as it had read it or changed it: both are history. *)
Row(phone, status, value, looked) ==
  [phone |-> phone, status |-> status, field |-> value, fact |-> None,
   looked |-> looked, captured |-> FALSE]

-----------------------------------------------------------------------------
(* POST /leads looks for nobody; a lead starts as new. *)
Post ==
  /\ Len(leads) < MaxLeads
  /\ \E phone \in Phones, value \in Values \union {None} :
       leads' = Append(leads, Row(phone, "new", value, 0))
  /\ UNCHANGED <<imp, cap, route>>

(* PATCH /leads/{id}/status: transition_lead_status checks the status it loaded. *)
LoadLead(o) ==
  /\ route[o] = Idle
  /\ \E l \in Rows : \E to \in Follows(leads[l].status) :
       route' = [route EXCEPT ![o] = [pc |-> "loaded", lead |-> l, to |-> to]]
  /\ UNCHANGED <<leads, imp, cap>>

WriteStatus(o) ==
  /\ route[o].pc = "loaded"
  /\ leads' = [leads EXCEPT ![route[o].lead].status = route[o].to]
  /\ route' = [route EXCEPT ![o] = Done]
  /\ UNCHANGED <<imp, cap>>

-----------------------------------------------------------------------------
(* The import. *)

Fetch(i) ==
  /\ imp[i] = Idle
  /\ \E table \in Tables :
       imp' = [imp EXCEPT ![i] =
         [pc |-> "next", todo |-> table, hit |-> 0, looked |-> 0,
          loaded |-> [l \in 1 .. MaxLeads |-> None]]]
  /\ UNCHANGED <<leads, cap, route>>

NextRecord(entry) == [entry EXCEPT !.pc = "next", !.todo = Tail(@)]

Found(entry, l) == [entry EXCEPT !.pc = "found", !.hit = l, !.looked = Len(leads)]

Holding(entry, l, status) == [entry EXCEPT !.loaded[l] = status]

(* A mutant: a lead that is done with is not looked at. *)
Matches_Open(phone) == {l \in Rows : leads[l].phone = phone /\ Follows(leads[l].status) # {}}

Matches(phone) == {l \in Rows : leads[l].phone = phone}

(* No phone, or a phone that two leads have (scalar_one_or_none raises). *)
SkipRecord(i) ==
  /\ imp[i].pc = "next" /\ imp[i].todo # <<>>
  /\ LET phone == Head(imp[i].todo).phone
     IN  phone = None \/ \E l, m \in Matches(phone) : l # m
  /\ imp' = [imp EXCEPT ![i] = NextRecord(@)]
  /\ UNCHANGED <<leads, cap, route>>

(* _find_lead_by_phone: a row the session still holds keeps the attributes it
   was loaded with; one that was collected is loaded again. *)
LookUp(i) ==
  /\ imp[i].pc = "next" /\ imp[i].todo # <<>>
  /\ LET found == Matches(Head(imp[i].todo).phone)
     IN  /\ Head(imp[i].todo).phone # None
         /\ \/ /\ found = {}
               /\ imp' = [imp EXCEPT ![i] = Found(@, 0)]
            \/ \E l \in found : \E status \in {leads[l].status, imp[i].loaded[l]} \ {None} :
                 /\ found = {l}
                 /\ imp' = [imp EXCEPT ![i] = Holding(Found(@, l), l, status)]
  /\ UNCHANGED <<leads, cap, route>>

(* A mutant: whatever the CRM says is taken over. *)
Ahead_Always(s, than) == s # None

(* _apply_status_if_ahead *)
Ahead(s, than) == s # None /\ Rank(s) > Rank(than)

(* The field row, too, may have been read before another write of the same
   value: then nothing is written. *)
Update(i) ==
  LET rec == Head(imp[i].todo)  l == imp[i].hit  was == imp[i].loaded[l]
      status == IF Ahead(rec.status, was) THEN rec.status ELSE leads[l].status
  IN  /\ imp[i].pc = "found" /\ l # 0
      /\ \/ /\ rec.value = None
            /\ leads' = [leads EXCEPT ![l].status = status]
         \/ /\ rec.value # None
            /\ \E value \in {rec.value, leads[l].field} \ {None} :
                 leads' = [leads EXCEPT ![l].status = status, ![l].field = value, ![l].captured = FALSE]
      /\ imp' = [imp EXCEPT ![i] =
                   Holding(NextRecord(@), l, IF Ahead(rec.status, was) THEN rec.status ELSE was)]
      /\ UNCHANGED <<cap, route>>

Known(s) == IF s = None THEN "new" ELSE s

(* _create_lead_from_qora_data *)
Create(i) ==
  LET rec == Head(imp[i].todo)  status == Known(rec.status)
  IN  /\ imp[i].pc = "found" /\ imp[i].hit = 0
      /\ Len(leads) < MaxLeads
      /\ leads' = Append(leads, Row(rec.phone, status, rec.value, imp[i].looked))
      /\ imp' = [imp EXCEPT ![i] = Holding(NextRecord(@), Len(leads) + 1, status)]
      /\ UNCHANGED <<cap, route>>

(* The savepoint is rolled back: a value that does not coerce, an external id
   that two leads share, a busy database.  What it had changed is expired, and
   read again when it is found again. *)
PersistFails(i) ==
  /\ imp[i].pc = "found"
  /\ \/ imp' = [imp EXCEPT ![i] = NextRecord(@)]
     \/ /\ imp[i].hit # 0
        /\ imp' = [imp EXCEPT ![i] = Holding(NextRecord(@), imp[i].hit, None)]
  /\ UNCHANGED <<leads, cap, route>>

(* The table is done with, or the import breaks off: what it wrote stays. *)
EndImport(i) ==
  /\ imp[i].pc \in {"next", "found"}
  /\ imp' = [imp EXCEPT ![i] = Done]
  /\ UNCHANGED <<leads, cap, route>>

-----------------------------------------------------------------------------
(* capture_data. *)

ReadField(c) ==
  /\ cap[c] = Idle
  /\ \E l \in Rows, value \in Values :
       cap' = [cap EXCEPT ![c] = [pc |-> "read", lead |-> l, value |-> value, seen |-> leads[l].field]]
  /\ UNCHANGED <<leads, imp, route>>

(* A mutant: the fact is taken to be what the field was. *)
FactAfter_AsField(c) == IF cap[c].seen = cap[c].value THEN leads[cap[c].lead].fact ELSE cap[c].value

(* The active fact is read behind the flush of the field, under the lock, and
   superseded unless it has the value: one is active whoever captures. *)
FactAfter(c) == cap[c].value

(* Field and fact, in one transaction. *)
Capture(c) ==
  LET l == cap[c].lead  value == cap[c].value  seen == cap[c].seen
      writes == value # seen
  IN  /\ cap[c].pc = "read"
      /\ seen = None => leads[l].field = None
      /\ leads' = [leads EXCEPT
           ![l].field = IF writes THEN value ELSE @,
           ![l].fact = FactAfter(c),
           ![l].captured = writes \/ leads[l].field = seen]
      /\ cap' = [cap EXCEPT ![c] = Done]
      /\ UNCHANGED <<imp, route>>

(* A required or a well-formed value is missing; or the row it would insert
   exists by now (unique index), or the database is busy. *)
CaptureFails(c) ==
  /\ cap[c].pc = "read"
  /\ cap' = [cap EXCEPT ![c] = Done]
  /\ UNCHANGED <<leads, imp, route>>

-----------------------------------------------------------------------------
Next ==
  \/ Post
  \/ \E o \in Routes : LoadLead(o) \/ WriteStatus(o)
  \/ \E i \in Imports :
       \/ Fetch(i) \/ SkipRecord(i) \/ LookUp(i)
       \/ Update(i) \/ Create(i) \/ PersistFails(i) \/ EndImport(i)
  \/ \E c \in Captures : ReadField(c) \/ Capture(c) \/ CaptureFails(c)

Spec == Init /\ [][Next]_vars

-----------------------------------------------------------------------------
(* "Never regress a lead that has already progressed locally", whatever old
   table the CRM returned: unless the row moved after the import's session had
   loaded it, which may be many records ago. *)
ForwardOnly ==
  [][\A i \in Imports :
       imp[i].pc = "found" /\ imp[i].hit # 0 /\ imp'[i].pc = "next" =>
         LET l == imp[i].hit
         IN  \/ Rank(leads'[l].status) >= Rank(leads[l].status)
             \/ leads[l].status # imp[i].loaded[l]]_vars

(* Two leads have one phone only if the later was made by somebody who did not
   look for it after the earlier was there: the import makes one lead of each
   phone, unless imports overlap or a lead was posted. *)
DuplicatesAccounted ==
  \A l, m \in Rows : l < m /\ leads[l].phone = leads[m].phone => leads[m].looked < l

(* The tool writes what it captured twice, and the two agree until another
   writer changes the field alone: an import, or a capture whose value was the
   one it had read while another was committed. *)
FactIsField ==
  \A l \in Rows : leads[l].captured => leads[l].fact = leads[l].field
=============================================================================
