-------------------------- MODULE VoiceTurnsProofs --------------------------
(***************************************************************************)
(* What VoiceTurns.tla promises of the turns and the rows of a lead's      *)
(* calls, proved for every number of calls, requests, rows and faults, and *)
(* whichever of the calls name their conversation.                         *)
(*                                                                         *)
(* Two inductive invariants.  TurnsInv is about the turns: what a request  *)
(* that is under way holds, which turns are not yet written, which row an  *)
(* entry remembers, and what a closed row has counted.  RowsInv adds the   *)
(* rows: a call owes at most the one row its later requests will find, or  *)
(* the request about to make it will promise, and one more for each loss   *)
(* of its entry and each race.                                             *)
(***************************************************************************)
EXTENDS VoiceTurns, FiniteSetTheorems, SequenceTheorems, TLAPS

(* A function on 1 .. n is a sequence of length n. *)
LEMMA SequenceOf ==
  ASSUME NEW n \in Nat, NEW S, NEW f \in [1 .. n -> S]
  PROVE  f \in Seq(S) /\ Len(f) = n
BY SMT

LEMMA Appended ==
  ASSUME NEW S, NEW s \in Seq(S), NEW x \in S
  PROVE  /\ Append(s, x) \in Seq(S) /\ Len(Append(s, x)) = Len(s) + 1 /\ Len(s) \in Nat
         /\ \A i \in 1 .. Len(s) : Append(s, x)[i] = s[i]
         /\ Append(s, x)[Len(s) + 1] = x
BY AppendProperties, LenProperties

LEMMA Replaced ==
  ASSUME NEW S, NEW s \in Seq(S), NEW i \in 1 .. Len(s), NEW x \in S
  PROVE  /\ [s EXCEPT ![i] = x] \in Seq(S) /\ Len([s EXCEPT ![i] = x]) = Len(s) /\ Len(s) \in Nat
         /\ \A j \in 1 .. Len(s) : [s EXCEPT ![i] = x][j] = IF j = i THEN x ELSE s[j]
BY ExceptSeq, LenProperties

(* Of a few entries one is the busiest: a nonempty set of them has a greatest
   element in the order by turns and then by age.  Where fewest come after is
   where none does. *)
LEMMA SomeAreBusiest ==
  ASSUME NEW n \in Nat, NEW f \in [1 .. n -> Nat], NEW S \in SUBSET (1 .. n), S # {}
  PROVE  \E e \in S : \A d \in S : f[d] < f[e] \/ (f[d] = f[e] /\ d <= e)
<1> DEFINE Before(d, e) == f[d] < f[e] \/ (f[d] = f[e] /\ d <= e)
           After(e) == {d \in S : ~Before(d, e)}
           All == {After(e) : e \in S}
<1>1. IsFiniteSet(S)
  <2>1. S \in SUBSET Nat /\ \A d \in S : d <= n
    OBVIOUS
  <2> QED BY <2>1, FS_BoundedSetOfNaturals
<1>2. PICK A \in All : \A B \in All : <<B, A>> \notin StrictSubsetOrdering(S)
  <2>1. IsWellFoundedOn(StrictSubsetOrdering(S), SUBSET S)
    BY <1>1, FS_StrictSubsetOrderingWellFounded, FS_FiniteSubsetsOfFinite
  <2>2. All \subseteq SUBSET S /\ All # {}
    OBVIOUS
  <2> HIDE DEF All
  <2> QED BY <2>1, <2>2, WFMin
<1>3. PICK e \in S : A = After(e)
  OBVIOUS
<1>4. \A d \in S : d \in Nat /\ f[d] \in Nat
  OBVIOUS
<1>5. ASSUME NEW d \in After(e) PROVE FALSE
  <2>1. d \in S /\ ~Before(d, e)
    OBVIOUS
  <2>2. d \notin After(d)
    BY <1>4, <2>1
  <2>3. \A x \in S : ~Before(x, d) => ~Before(x, e)
    BY <1>4, <2>1
  <2>4. After(d) \subseteq After(e) /\ After(d) # After(e)
    BY <2>2, <2>3
  <2>5. After(d) \in All /\ After(d) \in SUBSET S /\ A \in SUBSET S
    BY <2>1
  <2>6. <<After(d), A>> \in StrictSubsetOrdering(S)
    BY <1>3, <2>4, <2>5 DEF StrictSubsetOrdering
  <2> QED BY <1>2, <2>5, <2>6
<1> QED BY <1>5
-----------------------------------------------------------------------------
(* Types. *)

States(n, m) ==
  [pc : {"none", "creating", "streaming", "done", "refused"}, entry : 0 .. n, row : 0 .. m,
   conv : {0} \union Calls]

LEMMA Shapes ==
  ASSUME TypeOK
  PROVE  /\ Len(entry) \in Nat /\ Len(row) \in Nat /\ Len(row) <= MaxRows /\ MaxRows \in Nat
         /\ \A e \in 1 .. Len(entry) : entry[e] \in Entries
         /\ \A r \in Made : row[r] \in Sessions
         /\ req \in [Requests -> States(Len(entry), Len(row))]
BY VoiceTurnsAssumption, LenProperties DEF TypeOK, States, Made

LEMMA StatesGrow ==
  ASSUME NEW n \in Nat, NEW m \in Nat, NEW k \in Nat, NEW l \in Nat, n <= k, m <= l
  PROVE  States(n, m) \subseteq States(k, l)
BY DEF States

LEMMA RequestParts ==
  ASSUME NEW q \in Requests
  PROVE  q[1] \in Calls
<1>1. q \in Calls \X (Nat \ {0})
  BY VoiceTurnsAssumption
<1> QED BY <1>1

LEMMA AtTyped ==
  ASSUME NEW n \in Nat, NEW m \in Nat
  PROVE  \A pc \in {"none", "done", "refused"} : At(pc) \in States(n, m)
BY DEF At, States

(* Streaming: the request is given its entry and row, the task its row. *)
LEMMA StreamShape ==
  ASSUME TypeOK, NEW q \in Requests, NEW n \in Nat, NEW m \in Nat,
         Len(entry) <= n, Len(row) <= m, NEW e \in 0 .. n, NEW r \in 0 .. m, Stream(q, e, r)
  PROVE  /\ req' \in [Requests -> States(n, m)] /\ user' \in [Requests -> 0 .. m]
         /\ req'[q] = [pc |-> "streaming", entry |-> e, row |-> r, conv |-> 0] /\ user'[q] = r
         /\ \A p \in Requests \ {q} : req'[p] = req[p] /\ user'[p] = user[p]
<1> DEFINE x == [pc |-> "streaming", entry |-> e, row |-> r, conv |-> 0]
<1>1. x \in States(n, m)
  BY DEF States
<1>2. req \in [Requests -> States(n, m)] /\ user \in [Requests -> 0 .. m]
  <2>1. Len(entry) \in Nat /\ Len(row) \in Nat /\ req \in [Requests -> States(Len(entry), Len(row))]
    BY Shapes
  <2>2. States(Len(entry), Len(row)) \subseteq States(n, m)
    BY <2>1, StatesGrow
  <2>3. user \in [Requests -> 0 .. Len(row)] /\ 0 .. Len(row) \subseteq 0 .. m
    BY <2>1 DEF TypeOK
  <2> QED BY <2>1, <2>2, <2>3
<1> HIDE DEF x
<1>3. req' = [req EXCEPT ![q] = x] /\ user' = [user EXCEPT ![q] = r]
  BY DEF Stream, x
<1> QED BY <1>1, <1>2, <1>3 DEF x

(* A new entry, or the one that was found, remembers the row. *)
Attached(q) == IF req[q].entry = 0 THEN Len(entry) + 1 ELSE req[q].entry

LEMMA AttachShape ==
  ASSUME TypeOK, NEW q \in Requests, NEW r \in Rows, Attach(q, r)
  PROVE  /\ entry' \in Seq(Entries) /\ Attached(q) \in 1 .. Len(entry')
         /\ Len(entry') = IF req[q].entry = 0 THEN Len(entry) + 1 ELSE Len(entry)
         /\ \A d \in 1 .. Len(entry) : d # Attached(q) => entry'[d] = entry[d]
         /\ entry'[Attached(q)].row = r
         /\ entry'[Attached(q)].key = IF req[q].entry = 0 THEN req[q].conv ELSE entry[Attached(q)].key
         /\ store' = IF req[q].entry = 0
                     THEN {e \in store : entry[e].key # req[q].conv \/ req[q].conv = 0}
                            \union {Len(entry) + 1}
                     ELSE store
         /\ Stream(q, Attached(q), r)
<1>1. Len(entry) \in Nat /\ req[q] \in States(Len(entry), Len(row))
      /\ \A e \in 1 .. Len(entry) : entry[e] \in Entries
  BY Shapes
<1>2. CASE req[q].entry = 0
  <2> DEFINE x == [key |-> req[q].conv, row |-> r, turns |-> 0]
  <2>1. x \in Entries
    BY <1>1 DEF Entries, States
  <2>2. entry \in Seq(Entries) /\ entry' = Append(entry, x) /\ Attached(q) = Len(entry) + 1
    BY <1>2 DEF TypeOK, Attach, Attached
  <2>3. x.row = r /\ x.key = req[q].conv
    OBVIOUS
  <2> HIDE DEF x
  <2> QED BY <1>1, <1>2, <2>1, <2>2, <2>3, Appended DEF Attach
<1>3. CASE req[q].entry # 0
  <2> DEFINE i == req[q].entry  x == [entry[i] EXCEPT !.row = r]
  <2>1. i \in 1 .. Len(entry) /\ i = Attached(q)
    BY <1>1, <1>3 DEF Attached, States
  <2>2. x \in Entries /\ x.row = r /\ x.key = entry[i].key
    BY <1>1, <2>1 DEF Entries
  <2>3. entry \in Seq(Entries) /\ entry' = [entry EXCEPT ![i] = x] /\ UNCHANGED store
        /\ Stream(q, i, r)
    BY <1>3 DEF TypeOK, Attach
  <2> HIDE DEF x, i
  <2> QED BY <1>1, <1>3, <2>1, <2>2, <2>3, Replaced DEF i
<1> QED BY <1>2, <1>3

(* What was said is in the row, which counts what comes after its close. *)
LEMMA AddTurnShape ==
  ASSUME TypeOK, NEW q \in Requests, NEW by, <<q, by>> \in Turns, NEW r \in Made,
         AddTurn(r, q, by)
  PROVE  /\ turn' \in [Turns -> 0 .. Len(row)] /\ turn'[<<q, by>>] = r
         /\ \A t \in Turns : t # <<q, by>> => turn'[t] = turn[t]
         /\ row' \in Seq(Sessions) /\ Len(row') = Len(row)
         /\ \A s \in Made :
              /\ row'[s].by = row[s].by /\ row'[s].conv = row[s].conv
              /\ row'[s].status = row[s].status /\ row'[s].counted = row[s].counted
              /\ row'[s].late = IF s = r /\ row[s].status = "completed"
                                THEN row[s].late + 1 ELSE row[s].late
<1>1. row \in Seq(Sessions) /\ turn \in [Turns -> 0 .. Len(row)] /\ Len(row) \in Nat
      /\ \A s \in Made : row[s] \in Sessions
  BY Shapes DEF TypeOK
<1>2. <<q, by>> \in Turns /\ r \in 0 .. Len(row)
  BY <1>1 DEF Made
<1>3. turn' = [turn EXCEPT ![<<q, by>>] = r]
  BY DEF AddTurn
<1>4. CASE row[r].status = "completed"
  <2> DEFINE x == [row[r] EXCEPT !.late = @ + 1]
  <2>0. row[r] \in Sessions /\ row[r].late + 1 \in Nat
    BY <1>1 DEF Sessions
  <2>1. /\ x \in Sessions /\ x.by = row[r].by /\ x.conv = row[r].conv
        /\ x.status = row[r].status /\ x.counted = row[r].counted /\ x.late = row[r].late + 1
    BY <2>0 DEF Sessions
  <2>2. row' = [row EXCEPT ![r] = x]
    BY <1>4 DEF AddTurn
  <2> HIDE DEF x
  <2>3. /\ row' \in Seq(Sessions) /\ Len(row') = Len(row)
        /\ \A s \in Made : row'[s] = IF s = r THEN x ELSE row[s]
    BY <1>1, <2>1, <2>2, Replaced DEF Made
  <2> QED BY <1>1, <1>2, <1>3, <1>4, <2>1, <2>3
<1>5. CASE row[r].status # "completed"
  <2>1. row' = row
    BY <1>5 DEF AddTurn
  <2> QED BY <1>1, <1>2, <1>3, <1>5, <2>1
<1> QED BY <1>4, <1>5

LEMMA TurnsAreFew == IsFiniteSet(Turns) /\ \A T \in SUBSET Turns : IsFiniteSet(T) /\ Cardinality(T) \in Nat
<1>1. IsFiniteSet({"user"}) /\ IsFiniteSet({"user"} \union {"agent"})
  BY FS_Singleton, FS_AddElement
<1>2. {"user"} \union {"agent"} = {"user", "agent"}
  OBVIOUS
<1>3. IsFiniteSet(Turns)
  BY <1>1, <1>2, FS_Product, VoiceTurnsAssumption DEF Turns
<1> QED BY <1>3, FS_Subset, FS_CardinalityType

(* A close: the row is completed and counted with the turns of the siblings it
   takes; the others keep what they are. *)
LEMMA CloseShape ==
  ASSUME TypeOK, NEW r \in Made, NEW conv \in {0} \union Calls, Close(r, conv)
  PROVE  \E S \in SUBSET Siblings(r) :
           /\ turn' = Merged(r, S) /\ turn' \in [Turns -> 0 .. Len(row)]
           /\ row' \in Seq(Sessions) /\ Len(row') = Len(row)
           /\ row'[r].by = row[r].by /\ row'[r].conv = conv /\ row'[r].status = "completed"
           /\ row'[r].counted = Count(r, S) /\ row'[r].late = row[r].late
           /\ \A s \in Made \ {r} :
                /\ row'[s].by = row[s].by /\ row'[s].conv = row[s].conv
                /\ row'[s].status = row[s].status /\ row'[s].counted = row[s].counted
                /\ row'[s].late = row[s].late
<1>1. /\ row \in Seq(Sessions) /\ turn \in [Turns -> 0 .. Len(row)] /\ Len(row) \in Nat
      /\ Len(row) <= MaxRows /\ MaxRows \in Nat /\ \A s \in Made : row[s] \in Sessions
  BY Shapes DEF TypeOK
<1> DEFINE closed(S) == [row[r] EXCEPT !.status = "completed", !.conv = conv, !.counted = Count(r, S)]
           merged(s) == [row[s] EXCEPT !.merged = r]
           after(S) == [s \in Made |-> IF s = r THEN closed(S) ELSE IF s \in S THEN merged(s) ELSE row[s]]
<1>2. PICK S \in SUBSET Siblings(r) : row' = after(S) /\ turn' = Merged(r, S)
  BY DEF Close
<1>3. Count(r, S) \in Nat
  BY TurnsAreFew DEF Count
<1>4. /\ closed(S) \in Sessions /\ closed(S).by = row[r].by /\ closed(S).conv = conv
      /\ closed(S).status = "completed" /\ closed(S).counted = Count(r, S)
      /\ closed(S).late = row[r].late
  BY <1>1, <1>3 DEF Sessions
<1>5. r \in Rows
  BY <1>1 DEF Made, Rows
<1>6. ASSUME NEW s \in Made
      PROVE  /\ merged(s) \in Sessions /\ merged(s).by = row[s].by /\ merged(s).conv = row[s].conv
             /\ merged(s).status = row[s].status /\ merged(s).counted = row[s].counted
             /\ merged(s).late = row[s].late
  BY <1>1, <1>5 DEF Sessions
<1> HIDE DEF closed, merged
<1>7. after(S) \in [1 .. Len(row) -> Sessions]
  BY <1>1, <1>4, <1>6 DEF Made
<1>8. row' \in Seq(Sessions) /\ Len(row') = Len(row)
  BY <1>1, <1>2, <1>7, SequenceOf
<1>9. Merged(r, S) \in [Turns -> 0 .. Len(row)]
  BY <1>1 DEF Merged, Made
<1>10. row'[r] = closed(S) /\ \A s \in Made \ {r} : row'[s] \in {merged(s), row[s]}
  BY <1>2
<1>11. \A s \in Made \ {r} :
          /\ row'[s].by = row[s].by /\ row'[s].conv = row[s].conv
          /\ row'[s].status = row[s].status /\ row'[s].counted = row[s].counted
          /\ row'[s].late = row[s].late
  BY <1>6, <1>10
<1>12. /\ row'[r].by = row[r].by /\ row'[r].conv = conv /\ row'[r].status = "completed"
       /\ row'[r].counted = Count(r, S) /\ row'[r].late = row[r].late
  BY <1>4, <1>10
<1>13. turn' = Merged(r, S) /\ turn' \in [Turns -> 0 .. Len(row)]
  BY <1>2, <1>9
<1> HIDE DEF after
<1> QED BY <1>8, <1>11, <1>12, <1>13

LEMMA InitiateShape ==
  ASSUME TypeOK, NEW c \in Calls, Initiate(c)
  PROVE  /\ entry' \in Seq(Entries) /\ Len(entry') = Len(entry) + 1
         /\ \A e \in 1 .. Len(entry) : entry'[e] = entry[e]
         /\ entry'[Len(entry) + 1].key = c /\ entry'[Len(entry) + 1].row = 0
         /\ store' = store \union {Len(entry) + 1}
<1> DEFINE x == [key |-> c, row |-> 0, turns |-> 0]
<1>1. x \in Entries /\ x.key = c /\ x.row = 0
  BY DEF Entries
<1>2. entry \in Seq(Entries) /\ entry' = Append(entry, x) /\ store' = store \union {Len(entry) + 1}
  BY DEF Initiate, TypeOK
<1> HIDE DEF x
<1> QED BY <1>1, <1>2, Appended

(* The entries are those there were, with other counts. *)
KeptEntries ==
  /\ entry' \in Seq(Entries) /\ Len(entry') = Len(entry)
  /\ \A e \in 1 .. Len(entry) : entry'[e].key = entry[e].key /\ entry'[e].row = entry[e].row

(* The end of a reply counts its turn, or does not. *)
LEMMA ReplyShape ==
  ASSUME TypeOK, NEW q, UNCHANGED entry \/ CountTurn(q)
  PROVE  KeptEntries
<1>1. Len(entry) \in Nat /\ \A e \in 1 .. Len(entry) : entry[e] \in Entries
  BY Shapes
<1>2. CASE UNCHANGED entry
  BY <1>2 DEF TypeOK, KeptEntries
<1>3. CASE CountTurn(q)
  <2> DEFINE x(e) == [entry[e] EXCEPT !.turns = @ + 1]
  <2>1. ASSUME NEW e \in 1 .. Len(entry)
        PROVE  x(e) \in Entries /\ x(e).key = entry[e].key /\ x(e).row = entry[e].row
    <3>1. entry[e] \in Entries /\ entry[e].turns + 1 \in Nat
      BY <1>1 DEF Entries
    <3> QED BY <3>1 DEF Entries
  <2>2. entry' = [e \in 1 .. Len(entry) |-> IF e \in Current(q) THEN x(e) ELSE entry[e]]
    BY <1>3 DEF CountTurn
  <2> HIDE DEF x
  <2>3. entry' \in [1 .. Len(entry) -> Entries]
    BY <1>1, <2>1, <2>2
  <2> QED BY <1>1, <2>1, <2>2, <2>3, SequenceOf DEF KeptEntries
<1> QED BY <1>2, <1>3

(* A request that is answered or refused. *)
LEMMA EndShape ==
  ASSUME TypeOK, NEW q \in Requests, NEW pc \in {"done", "refused"}, req' = [req EXCEPT ![q] = At(pc)]
  PROVE  /\ req' \in [Requests -> States(Len(entry), Len(row))] /\ req'[q] = At(pc)
         /\ \A p \in Requests \ {q} : req'[p] = req[p]
BY Shapes, AtTyped

LEMMA FoundIsStored ==
  ASSUME NEW c \in Calls
  PROVE  Found(c) \subseteq store
BY DEF Found, Busiest

LEMMA ConvIsTyped ==
  ASSUME TypeOK, NEW c \in Calls, NEW e \in 0 .. Len(entry)
  PROVE  ConvOf(c, e) \in {0} \union Calls
<1>1. \A d \in 1 .. Len(entry) : entry[d].key \in {0} \union Calls
  BY Shapes DEF Entries
<1>2. e # 0 => e \in 1 .. Len(entry)
  BY Shapes
<1> QED BY <1>1, <1>2 DEF ConvOf

(* What a request asks for: the row of the entry it finds, or one to be made. *)
LEMMA AskShape ==
  ASSUME TypeOK, NEW q \in Requests, Ask(q)
  PROVE  \E e \in 0 .. Len(entry) :
           /\ e \in Found(q[1]) \/ (e = 0 /\ Found(q[1]) = {})
           /\ \/ HasRow(e) /\ Stream(q, e, entry[e].row) /\ UNCHANGED raced
              \/ /\ ~HasRow(e) /\ UNCHANGED user
                 /\ req' = [req EXCEPT ![q] =
                              [pc |-> "creating", entry |-> e, row |-> 0, conv |-> ConvOf(q[1], e)]]
                 /\ raced' = IF \E p \in Requests : p[1] = q[1] /\ req[p].pc = "creating"
                             THEN [raced EXCEPT ![q[1]] = @ + 1] ELSE raced
<1>1. PICK e \in IF Found(q[1]) = {} THEN {0} ELSE Found(q[1]) :
        IF HasRow(e)
        THEN Stream(q, e, entry[e].row) /\ UNCHANGED raced
        ELSE /\ req' = [req EXCEPT ![q] =
                          [pc |-> "creating", entry |-> e, row |-> 0, conv |-> ConvOf(q[1], e)]]
             /\ raced' = IF \E p \in Requests : p[1] = q[1] /\ req[p].pc = "creating"
                         THEN [raced EXCEPT ![q[1]] = @ + 1] ELSE raced
             /\ UNCHANGED user
  BY DEF Ask
<1>2. e \in 0 .. Len(entry) /\ (e \in Found(q[1]) \/ (e = 0 /\ Found(q[1]) = {}))
  BY <1>1, Shapes, RequestParts, FoundIsStored DEF TypeOK
<1>3. CASE HasRow(e)
  BY <1>1, <1>2, <1>3
<1>4. CASE ~HasRow(e)
  BY <1>1, <1>2, <1>4
<1> QED BY <1>3, <1>4

LEMMA CreatingShape ==
  ASSUME TypeOK, NEW q \in Requests, NEW e \in 0 .. Len(entry),
         req' = [req EXCEPT ![q] =
                   [pc |-> "creating", entry |-> e, row |-> 0, conv |-> ConvOf(q[1], e)]]
  PROVE  /\ req' \in [Requests -> States(Len(entry), Len(row))]
         /\ req'[q].pc = "creating" /\ req'[q].entry = e /\ req'[q].conv = ConvOf(q[1], e)
         /\ \A p \in Requests \ {q} : req'[p] = req[p]
<1> DEFINE x == [pc |-> "creating", entry |-> e, row |-> 0, conv |-> ConvOf(q[1], e)]
<1>1. x \in States(Len(entry), Len(row))
  BY Shapes, ConvIsTyped, RequestParts DEF States
<1> HIDE DEF x
<1>2. req' = [req EXCEPT ![q] = x] /\ req \in [Requests -> States(Len(entry), Len(row))]
  BY Shapes DEF x
<1> QED BY <1>1, <1>2 DEF x

-----------------------------------------------------------------------------
(* The turns: the inductive invariant. *)

(* What a request holds: the entry and the row it found, under the conversation
   it names; a turn is written at most once. *)
Held(q) ==
  /\ req[q].pc = "streaming" => req[q].entry # 0 /\ req[q].row # 0
  /\ req[q].pc = "creating" =>
       /\ req[q].conv = ConvOf(q[1], req[q].entry)
       /\ q[1] \in Carrying /\ req[q].entry # 0 => entry[req[q].entry].key = q[1]
  /\ q[1] \in Carrying /\ req[q].pc = "streaming" => row[req[q].row].conv = q[1]
  /\ q[1] \in Carrying /\ user[q] # 0 => row[user[q]].conv = q[1]

Fresh(q) ==
  /\ req[q].pc # "done" => turn[<<q, "agent">>] = 0
  /\ req[q].pc \in {"none", "creating"} => user[q] = 0 /\ turn[<<q, "user">>] = 0
  /\ user[q] # 0 => turn[<<q, "user">>] = 0

Kept(e) ==
  /\ entry[e].row <= Len(row)
  /\ entry[e].row # 0 /\ entry[e].key # 0 => row[entry[e].row].conv = entry[e].key

Counted(r) ==
  /\ row[r].status # "completed" => row[r].late = 0
  /\ row[r].status = "completed" => row[r].counted + row[r].late = Cardinality(In(r))

TurnsInv ==
  /\ TypeOK /\ TurnsStayInTheirCall
  /\ \A q \in Requests : Held(q) /\ Fresh(q)
  /\ \A e \in 1 .. Len(entry) : Kept(e)
  /\ \A r \in Made : Counted(r)

LEMMA TurnsInitial == Init => TurnsInv
<1> SUFFICES ASSUME Init PROVE TurnsInv
  OBVIOUS
<1>1. entry = <<>> /\ row = <<>> /\ Len(entry) = 0 /\ Len(row) = 0 /\ Made = {}
  BY DEF Init, Made
<1>2. \A q \in Requests : req[q] = At("none") /\ At("none").pc = "none" /\ user[q] = 0
  BY DEF Init, At
<1>3. \A t \in Turns : turn[t] = 0
  BY DEF Init
<1>4. TypeOK
  <2>1. entry \in Seq(Entries) /\ row \in Seq(Sessions) /\ store \subseteq 1 .. Len(entry)
        /\ \A d, e \in store : entry[d].key = entry[e].key /\ entry[d].key # 0 => d = e
    BY <1>1 DEF Init
  <2>2. req \in [Requests -> [pc : {"none", "creating", "streaming", "done", "refused"},
                           entry : 0 .. Len(entry), row : 0 .. Len(row),
                           conv : {0} \union Calls]]
    BY <1>1 DEF Init, At
  <2>3. /\ user \in [Requests -> 0 .. Len(row)] /\ turn \in [Turns -> 0 .. Len(row)]
        /\ call \in [Calls -> {"none", "live", "over"}]
        /\ lost \in [Calls -> Nat] /\ raced \in [Calls -> Nat]
        /\ Len(row) <= MaxRows /\ faults \in 0 .. MaxFaults
    BY <1>1, VoiceTurnsAssumption DEF Init
  <2> QED BY <2>1, <2>2, <2>3 DEF TypeOK
<1>5. \A q \in Requests : Held(q) /\ Fresh(q)
  BY <1>2, <1>3 DEF Held, Fresh, Turns
<1>6. TurnsStayInTheirCall
  BY <1>3 DEF TurnsStayInTheirCall
<1>7. \A e \in 1 .. Len(entry) : Kept(e)
  BY <1>1
<1>8. \A r \in Made : Counted(r)
  BY <1>1
<1> QED BY <1>4, <1>5, <1>6, <1>7, <1>8 DEF TurnsInv

LEMMA SameRows ==
  ASSUME TurnsInv, UNCHANGED rowVars
  PROVE  TurnsStayInTheirCall' /\ Made' = Made /\ \A r \in Made : Counted(r)'
<1>1. UNCHANGED <<row, turn>>
  BY DEF rowVars
<1> QED BY <1>1 DEF TurnsInv, TurnsStayInTheirCall, Made, Counted, In

LEMMA TypeOfParts ==
  ASSUME call' \in [Calls -> {"none", "live", "over"}],
         entry' \in Seq(Entries), store' \subseteq 1 .. Len(entry'),
         \A d, e \in store' : entry'[d].key = entry'[e].key /\ entry'[d].key # 0 => d = e,
         req' \in [Requests -> States(Len(entry'), Len(row'))],
         user' \in [Requests -> 0 .. Len(row')],
         row' \in Seq(Sessions), Len(row') <= MaxRows, turn' \in [Turns -> 0 .. Len(row')],
         lost' \in [Calls -> Nat], raced' \in [Calls -> Nat], faults' \in 0 .. MaxFaults
  PROVE  TypeOK'
BY DEF TypeOK, States

(* A step that only ends requests and tasks, drops entries or passes time. *)
LEMMA QuietTurns ==
  ASSUME TurnsInv, UNCHANGED rowVars, store' \subseteq store,
         UNCHANGED entry \/ \E q \in Requests : CountTurn(q),
         req' \in [Requests -> States(Len(entry), Len(row))],
         user' \in [Requests -> 0 .. Len(row)],
         \A p \in Requests : \/ req'[p] = req[p] \/ req'[p] = At("done")
                             \/ (req'[p] = At("refused") /\ req[p].pc # "done"),
         \A p \in Requests : user'[p] = user[p] \/ user'[p] = 0,
         call' \in [Calls -> {"none", "live", "over"}],
         lost' \in [Calls -> Nat], raced' \in [Calls -> Nat], faults' \in 0 .. MaxFaults
  PROVE  TurnsInv'
<1>1. UNCHANGED <<row, turn>> /\ UNCHANGED rowVars
  BY DEF rowVars
<1>6. KeptEntries
  BY ReplyShape DEF TurnsInv
<1>7. Len(entry) \in Nat /\ req \in [Requests -> States(Len(entry), Len(row))]
  BY Shapes DEF TurnsInv
<1>2. TypeOK'
  <2>1. TypeOK /\ store' \subseteq 1 .. Len(entry')
    BY <1>6 DEF TurnsInv, TypeOK, KeptEntries
  <2>2. \A d, e \in store' : entry'[d].key = entry'[e].key /\ entry'[d].key # 0 => d = e
    <3>1. \A d, e \in store : entry[d].key = entry[e].key /\ entry[d].key # 0 => d = e
      BY <2>1 DEF TypeOK
    <3>2. \A d \in store' : d \in store /\ entry'[d].key = entry[d].key
      BY <1>6, <2>1 DEF KeptEntries
    <3> QED BY <3>1, <3>2
  <2> QED BY <1>1, <1>6, <2>1, <2>2, TypeOfParts DEF TypeOK, KeptEntries
<1>3. /\ At("done").pc = "done" /\ At("refused").pc = "refused"
  BY DEF At
<1>4. ASSUME NEW q \in Requests PROVE Held(q)' /\ Fresh(q)'
  <2>1. Held(q) /\ Fresh(q)
    BY DEF TurnsInv
  <2>4. req[q].entry # 0 => entry'[req[q].entry].key = entry[req[q].entry].key
    BY <1>6, <1>7 DEF KeptEntries, States
  <2>2. Held(q)'
    BY <1>1, <1>3, <2>1, <2>4 DEF Held, ConvOf
  <2>3. Fresh(q)'
    BY <1>1, <1>3, <2>1 DEF Fresh
  <2> QED BY <2>2, <2>3
<1>5. \A e \in 1 .. Len(entry') : Kept(e)'
  BY <1>1, <1>6 DEF TurnsInv, Kept, KeptEntries
<1> QED BY <1>1, <1>2, <1>4, <1>5, SameRows DEF TurnsInv

LEMMA FaultTyped ==
  ASSUME TypeOK, Fault \/ UNCHANGED faults
  PROVE  faults' \in 0 .. MaxFaults
<1>1. faults \in 0 .. MaxFaults /\ MaxFaults \in Nat
  BY VoiceTurnsAssumption DEF TypeOK
<1> QED BY <1>1 DEF Fault

LEMMA BeginTurns ==
  ASSUME TurnsInv, NEW c \in Calls, Begin(c)
  PROVE  TurnsInv'
<1>1. call' \in [Calls -> {"none", "live", "over"}]
  BY DEF TurnsInv, TypeOK, Begin
<1> QED BY <1>1, QuietTurns, Shapes
    DEF TurnsInv, TypeOK, Begin, storeVars, rowVars, countVars, States

LEMMA EndingTurns ==
  ASSUME TurnsInv, NEW q \in Requests, Refuse(q) \/ ReplyLost(q)
  PROVE  TurnsInv'
<1>0. TypeOK /\ (Fault \/ UNCHANGED faults)
  BY DEF TurnsInv, Refuse, ReplyLost, Fault
<1>1. /\ TypeOK /\ faults' \in 0 .. MaxFaults /\ UNCHANGED <<call, store, user, rowVars, countVars>>
      /\ UNCHANGED entry \/ CountTurn(q)
  BY <1>0, FaultTyped DEF Refuse, ReplyLost, storeVars
<1>2. PICK pc \in {"done", "refused"} : req' = [req EXCEPT ![q] = At(pc)] /\ req[q].pc # "done"
  BY DEF Refuse, ReplyLost
<1>3. req' \in [Requests -> States(Len(entry), Len(row))] /\ req'[q] = At(pc)
      /\ \A p \in Requests \ {q} : req'[p] = req[p]
  BY <1>1, <1>2, EndShape
<1> QED BY <1>1, <1>2, <1>3, QuietTurns DEF TypeOK, countVars

LEMMA TaskFailsTurns ==
  ASSUME TurnsInv, NEW q \in Requests, UserTurnFails(q)
  PROVE  TurnsInv'
<1>0. TypeOK /\ Fault
  BY DEF TurnsInv, UserTurnFails
<1>1. TypeOK /\ faults' \in 0 .. MaxFaults /\ UNCHANGED <<call, storeVars, req, rowVars, countVars>>
      /\ req \in [Requests -> States(Len(entry), Len(row))]
  BY <1>0, Shapes, FaultTyped DEF UserTurnFails
<1>2. user' = [user EXCEPT ![q] = 0] /\ user' \in [Requests -> 0 .. Len(row)]
  BY <1>1, Shapes DEF TypeOK, UserTurnFails
<1> QED BY <1>1, <1>2, QuietTurns DEF TypeOK, storeVars, countVars

LEMMA ExpireTurns ==
  ASSUME TurnsInv, NEW e \in store, Expire(e)
  PROVE  TurnsInv'
<1>0. TypeOK /\ Fault
  BY DEF TurnsInv, Expire
<1>1. TypeOK /\ faults' \in 0 .. MaxFaults /\ UNCHANGED <<call, entry, req, user, rowVars, raced>>
      /\ req \in [Requests -> States(Len(entry), Len(row))] /\ store' \subseteq store
  BY <1>0, Shapes, FaultTyped DEF Expire
<1>2. lost' \in [Calls -> Nat]
  BY <1>1 DEF TypeOK, Expire
<1> QED BY <1>1, <1>2, QuietTurns DEF TypeOK

LEMMA StopTurns ==
  ASSUME TurnsInv, Stop
  PROVE  TurnsInv'
<1>0. TypeOK /\ Fault
  BY DEF TurnsInv, Stop
<1>1. TypeOK /\ faults' \in 0 .. MaxFaults /\ UNCHANGED <<call, entry, rowVars, raced>>
      /\ req \in [Requests -> States(Len(entry), Len(row))] /\ store' = {}
      /\ Len(row) \in Nat /\ Len(entry) \in Nat
  BY <1>0, Shapes, FaultTyped DEF Stop
<1>2. lost' \in [Calls -> Nat]
  BY <1>1 DEF TypeOK, Stop
<1>3. user' = [q \in Requests |-> 0]
      /\ req' = [q \in Requests |-> IF req[q].pc \in {"none", "done", "refused"} THEN req[q]
                                    ELSE At("refused")]
  BY DEF Stop
<1>4. user' \in [Requests -> 0 .. Len(row)] /\ req' \in [Requests -> States(Len(entry), Len(row))]
  BY <1>1, <1>3, AtTyped
<1> QED BY <1>1, <1>2, <1>3, <1>4, QuietTurns DEF TypeOK

LEMMA InitiateTurns ==
  ASSUME TurnsInv, NEW c \in Calls, Initiate(c)
  PROVE  TurnsInv'
<1>1. TypeOK /\ UNCHANGED <<call, req, user, rowVars, countVars, faults>> /\ UNCHANGED <<row, turn, lost, raced>>
      /\ \A e \in store : entry[e].key # c
  BY DEF TurnsInv, Initiate, rowVars, countVars
<1>2. /\ Len(entry) \in Nat /\ Len(row) \in Nat
      /\ req \in [Requests -> States(Len(entry), Len(row))]
  BY <1>1, Shapes
<1>3. /\ entry' \in Seq(Entries) /\ Len(entry') = Len(entry) + 1
      /\ \A e \in 1 .. Len(entry) : entry'[e] = entry[e]
      /\ entry'[Len(entry) + 1].key = c /\ entry'[Len(entry) + 1].row = 0
      /\ store' = store \union {Len(entry) + 1}
  BY <1>1, InitiateShape
<1>4. TypeOK'
  <2>1. req' \in [Requests -> States(Len(entry'), Len(row'))]
    <3>1. States(Len(entry), Len(row)) \subseteq States(Len(entry) + 1, Len(row))
      BY <1>2, StatesGrow
    <3> QED BY <1>1, <1>2, <1>3, <3>1
  <2>2. /\ store \subseteq 1 .. Len(entry)
        /\ \A d, e \in store : entry[d].key = entry[e].key /\ entry[d].key # 0 => d = e
    BY <1>1 DEF TypeOK
  <2>3. store' \subseteq 1 .. Len(entry')
    <3>1. 1 .. Len(entry) \subseteq 1 .. Len(entry') /\ Len(entry) + 1 \in 1 .. Len(entry')
      BY <1>2, <1>3
    <3> QED BY <1>3, <2>2, <3>1
  <2>4. \A d \in store : entry'[d] = entry[d] /\ d # Len(entry) + 1
    BY <1>2, <1>3, <2>2
  <2>5. ASSUME NEW d \in store', NEW e \in store', entry'[d].key = entry'[e].key, entry'[d].key # 0
        PROVE  d = e
    BY <1>1, <1>3, <2>2, <2>4, <2>5
  <2> QED BY <1>1, <1>3, <2>1, <2>3, <2>5, TypeOfParts DEF TypeOK
<1>5. ASSUME NEW q \in Requests PROVE Held(q)' /\ Fresh(q)'
  <2>1. Held(q) /\ Fresh(q) /\ req[q] \in States(Len(entry), Len(row))
    BY <1>2 DEF TurnsInv
  <2>2. req[q].entry # 0 => entry'[req[q].entry] = entry[req[q].entry]
    BY <1>2, <1>3, <2>1 DEF States
  <2>3. Held(q)'
    BY <1>1, <2>1, <2>2 DEF Held, ConvOf
  <2> QED BY <1>1, <2>1, <2>3 DEF Fresh
<1>6. ASSUME NEW e \in 1 .. Len(entry') PROVE Kept(e)'
  <2>1. CASE e \in 1 .. Len(entry)
    BY <1>1, <1>3, <2>1 DEF TurnsInv, Kept
  <2>2. CASE e = Len(entry) + 1
    BY <1>1, <1>2, <1>3, <2>2 DEF Kept
  <2> QED BY <1>2, <1>3, <2>1, <2>2
<1> QED BY <1>1, <1>4, <1>5, <1>6, SameRows DEF TurnsInv

(* A request that nothing happens to holds what it held. *)
LEMMA OthersHold ==
  ASSUME NEW p \in Requests, Held(p), Fresh(p), req'[p] = req[p], user'[p] = user[p],
         UNCHANGED <<entry, row, turn>>
  PROVE  Held(p)' /\ Fresh(p)'
<1>1. Held(p)'
  BY DEF Held, ConvOf
<1>2. Fresh(p)'
  BY DEF Fresh
<1> QED BY <1>1, <1>2

LEMMA AskTurns ==
  ASSUME TurnsInv, NEW q \in Requests, Ask(q)
  PROVE  TurnsInv'
<1>1. TypeOK /\ UNCHANGED <<call, entry, store, row, turn, lost, faults>> /\ UNCHANGED rowVars
      /\ req[q].pc = "none"
  BY DEF TurnsInv, Ask, storeVars, rowVars
<1>2. /\ Len(entry) \in Nat /\ Len(row) \in Nat /\ user \in [Requests -> 0 .. Len(row)]
      /\ req \in [Requests -> States(Len(entry), Len(row))]
      /\ \A e \in 1 .. Len(entry) : entry[e] \in Entries
  BY <1>1, Shapes DEF TypeOK
<1>3. PICK e \in 0 .. Len(entry) :
           /\ e \in Found(q[1]) \/ (e = 0 /\ Found(q[1]) = {})
           /\ \/ HasRow(e) /\ Stream(q, e, entry[e].row) /\ UNCHANGED raced
              \/ /\ ~HasRow(e) /\ UNCHANGED user
                 /\ req' = [req EXCEPT ![q] =
                              [pc |-> "creating", entry |-> e, row |-> 0, conv |-> ConvOf(q[1], e)]]
                 /\ raced' = IF \E p \in Requests : p[1] = q[1] /\ req[p].pc = "creating"
                             THEN [raced EXCEPT ![q[1]] = @ + 1] ELSE raced
  BY <1>1, AskShape
<1>4. raced' \in [Calls -> Nat]
  <2>1. raced \in [Calls -> Nat]
    BY <1>1 DEF TypeOK
  <2>2. q[1] \in Calls
    BY RequestParts
  <2>3. raced' = raced \/ raced' = [raced EXCEPT ![q[1]] = @ + 1]
    BY <1>3
  <2>4. raced[q[1]] + 1 \in Nat
    BY <2>1, <2>2
  <2> QED BY <2>1, <2>2, <2>3, <2>4
<1>5. q[1] \in Carrying /\ e # 0 => entry[e].key = q[1]
  BY <1>3 DEF Found
<1>6. ASSUME NEW p \in Requests
      PROVE  Held(p) /\ Fresh(p)
  BY DEF TurnsInv
<1>7. /\ req' \in [Requests -> States(Len(entry), Len(row))] /\ user' \in [Requests -> 0 .. Len(row)]
      /\ \A p \in Requests : Held(p)' /\ Fresh(p)'
  <2>1. CASE HasRow(e)
    <3> DEFINE r == entry[e].row
    <3>1. Stream(q, e, r) /\ e # 0 /\ r # 0 /\ e \in 1 .. Len(entry)
      BY <1>3, <2>1 DEF HasRow
    <3>2. r \in 1 .. Len(row) /\ (entry[e].key # 0 => row[r].conv = entry[e].key)
      BY <1>2, <3>1 DEF TurnsInv, Kept, Entries, Rows
    <3> HIDE DEF r
    <3>3. /\ req' \in [Requests -> States(Len(entry), Len(row))] /\ user' \in [Requests -> 0 .. Len(row)]
          /\ req'[q] = [pc |-> "streaming", entry |-> e, row |-> r, conv |-> 0] /\ user'[q] = r
          /\ \A p \in Requests \ {q} : req'[p] = req[p] /\ user'[p] = user[p]
      BY <1>1, <1>2, <3>1, <3>2, StreamShape
    <3>4. q[1] \in Carrying => row[r].conv = q[1]
      <4>1. q[1] # 0
        BY RequestParts, VoiceTurnsAssumption DEF Calls
      <4> QED BY <1>5, <3>1, <3>2, <4>1
    <3>5. Held(q)' /\ Fresh(q)'
      BY <1>1, <1>6, <3>1, <3>3, <3>4 DEF Held, Fresh
    <3>6. \A p \in Requests \ {q} : Held(p)' /\ Fresh(p)'
      BY <1>1, <1>6, <3>3, OthersHold
    <3> QED BY <3>3, <3>5, <3>6
  <2>2. CASE ~HasRow(e)
    <3>1. /\ req' \in [Requests -> States(Len(entry), Len(row))] /\ user' = user
          /\ req'[q].pc = "creating" /\ req'[q].entry = e /\ req'[q].conv = ConvOf(q[1], e)
          /\ \A p \in Requests \ {q} : req'[p] = req[p]
      BY <1>1, <1>3, <2>2, CreatingShape
    <3>2. Held(q)' /\ Fresh(q)'
      BY <1>1, <1>5, <1>6, <3>1 DEF Held, Fresh, ConvOf
    <3>3. \A p \in Requests \ {q} : Held(p)' /\ Fresh(p)'
      BY <1>1, <1>6, <3>1, OthersHold
    <3> QED BY <1>2, <3>1, <3>2, <3>3
  <2> QED BY <2>1, <2>2
<1>8. TypeOK'
  BY <1>1, <1>4, <1>7, TypeOfParts DEF TypeOK
<1>9. \A e1 \in 1 .. Len(entry') : Kept(e1)'
  BY <1>1 DEF TurnsInv, Kept
<1> QED BY <1>1, <1>7, <1>8, <1>9, SameRows DEF TurnsInv

LEMMA CreateTurns ==
  ASSUME TurnsInv, NEW q \in Requests, Create(q)
  PROVE  TurnsInv'
<1> DEFINE R == Len(row) + 1  new == NewRow(q[1], req[q].conv)  e == Attached(q)
<1>1. /\ TypeOK /\ UNCHANGED <<call, turn, lost, raced, faults>> /\ req[q].pc = "creating"
      /\ row' = Append(row, new) /\ Attach(q, R) /\ Len(row) < MaxRows /\ row \in Seq(Sessions)
  BY DEF TurnsInv, TypeOK, Create, countVars
<1>2. /\ Len(entry) \in Nat /\ Len(row) \in Nat /\ MaxRows \in Nat
      /\ req \in [Requests -> States(Len(entry), Len(row))]
      /\ \A d \in 1 .. Len(entry) : entry[d] \in Entries
      /\ store \subseteq 1 .. Len(entry)
      /\ user \in [Requests -> 0 .. Len(row)] /\ turn \in [Turns -> 0 .. Len(row)]
  BY <1>1, Shapes DEF TypeOK
<1>3. /\ new \in Sessions /\ new.conv = req[q].conv /\ new.status = "initiated" /\ new.late = 0
      /\ new.by = q[1]
  <2>1. req[q] \in States(Len(entry), Len(row)) /\ q[1] \in Calls
    BY <1>2, RequestParts
  <2> QED BY <2>1 DEF NewRow, Sessions, States
<1>4. R \in Rows /\ Len(row) <= R
  BY <1>1, <1>2 DEF Rows
<1> HIDE DEF new
<1>5. /\ row' \in Seq(Sessions) /\ Len(row') = R /\ row'[R] = new
      /\ \A r \in 1 .. Len(row) : row'[r] = row[r]
  BY <1>1, <1>3, Appended
<1>6. /\ entry' \in Seq(Entries) /\ e \in 1 .. Len(entry')
      /\ Len(entry') = IF req[q].entry = 0 THEN Len(entry) + 1 ELSE Len(entry)
      /\ \A d \in 1 .. Len(entry) : d # e => entry'[d] = entry[d]
      /\ entry'[e].row = R
      /\ entry'[e].key = IF req[q].entry = 0 THEN req[q].conv ELSE entry[e].key
      /\ store' = IF req[q].entry = 0
                     THEN {d \in store : entry[d].key # req[q].conv \/ req[q].conv = 0}
                            \union {Len(entry) + 1}
                     ELSE store
      /\ Stream(q, e, R)
  BY <1>1, <1>4, AttachShape
<1>7. e = IF req[q].entry = 0 THEN Len(entry) + 1 ELSE req[q].entry
  BY DEF Attached
<1> HIDE DEF R, e
<1>8. R \in Nat /\ Len(row) < R /\ R <= MaxRows /\ Len(entry') \in Nat /\ Len(entry) <= Len(entry')
  BY <1>1, <1>2, <1>6 DEF R
<1>9. \A d \in 1 .. Len(entry) : entry'[d].key = entry[d].key
  <2>1. ASSUME NEW d \in 1 .. Len(entry) PROVE entry'[d].key = entry[d].key
    <3>1. CASE d = e
      <4>1. req[q].entry # 0
        BY <1>2, <1>7, <3>1
      <4> QED BY <1>6, <3>1, <4>1
    <3>2. CASE d # e
      BY <1>6, <3>2
    <3> QED BY <3>1, <3>2
  <2> QED BY <2>1
<1>10. /\ req' \in [Requests -> States(Len(entry'), R)] /\ user' \in [Requests -> 0 .. R]
       /\ req'[q] = [pc |-> "streaming", entry |-> e, row |-> R, conv |-> 0] /\ user'[q] = R
       /\ \A p \in Requests \ {q} : req'[p] = req[p] /\ user'[p] = user[p]
  <2>1. e \in 0 .. Len(entry') /\ R \in 0 .. R /\ Len(row) <= R
    BY <1>6, <1>8, <1>2
  <2> QED BY <1>1, <1>6, <1>8, <2>1, StreamShape
<1>11. store' \subseteq 1 .. Len(entry')
       /\ \A d, f \in store' : entry'[d].key = entry'[f].key /\ entry'[d].key # 0 => d = f
  <2>1. /\ \A d, f \in store : entry[d].key = entry[f].key /\ entry[d].key # 0 => d = f
    BY <1>1 DEF TypeOK
  <2>2. CASE req[q].entry # 0
    <3>1. store' = store /\ Len(entry') = Len(entry)
      BY <1>6, <2>2
    <3>2. \A d \in store : entry'[d].key = entry[d].key
      BY <1>2, <1>9
    <3> QED BY <1>2, <2>1, <3>1, <3>2
  <2>3. CASE req[q].entry = 0
    <3>1. /\ store' = {d \in store : entry[d].key # req[q].conv \/ req[q].conv = 0} \union {e}
          /\ e = Len(entry) + 1 /\ Len(entry') = Len(entry) + 1 /\ entry'[e].key = req[q].conv
      BY <1>6, <1>7, <2>3
    <3>2. store' \subseteq 1 .. Len(entry')
      <4>1. 1 .. Len(entry) \subseteq 1 .. Len(entry') /\ e \in 1 .. Len(entry')
        BY <1>2, <1>6, <1>8
      <4> QED BY <1>2, <3>1, <4>1
    <3>3. \A d \in store : entry'[d].key = entry[d].key
      BY <1>2, <1>9
    <3>4. ASSUME NEW d \in store', NEW f \in store', entry'[d].key = entry'[f].key, entry'[d].key # 0
          PROVE  d = f
      BY <2>1, <3>1, <3>3, <3>4
    <3> QED BY <3>2, <3>4
  <2> QED BY <2>2, <2>3
<1>12. TypeOK'
  <2>1. 0 .. Len(row) \subseteq 0 .. R
    BY <1>2, <1>8
  <2>2. turn' \in [Turns -> 0 .. Len(row')]
    BY <1>1, <1>2, <1>5, <2>1
  <2> QED BY <1>1, <1>5, <1>6, <1>8, <1>10, <1>11, <2>2, TypeOfParts DEF TypeOK
<1>13. ASSUME NEW p \in Requests PROVE Held(p) /\ Fresh(p)
  BY DEF TurnsInv
<1>14. Held(q)' /\ Fresh(q)'
  <2>1. q[1] \in Carrying => req[q].conv = q[1]
    BY <1>1, <1>13 DEF Held, ConvOf
  <2>2. e # 0 /\ R # 0
    BY <1>6, <1>8
  <2> QED BY <1>1, <1>3, <1>5, <1>10, <1>13, <2>1, <2>2 DEF Held, Fresh
<1>15. ASSUME NEW p \in Requests \ {q} PROVE Held(p)' /\ Fresh(p)'
  <2>1. Held(p) /\ Fresh(p) /\ req'[p] = req[p] /\ user'[p] = user[p]
    BY <1>10, <1>13
  <2>2. req[p] \in States(Len(entry), Len(row)) /\ user[p] \in 0 .. Len(row)
    BY <1>2
  <2>3. /\ req[p].entry # 0 => entry'[req[p].entry].key = entry[req[p].entry].key
        /\ req[p].row # 0 => row'[req[p].row] = row[req[p].row]
        /\ user[p] # 0 => row'[user[p]] = row[user[p]]
    BY <1>2, <1>5, <1>9, <2>2 DEF States
  <2>4. Held(p)'
    BY <2>1, <2>3 DEF Held, ConvOf
  <2>5. Fresh(p)'
    BY <1>1, <2>1 DEF Fresh
  <2> QED BY <2>4, <2>5
<1>16. ASSUME NEW d \in 1 .. Len(entry') PROVE Kept(d)'
  <2>1. CASE d = e
    <3>1. entry'[e].key # 0 => req[q].conv = entry'[e].key
      BY <1>1, <1>6, <1>7, <1>13 DEF Held, ConvOf
    <3> QED BY <1>3, <1>5, <1>6, <1>8, <2>1, <3>1 DEF Kept
  <2>2. CASE d # e
    <3>1. d \in 1 .. Len(entry) /\ entry'[d] = entry[d]
      BY <1>2, <1>6, <1>7, <2>2
    <3>2. Kept(d) /\ entry[d].row \in Nat
      BY <1>2, <3>1 DEF TurnsInv, Entries, Rows
    <3>3. entry[d].row # 0 => row'[entry[d].row] = row[entry[d].row]
      BY <1>2, <1>5, <3>2 DEF Kept
    <3> QED BY <1>2, <1>5, <1>8, <3>1, <3>2, <3>3 DEF Kept
  <2> QED BY <2>1, <2>2
<1>17. TurnsStayInTheirCall'
  <2> SUFFICES ASSUME NEW t \in Turns, turn'[t] # 0, CallOf(t) \in Carrying
               PROVE  row'[turn'[t]].conv = CallOf(t)
    BY DEF TurnsStayInTheirCall
  <2>1. turn'[t] = turn[t] /\ turn[t] \in 1 .. Len(row)
    BY <1>1, <1>2
  <2> QED BY <1>5, <2>1 DEF TurnsInv, TurnsStayInTheirCall
<1>18. ASSUME NEW r \in Made' PROVE Counted(r)'
  <2>1. CASE r = R
    BY <1>3, <1>5, <2>1 DEF Counted
  <2>2. CASE r # R
    <3>1. r \in Made /\ row'[r] = row[r] /\ In(r)' = In(r)
      BY <1>1, <1>2, <1>5, <2>2 DEF Made, In, R
    <3> QED BY <3>1 DEF TurnsInv, Counted
  <2> QED BY <2>1, <2>2
<1> QED BY <1>12, <1>14, <1>15, <1>16, <1>17, <1>18 DEF TurnsInv

(* One more turn in a row that is its conversation's. *)
LEMMA AddTurnRows ==
  ASSUME TurnsInv, NEW q \in Requests, NEW r \in Made, NEW by \in {"user", "agent"},
         AddTurn(r, q, by), turn[<<q, by>>] = 0, q[1] \in Carrying => row[r].conv = q[1]
  PROVE  TurnsStayInTheirCall' /\ \A s \in Made' : Counted(s)'
<1> DEFINE t == <<q, by>>
<1>1. TypeOK /\ t \in Turns /\ CallOf(t) = q[1]
  BY DEF TurnsInv, Turns, CallOf
<1>2. /\ turn' \in [Turns -> 0 .. Len(row)] /\ turn'[t] = r
      /\ \A u \in Turns : u # t => turn'[u] = turn[u]
      /\ row' \in Seq(Sessions) /\ Len(row') = Len(row)
      /\ \A s \in Made :
           /\ row'[s].by = row[s].by /\ row'[s].conv = row[s].conv
           /\ row'[s].status = row[s].status /\ row'[s].counted = row[s].counted
           /\ row'[s].late = IF s = r /\ row[s].status = "completed"
                             THEN row[s].late + 1 ELSE row[s].late
  <2>0. t = <<q, by>> /\ <<q, by>> \in Turns
    BY <1>1
  <2> HIDE DEF t
  <2>1. /\ turn' \in [Turns -> 0 .. Len(row)] /\ turn'[<<q, by>>] = r
        /\ \A u \in Turns : u # <<q, by>> => turn'[u] = turn[u]
    BY <1>1, <2>0, AddTurnShape
  <2>2. row' \in Seq(Sessions) /\ Len(row') = Len(row)
    BY <1>1, <2>0, AddTurnShape
  <2>3. \A s \in Made :
          /\ row'[s].by = row[s].by /\ row'[s].conv = row[s].conv
          /\ row'[s].status = row[s].status /\ row'[s].counted = row[s].counted
          /\ row'[s].late = IF s = r /\ row[s].status = "completed"
                            THEN row[s].late + 1 ELSE row[s].late
    BY <1>1, <2>0, AddTurnShape
  <2> QED BY <2>0, <2>1, <2>2, <2>3
<1>3. /\ Len(row) \in Nat /\ turn \in [Turns -> 0 .. Len(row)] /\ Made' = Made
      /\ \A s \in Made : row[s].counted \in Nat /\ row[s].late \in Nat
  BY <1>1, <1>2, Shapes DEF TypeOK, Made, Sessions
<1> HIDE DEF t
<1>4. TurnsStayInTheirCall'
  <2> SUFFICES ASSUME NEW u \in Turns, turn'[u] # 0, CallOf(u) \in Carrying
               PROVE  row'[turn'[u]].conv = CallOf(u)
    BY DEF TurnsStayInTheirCall
  <2>1. CASE u = t
    BY <1>1, <1>2, <2>1
  <2>2. CASE u # t
    <3>1. turn'[u] = turn[u]
      BY <1>2, <2>2
    <3>2. turn[u] \in Made
      BY <1>3, <3>1 DEF Made
    <3>3. row'[turn[u]].conv = row[turn[u]].conv
      BY <1>2, <3>2
    <3>4. row[turn[u]].conv = CallOf(u)
      BY <3>1 DEF TurnsInv, TurnsStayInTheirCall
    <3> QED BY <3>1, <3>3, <3>4
  <2> QED BY <2>1, <2>2
<1>5. ASSUME NEW s \in Made PROVE Counted(s)'
  <2>1. Counted(s)
    BY DEF TurnsInv
  <2>2. CASE s # r
    <3>1. In(s)' = In(s)
      <4>1. turn[t] = 0 /\ s # 0
        BY <1>3 DEF t, Made
      <4> QED BY <1>2, <2>2, <4>1 DEF In
    <3> QED BY <1>2, <2>1, <2>2, <3>1 DEF Counted
  <2>3. CASE s = r
    <3>1. In(r)' = In(r) \union {t} /\ t \notin In(r)
      <4>1. turn[t] = 0 /\ r # 0
        BY <1>3 DEF t, Made
      <4> QED BY <1>1, <1>2, <4>1 DEF In
    <3>2. IsFiniteSet(In(r)) /\ Cardinality(In(r)) \in Nat
      BY TurnsAreFew DEF In
    <3>3. Cardinality(In(r)') = Cardinality(In(r)) + 1
      <4> DEFINE old == In(r)  new == In(r)'
      <4>1. new = old \union {t} /\ t \notin old /\ IsFiniteSet(old)
        BY <3>1, <3>2
      <4> HIDE DEF old, new
      <4>2. Cardinality(new) = Cardinality(old) + 1
        BY <4>1, FS_AddElement
      <4> QED BY <4>2 DEF old, new
    <3>4. row'[r].status = row[r].status /\ row'[r].counted = row[r].counted
      BY <1>2
    <3>5. row[r].counted \in Nat /\ row[r].late \in Nat
      BY <1>3
    <3>6. CASE row[r].status = "completed"
      <4>1. row'[r].late = row[r].late + 1
        BY <1>2, <3>6
      <4> QED BY <2>1, <2>3, <3>2, <3>3, <3>4, <3>5, <3>6, <4>1 DEF Counted
    <3>7. CASE row[r].status # "completed"
      <4>1. row'[r].late = row[r].late
        BY <1>2, <3>7
      <4> QED BY <2>1, <2>3, <3>4, <3>7, <4>1 DEF Counted
    <3> QED BY <3>6, <3>7
  <2> QED BY <2>2, <2>3
<1> QED BY <1>3, <1>4, <1>5

(* The reply: the agent's turn is written, the request is done. *)
LEMMA ReplyTurns ==
  ASSUME TurnsInv, NEW q \in Requests, Reply(q) \/ ReplyTimesOut(q)
  PROVE  TurnsInv'
<1> DEFINE r == req[q].row
<1>1. /\ TypeOK /\ UNCHANGED <<call, store, user, lost, raced>> /\ req[q].pc = "streaming"
      /\ req' = [req EXCEPT ![q] = At("done")] /\ AddTurn(r, q, "agent")
      /\ (Fault \/ UNCHANGED faults)
  BY DEF TurnsInv, Reply, ReplyTimesOut, countVars, storeVars
<1>2. /\ entry' \in Seq(Entries) /\ Len(entry') = Len(entry)
      /\ \A e \in 1 .. Len(entry) : entry'[e].key = entry[e].key /\ entry'[e].row = entry[e].row
  <2>1. UNCHANGED entry \/ CountTurn(q)
    BY DEF Reply, ReplyTimesOut, storeVars
  <2> QED BY <1>1, <2>1, ReplyShape DEF KeptEntries
<1>3. /\ Len(entry) \in Nat /\ Len(row) \in Nat /\ user \in [Requests -> 0 .. Len(row)]
      /\ req \in [Requests -> States(Len(entry), Len(row))] /\ store \subseteq 1 .. Len(entry)
  BY <1>1, Shapes DEF TypeOK
<1>4. ASSUME NEW p \in Requests PROVE Held(p) /\ Fresh(p)
  BY DEF TurnsInv
<1>5. r \in Made
  BY <1>1, <1>3, <1>4 DEF Held, Made, States
<1>6. turn[<<q, "agent">>] = 0 /\ (q[1] \in Carrying => row[r].conv = q[1])
      /\ <<q, "agent">> \in Turns
  BY <1>1, <1>4 DEF Held, Fresh, Turns
<1> HIDE DEF r
<1>7. TurnsStayInTheirCall' /\ \A s \in Made' : Counted(s)'
  BY <1>1, <1>5, <1>6, AddTurnRows
<1>8. /\ turn' \in [Turns -> 0 .. Len(row)]
      /\ \A t \in Turns : t # <<q, "agent">> => turn'[t] = turn[t]
      /\ row' \in Seq(Sessions) /\ Len(row') = Len(row) /\ \A s \in Made : row'[s].conv = row[s].conv
  BY <1>1, <1>5, <1>6, AddTurnShape
<1>9. /\ req' \in [Requests -> States(Len(entry), Len(row))] /\ req'[q] = At("done")
      /\ \A p \in Requests \ {q} : req'[p] = req[p]
  BY <1>1, EndShape
<1>10. TypeOK'
  <2>1. store' \subseteq 1 .. Len(entry')
        /\ \A d, e \in store' : entry'[d].key = entry'[e].key /\ entry'[d].key # 0 => d = e
    <3>1. \A d, e \in store : entry[d].key = entry[e].key /\ entry[d].key # 0 => d = e
      BY <1>1 DEF TypeOK
    <3>2. \A d \in store : entry'[d].key = entry[d].key
      BY <1>2, <1>3
    <3>3. store' = store /\ store' \subseteq 1 .. Len(entry')
      BY <1>1, <1>2, <1>3
    <3> QED BY <3>1, <3>2, <3>3
  <2>2. faults' \in 0 .. MaxFaults
    BY <1>1, FaultTyped
  <2> QED BY <1>1, <1>2, <1>3, <1>8, <1>9, <2>1, <2>2, TypeOfParts DEF TypeOK
<1>11. Held(q)' /\ Fresh(q)'
  <2>1. req'[q].pc = "done"
    BY <1>9 DEF At
  <2>2. user[q] \in 0 .. Len(row) /\ (user[q] # 0 => row'[user[q]].conv = row[user[q]].conv)
    BY <1>3, <1>8 DEF Made
  <2>3. turn'[<<q, "user">>] = turn[<<q, "user">>]
    BY <1>8 DEF Turns
  <2> QED BY <1>1, <1>4, <2>1, <2>2, <2>3 DEF Held, Fresh
<1>12. ASSUME NEW p \in Requests \ {q} PROVE Held(p)' /\ Fresh(p)'
  <2>1. Held(p) /\ Fresh(p) /\ req'[p] = req[p] /\ user'[p] = user[p]
    BY <1>1, <1>4, <1>9
  <2>2. req[p] \in States(Len(entry), Len(row)) /\ user[p] \in 0 .. Len(row)
    BY <1>3
  <2>3. /\ req[p].entry # 0 => entry'[req[p].entry].key = entry[req[p].entry].key
        /\ req[p].row # 0 => row'[req[p].row].conv = row[req[p].row].conv
        /\ user[p] # 0 => row'[user[p]].conv = row[user[p]].conv
    BY <1>2, <1>3, <1>8, <2>2 DEF States, Made
  <2>4. Held(p)'
    BY <2>1, <2>3 DEF Held, ConvOf
  <2>5. turn'[<<p, "user">>] = turn[<<p, "user">>] /\ turn'[<<p, "agent">>] = turn[<<p, "agent">>]
    BY <1>8 DEF Turns
  <2>6. Fresh(p)'
    BY <2>1, <2>5 DEF Fresh
  <2> QED BY <2>4, <2>6
<1>13. ASSUME NEW e \in 1 .. Len(entry') PROVE Kept(e)'
  <2>1. Kept(e) /\ entry'[e].key = entry[e].key /\ entry'[e].row = entry[e].row
    BY <1>2 DEF TurnsInv
  <2>2. entry[e] \in Entries
    BY <1>1, <1>2, Shapes
  <2>3. entry[e].row # 0 => entry[e].row \in Made
    BY <1>3, <2>1, <2>2 DEF Kept, Made, Entries, Rows
  <2> QED BY <1>8, <2>1, <2>3 DEF Kept
<1> QED BY <1>7, <1>10, <1>11, <1>12, <1>13 DEF TurnsInv

(* The task that nobody waits for: the user's turn is written. *)
LEMMA SaveTurns ==
  ASSUME TurnsInv, NEW q \in Requests, SaveUserTurn(q)
  PROVE  TurnsInv'
<1> DEFINE r == user[q]
<1>1. /\ TypeOK /\ UNCHANGED <<call, entry, store, req, lost, raced, faults>> /\ user[q] # 0
      /\ user' = [user EXCEPT ![q] = 0] /\ AddTurn(r, q, "user")
  BY DEF TurnsInv, SaveUserTurn, countVars, storeVars
<1>2. /\ Len(entry) \in Nat /\ Len(row) \in Nat /\ user \in [Requests -> 0 .. Len(row)]
      /\ req \in [Requests -> States(Len(entry), Len(row))]
  BY <1>1, Shapes DEF TypeOK
<1>3. ASSUME NEW p \in Requests PROVE Held(p) /\ Fresh(p)
  BY DEF TurnsInv
<1>4. r \in Made
  BY <1>1, <1>2 DEF Made
<1>5. turn[<<q, "user">>] = 0 /\ (q[1] \in Carrying => row[r].conv = q[1])
      /\ <<q, "user">> \in Turns
  BY <1>1, <1>3 DEF Held, Fresh, Turns
<1> HIDE DEF r
<1>6. TurnsStayInTheirCall' /\ \A s \in Made' : Counted(s)'
  BY <1>1, <1>4, <1>5, AddTurnRows
<1>7. /\ turn' \in [Turns -> 0 .. Len(row)]
      /\ \A t \in Turns : t # <<q, "user">> => turn'[t] = turn[t]
      /\ row' \in Seq(Sessions) /\ Len(row') = Len(row) /\ \A s \in Made : row'[s].conv = row[s].conv
  BY <1>1, <1>4, <1>5, AddTurnShape
<1>8. TypeOK'
  <2>1. user' \in [Requests -> 0 .. Len(row)]
    BY <1>1, <1>2
  <2> QED BY <1>1, <1>2, <1>7, <2>1, TypeOfParts DEF TypeOK
<1>9. ASSUME NEW p \in Requests PROVE Held(p)' /\ Fresh(p)'
  <2>1. /\ Held(p) /\ Fresh(p) /\ req'[p] = req[p] /\ user'[p] = IF p = q THEN 0 ELSE user[p]
        /\ UNCHANGED entry
    BY <1>1, <1>2, <1>3
  <2>2. req[p] \in States(Len(entry), Len(row)) /\ user[p] \in 0 .. Len(row)
    BY <1>2
  <2>3. /\ req[p].row # 0 => row'[req[p].row].conv = row[req[p].row].conv
        /\ user[p] # 0 => row'[user[p]].conv = row[user[p]].conv
    BY <1>2, <1>7, <2>2 DEF States, Made
  <2>4. Held(p)'
    BY <2>1, <2>3 DEF Held, ConvOf
  <2>5. /\ turn'[<<p, "agent">>] = turn[<<p, "agent">>]
        /\ p # q => turn'[<<p, "user">>] = turn[<<p, "user">>]
    BY <1>7 DEF Turns
  <2>6. req[q].pc \notin {"none", "creating"}
    BY <1>1, <1>3 DEF Fresh
  <2>7. Fresh(p)'
    BY <2>1, <2>5, <2>6 DEF Fresh
  <2> QED BY <2>4, <2>7
<1>10. ASSUME NEW e \in 1 .. Len(entry') PROVE Kept(e)'
  <2>1. Kept(e) /\ UNCHANGED entry /\ entry[e] \in Entries
    BY <1>1, Shapes DEF TurnsInv
  <2>2. entry[e].row # 0 => entry[e].row \in Made
    BY <1>2, <2>1 DEF Kept, Made, Entries, Rows
  <2> QED BY <1>7, <2>1, <2>2 DEF Kept
<1> QED BY <1>6, <1>8, <1>9, <1>10 DEF TurnsInv

(* A row's conversation may be found out later, and nothing else changes it. *)
Learns(r) == row'[r].conv = row[r].conv \/ row[r].conv = 0

LEMMA LearningHolds ==
  ASSUME TurnsInv, UNCHANGED <<entry, req, user>>, Len(row') = Len(row), \A r \in Made : Learns(r)
  PROVE  /\ \A q \in Requests : Held(q)'
         /\ \A e \in 1 .. Len(entry') : Kept(e)'
<1>1. /\ TypeOK /\ Len(row) \in Nat /\ user \in [Requests -> 0 .. Len(row)]
      /\ req \in [Requests -> States(Len(entry), Len(row))]
      /\ \A e \in 1 .. Len(entry) : entry[e] \in Entries
  BY Shapes DEF TurnsInv, TypeOK
<1>2. ASSUME NEW q \in Requests PROVE Held(q)'
  <2>1. Held(q) /\ req[q] \in States(Len(entry), Len(row)) /\ user[q] \in 0 .. Len(row) /\ q[1] # 0
    BY <1>1, RequestParts DEF TurnsInv, Calls
  <2>2. /\ req[q].row # 0 => Learns(req[q].row)
        /\ user[q] # 0 => Learns(user[q])
    BY <1>1, <2>1 DEF States, Made
  <2> QED BY <2>1, <2>2 DEF Held, ConvOf, Learns
<1>3. ASSUME NEW e \in 1 .. Len(entry') PROVE Kept(e)'
  <2>1. Kept(e) /\ UNCHANGED entry /\ entry[e] \in Entries
    BY <1>1 DEF TurnsInv
  <2>2. entry[e].row # 0 => Learns(entry[e].row)
    BY <1>1, <2>1 DEF Kept, Made, Entries, Rows
  <2> QED BY <2>1, <2>2 DEF Kept, Learns
<1> QED BY <1>2, <1>3

LEMMA CloseTurns ==
  ASSUME TurnsInv, NEW r \in Made, NEW conv \in {0} \union Calls, Close(r, conv),
         conv = row[r].conv \/ row[r].conv = 0, call' \in [Calls -> {"none", "live", "over"}]
  PROVE  TurnsInv'
<1>1. /\ TypeOK /\ UNCHANGED <<entry, store, req, user, lost, raced, faults>>
      /\ row[r].status # "completed"
  BY DEF TurnsInv, Close, storeVars, countVars
<1>2. PICK S \in SUBSET Siblings(r) :
           /\ turn' = Merged(r, S) /\ turn' \in [Turns -> 0 .. Len(row)]
           /\ row' \in Seq(Sessions) /\ Len(row') = Len(row)
           /\ row'[r].by = row[r].by /\ row'[r].conv = conv /\ row'[r].status = "completed"
           /\ row'[r].counted = Count(r, S) /\ row'[r].late = row[r].late
           /\ \A s \in Made \ {r} :
                /\ row'[s].by = row[s].by /\ row'[s].conv = row[s].conv
                /\ row'[s].status = row[s].status /\ row'[s].counted = row[s].counted
                /\ row'[s].late = row[s].late
  BY <1>1, CloseShape
<1>3. \A s \in S : s \in Made \ {r} /\ row[s].conv = 0 /\ row[s].status # "completed"
  BY DEF Siblings, Siblings_Any
<1>4. Len(row) \in Nat /\ turn \in [Turns -> 0 .. Len(row)] /\ Made' = Made /\ 0 \notin Made
  BY <1>1, <1>2, Shapes DEF TypeOK, Made
<1>5. \A s \in Made : Learns(s)
  BY <1>2 DEF Learns
<1>6. TypeOK'
  BY <1>1, <1>2, Shapes, TypeOfParts DEF TypeOK
<1>7. \A t \in Turns : turn'[t] = IF turn[t] \in S THEN r ELSE turn[t]
  BY <1>2 DEF Merged
<1>8. TurnsStayInTheirCall'
  <2> SUFFICES ASSUME NEW t \in Turns, turn'[t] # 0, CallOf(t) \in Carrying
               PROVE  row'[turn'[t]].conv = CallOf(t)
    BY DEF TurnsStayInTheirCall
  <2>1. CallOf(t) # 0
    BY VoiceTurnsAssumption DEF Calls
  <2>2. CASE turn[t] = 0
    BY <1>3, <1>4, <1>7, <2>2
  <2>3. CASE turn[t] # 0
    <3>1. turn[t] \in Made /\ row[turn[t]].conv = CallOf(t)
      BY <1>4, <2>3 DEF TurnsInv, TurnsStayInTheirCall, Made
    <3>2. turn'[t] = turn[t]
      BY <1>3, <1>7, <2>1, <3>1
    <3> QED BY <1>5, <2>1, <3>1, <3>2 DEF Learns
  <2> QED BY <2>2, <2>3
<1>9. ASSUME NEW s \in Made PROVE Counted(s)'
  <2>1. Counted(s)
    BY DEF TurnsInv
  <2>2. CASE s = r
    <3>1. In(r)' = {t \in Turns : turn[t] \in S \union {r}}
      BY <1>4, <1>7 DEF In
    <3>2. row'[r].counted = Cardinality(In(r)') /\ row'[r].late = 0
      BY <1>1, <1>2, <2>1, <2>2, <3>1 DEF Counted, Count
    <3>3. Cardinality(In(r)') \in Nat
      BY <3>1, TurnsAreFew
    <3> QED BY <1>2, <2>2, <3>2, <3>3 DEF Counted
  <2>3. CASE s \in S
    BY <1>2, <1>3, <2>1, <2>3 DEF Counted
  <2>4. CASE s # r /\ s \notin S
    <3>1. In(s)' = In(s)
      BY <1>7, <2>4 DEF In
    <3> QED BY <1>2, <2>1, <2>4, <3>1 DEF Counted
  <2> QED BY <2>2, <2>3, <2>4
<1>10. ASSUME NEW q \in Requests PROVE Fresh(q)'
  <2>1. Fresh(q) /\ <<q, "agent">> \in Turns /\ <<q, "user">> \in Turns
    BY DEF TurnsInv, Turns
  <2>2. \A t \in Turns : turn[t] = 0 => turn'[t] = 0
    BY <1>3, <1>4, <1>7
  <2> QED BY <1>1, <2>1, <2>2 DEF Fresh
<1> QED BY <1>1, <1>2, <1>4, <1>5, <1>6, <1>8, <1>9, <1>10, LearningHolds DEF TurnsInv

Closing(c, r, conv) == Over(c) /\ Close(r, conv) /\ (conv = row[r].conv \/ row[r].conv = 0)

(* However a call's end is told, a row of its conversation is closed, or one that
   had none. *)
LEMMA EndsClose ==
  ASSUME TypeOK
  PROVE  /\ \A c \in Calls : EndById(c) \/ PostCall(c) \/ Reconcile(c) => \E r \in Made : Closing(c, r, c)
         /\ \A r \in Made : EndByRow(r) => row[r].by \in Calls /\ row[r].conv \in {0} \union Calls
                                           /\ Closing(row[r].by, r, row[r].conv)
<1>1. ASSUME NEW c \in Calls, NEW r \in Made, RowsOf(c) = {r} PROVE row[r].conv = c
  BY <1>1 DEF RowsOf
<1>2. \A r \in Made : row[r] \in Sessions
  BY Shapes
<1>3. \A c \in Calls : EndById(c) => \E r \in Made : Closing(c, r, c)
  BY <1>1 DEF EndById, Closing
<1>4. \A c \in Calls : PostCall(c) => \E r \in Made : Closing(c, r, c)
  BY <1>1 DEF PostCall, Closing
<1>5. \A c \in Calls : Reconcile(c) => \E r \in Made : Closing(c, r, c)
  BY DEF Reconcile, Closing
<1>6. \A r \in Made : EndByRow(r) => row[r].by \in Calls /\ row[r].conv \in {0} \union Calls
                                     /\ Closing(row[r].by, r, row[r].conv)
  BY <1>2 DEF EndByRow, Closing, Sessions
<1> QED BY <1>3, <1>4, <1>5, <1>6

LEMMA ClosingTurns ==
  ASSUME TurnsInv, NEW c \in Calls, NEW r \in Made, NEW conv \in {0} \union Calls, Closing(c, r, conv)
  PROVE  TurnsInv'
<1>1. call' \in [Calls -> {"none", "live", "over"}]
  BY DEF TurnsInv, TypeOK, Closing, Over
<1> QED BY <1>1, CloseTurns DEF Closing

LEMMA AbandonShape ==
  ASSUME TypeOK, NEW r \in Made, Abandon(r)
  PROVE  /\ row' \in Seq(Sessions) /\ Len(row') = Len(row) /\ row'[r].status = "abandoned"
         /\ row[r].status = "initiated"
         /\ \A s \in Made :
              /\ row'[s].by = row[s].by /\ row'[s].conv = row[s].conv
              /\ row'[s].late = row[s].late /\ row'[s].counted = row[s].counted
              /\ s # r => row'[s].status = row[s].status
<1> DEFINE x == [row[r] EXCEPT !.status = "abandoned"]
<1>1. row \in Seq(Sessions) /\ row[r] \in Sessions /\ r \in 1 .. Len(row) /\ Len(row) \in Nat
  BY Shapes DEF TypeOK, Made
<1>2. /\ x \in Sessions /\ x.by = row[r].by /\ x.conv = row[r].conv /\ x.status = "abandoned"
      /\ x.late = row[r].late /\ x.counted = row[r].counted
  BY <1>1 DEF Sessions
<1>3. row' = [row EXCEPT ![r] = x] /\ row[r].status = "initiated"
  BY DEF Abandon
<1> HIDE DEF x
<1>4. /\ row' \in Seq(Sessions) /\ Len(row') = Len(row)
      /\ \A s \in Made : row'[s] = IF s = r THEN x ELSE row[s]
  BY <1>1, <1>2, <1>3, Replaced DEF Made
<1> QED BY <1>2, <1>3, <1>4

LEMMA AbandonTurns ==
  ASSUME TurnsInv, NEW r \in Made, Abandon(r)
  PROVE  TurnsInv'
<1>1. /\ TypeOK /\ UNCHANGED <<call, entry, store, req, user, turn, lost, raced>> /\ Fault
  BY DEF TurnsInv, Abandon, storeVars, countVars
<1>2. /\ row' \in Seq(Sessions) /\ Len(row') = Len(row) /\ row'[r].status = "abandoned"
      /\ row[r].status = "initiated"
      /\ \A s \in Made :
           /\ row'[s].by = row[s].by /\ row'[s].conv = row[s].conv
           /\ row'[s].late = row[s].late /\ row'[s].counted = row[s].counted
           /\ s # r => row'[s].status = row[s].status
  BY <1>1, AbandonShape
<1>3. TypeOK'
  BY <1>1, <1>2, Shapes, FaultTyped, TypeOfParts DEF TypeOK
<1>4. Made' = Made /\ \A s \in Made : Learns(s) /\ In(s)' = In(s)
  BY <1>1, <1>2 DEF Made, Learns, In
<1>5. TurnsStayInTheirCall'
  <2>1. \A t \in Turns : turn[t] # 0 => turn[t] \in Made
    BY <1>1, Shapes DEF TypeOK, Made
  <2> QED BY <1>1, <1>2, <2>1 DEF TurnsInv, TurnsStayInTheirCall
<1>6. \A s \in Made : Counted(s)'
  BY <1>1, <1>2, <1>4 DEF TurnsInv, Counted
<1>7. \A q \in Requests : Fresh(q)'
  BY <1>1 DEF TurnsInv, Fresh
<1> QED BY <1>1, <1>2, <1>3, <1>4, <1>5, <1>6, <1>7, LearningHolds DEF TurnsInv

LEMMA TurnsPreserved == TurnsInv /\ [Next]_vars => TurnsInv'
<1> SUFFICES ASSUME TurnsInv, [Next]_vars PROVE TurnsInv'
  OBVIOUS
<1>1. CASE UNCHANGED vars
  <2>1. UNCHANGED <<call, entry, store, req, user, row, turn, lost, raced, faults>>
    BY <1>1 DEF vars, storeVars, rowVars, countVars
  <2> QED BY <2>1, Shapes, QuietTurns DEF TurnsInv, TypeOK, rowVars
<1>2. ASSUME NEW c \in Calls,
             Begin(c) \/ Initiate(c) \/ EndById(c) \/ PostCall(c) \/ Reconcile(c)
      PROVE  TurnsInv'
  BY <1>2, BeginTurns, InitiateTurns, EndsClose, ClosingTurns DEF TurnsInv
<1>3. ASSUME NEW q \in Requests, Ask(q) \/ RequestSteps(q) \/ SaveUserTurn(q) \/ UserTurnFails(q)
      PROVE  TurnsInv'
  BY <1>3, AskTurns, CreateTurns, EndingTurns, ReplyTurns, SaveTurns, TaskFailsTurns DEF RequestSteps
<1>4. ASSUME NEW r \in Made, EndByRow(r) \/ Abandon(r) PROVE TurnsInv'
  BY <1>4, EndsClose, ClosingTurns, AbandonTurns DEF TurnsInv
<1>5. ASSUME NEW e \in store, Expire(e) PROVE TurnsInv'
  BY <1>5, ExpireTurns
<1> QED BY <1>1, <1>2, <1>3, <1>4, <1>5, StopTurns DEF Next

(* The store, the requests, the tasks and the rows keep their types, and no two
   entries of the store have the same conversation. *)
THEOREM TypeCorrect == Spec => []TypeOK
<1>1. TurnsInv => TypeOK
  BY DEF TurnsInv
<1> QED BY <1>1, TurnsInitial, TurnsPreserved, PTL DEF Spec

(* The turns of a call that names its conversation stay in rows of it, whatever
   is merged, reconciled and closed. *)
THEOREM TurnsStay == Spec => []TurnsStayInTheirCall
<1>1. TurnsInv => TurnsStayInTheirCall
  BY DEF TurnsInv
<1> QED BY <1>1, TurnsInitial, TurnsPreserved, PTL DEF Spec

(* The totals of a closed row are those of the turns it holds, but for those
   that came after its close. *)
THEOREM ClosedRowsAreCounted == Spec => []ClosedRowsCountTheirTurns
<1>1. TurnsInv => ClosedRowsCountTheirTurns
  BY DEF TurnsInv, Counted, ClosedRowsCountTheirTurns
<1> QED BY <1>1, TurnsInitial, TurnsPreserved, PTL DEF Spec

-----------------------------------------------------------------------------
(* The rows of a call: the inductive invariant. *)

(* A request that was asked belongs to a call that has begun; so does a row. *)
Asked(c) == \E q \in Requests : q[1] = c /\ req[q].pc # "none"

Begun ==
  /\ \A q \in Requests : req[q].pc # "none" => call[q[1]] # "none"
  /\ \A r \in Made : Asked(row[r].by)

(* The rows of a call, and the requests about to make one. *)
RowsBy(c) == {r \in Made : row[r].by = c}
Creating(c) == {q \in Requests : q[1] = c /\ req[q].pc = "creating"}
Owed(c) == Cardinality(RowsBy(c)) + Cardinality(Creating(c))

(* Requests of c will find the row: its entry is in the store, or whatever is. *)
Findable(c) ==
  IF c \in Carrying
  THEN \E e \in store : entry[e].key = c /\ entry[e].row # 0
  ELSE store # {} /\ \A e \in store : entry[e].row # 0

(* They will, once the row of some request under way is made. *)
Promised(c) == \E q \in Creating(c) : req[q].entry = 0 \/ req[q].entry \in store

Credit(c) == IF Findable(c) \/ Promised(c) THEN 1 ELSE 0

Alone(c) == \A d \in Calls \ {c} : call[d] = "none"
Single(c) == c \in Carrying \/ Alone(c)

(* A call makes no row of its own accord but the one its requests will find. *)
OneRow(c) ==
  /\ Owed(c) <= 1 + lost[c] + raced[c]
  /\ call[c] = "live" => Owed(c) <= Credit(c) + lost[c] + raced[c]

(* The store of the only call: an entry without a row is the only one, and every
   request of the call has found it. *)
Lonely(c) ==
  /\ \A e \in store : entry[e].row = 0 =>
       store = {e} /\ \A q \in Creating(c) : req[q].entry = e
  /\ ~Asked(c) => \A e \in store : entry[e].key = c

OfCall(c) ==
  /\ Single(c) => OneRow(c)
  /\ Alone(c) /\ c \notin Carrying => Lonely(c)

RowsInv == TurnsInv /\ Begun /\ \A c \in Calls : OfCall(c)

LEMMA FewRequests ==
  ASSUME NEW S \in SUBSET Requests
  PROVE  IsFiniteSet(S) /\ Cardinality(S) \in Nat
BY VoiceTurnsAssumption, FS_Subset, FS_CardinalityType

LEMMA FewRows ==
  ASSUME NEW n \in Nat, NEW S \in SUBSET (1 .. n)
  PROVE  IsFiniteSet(S) /\ Cardinality(S) \in Nat
<1>1. S \in SUBSET Nat /\ \A r \in S : r <= n
  OBVIOUS
<1>2. IsFiniteSet(S)
  BY <1>1, FS_BoundedSetOfNaturals
<1> QED BY <1>2, FS_CardinalityType

LEMMA Numbers ==
  ASSUME TypeOK, TypeOK', NEW c \in Calls
  PROVE  /\ Owed(c) \in Nat /\ Owed(c)' \in Nat /\ Credit(c) \in {0, 1} /\ Credit(c)' \in {0, 1}
         /\ lost[c] \in Nat /\ lost'[c] \in Nat /\ raced[c] \in Nat /\ raced'[c] \in Nat
         /\ IsFiniteSet(RowsBy(c)) /\ IsFiniteSet(Creating(c))
         /\ Cardinality(RowsBy(c)) \in Nat /\ Cardinality(Creating(c)) \in Nat
<1>1. Len(row) \in Nat /\ Len(row') \in Nat
  BY LenProperties DEF TypeOK
<1>2. RowsBy(c) \in SUBSET (1 .. Len(row)) /\ RowsBy(c)' \in SUBSET (1 .. Len(row'))
      /\ Creating(c) \in SUBSET Requests /\ Creating(c)' \in SUBSET Requests
  BY DEF RowsBy, Creating, Made
<1>3. IsFiniteSet(RowsBy(c)) /\ Cardinality(RowsBy(c)) \in Nat /\ Cardinality(RowsBy(c)') \in Nat
  BY <1>1, <1>2, FewRows
<1>4. IsFiniteSet(Creating(c)) /\ Cardinality(Creating(c)) \in Nat /\ Cardinality(Creating(c)') \in Nat
  BY <1>2, FewRequests
<1>5. lost[c] \in Nat /\ lost'[c] \in Nat /\ raced[c] \in Nat /\ raced'[c] \in Nat
  BY DEF TypeOK
<1>6. Owed(c) \in Nat /\ Owed(c)' \in Nat
  BY <1>3, <1>4 DEF Owed
<1>7. Credit(c) \in {0, 1} /\ Credit(c)' \in {0, 1}
  BY DEF Credit
<1> QED BY <1>3, <1>4, <1>5, <1>6, <1>7

(* A call that had not begun did not end. *)
GoesOn == \A d \in Calls : call[d] # "none" => call'[d] # "none"

LEMMA AloneBefore ==
  ASSUME GoesOn, NEW c \in Calls
  PROVE  (Alone(c)' => Alone(c)) /\ (Single(c)' => Single(c))
BY DEF GoesOn, Alone, Single

(* A call whose rows stay findable, as many of them as there were. *)
LEMMA KeepsOneRow ==
  ASSUME TypeOK, TypeOK', NEW c \in Calls, OneRow(c), Owed(c)' = Owed(c),
         Findable(c) => Findable(c)', Promised(c) => Findable(c)' \/ Promised(c)',
         call'[c] = "live" => call[c] = "live", lost'[c] = lost[c], raced'[c] = raced[c]
  PROVE  OneRow(c)'
<1>1. Credit(c) <= Credit(c)'
  BY DEF Credit
<1> QED BY <1>1, Numbers DEF OneRow

(* Nothing happens to the requests that were not asked, or to those that are
   about to make a row. *)
SameRequest(p) ==
  /\ req'[p].pc = "creating" <=> req[p].pc = "creating"
  /\ req'[p].pc = "none" <=> req[p].pc = "none"
  /\ req[p].pc = "creating" => req'[p].entry = req[p].entry

SameOwners == Len(row') = Len(row) /\ \A r \in Made : row'[r].by = row[r].by

SameStore ==
  store' = store /\ \A e \in store : entry'[e].key = entry[e].key /\ entry'[e].row = entry[e].row

(* Of a call without a request or a row nothing is owed. *)
LEMMA NothingOwed ==
  ASSUME TypeOK, Begun, NEW c \in Calls, ~Asked(c)
  PROVE  Owed(c) = 0 /\ RowsBy(c) = {} /\ Creating(c) = {}
<1>1. RowsBy(c) = {} /\ Creating(c) = {}
  BY DEF Begun, Asked, RowsBy, Creating
<1> QED BY <1>1, FS_EmptySet DEF Owed

LEMMA SameCall ==
  ASSUME NEW c \in Calls, TypeOK, TypeOK', OneRow(c), SameOwners, SameStore,
         \A p \in Requests : p[1] = c => SameRequest(p),
         call'[c] = "live" => call[c] = "live", lost'[c] = lost[c], raced'[c] = raced[c]
  PROVE  OneRow(c)'
<1>1. RowsBy(c)' = RowsBy(c)
  BY DEF RowsBy, Made, SameOwners
<1>2. Creating(c)' = Creating(c) /\ \A p \in Creating(c) : req'[p].entry = req[p].entry
  BY DEF Creating, SameRequest
<1>3. Owed(c)' = Owed(c)
  BY <1>1, <1>2 DEF Owed
<1>4. Findable(c) => Findable(c)'
  BY DEF Findable, SameStore
<1>5. Promised(c) => Promised(c)'
  BY <1>2 DEF Promised, SameStore
<1> QED BY <1>3, <1>4, <1>5, KeepsOneRow

LEMMA SameLonely ==
  ASSUME NEW c \in Calls, Lonely(c), SameStore, \A p \in Requests : p[1] = c => SameRequest(p)
  PROVE  Lonely(c)'
<1>1. Creating(c)' = Creating(c) /\ \A p \in Creating(c) : req'[p].entry = req[p].entry
  BY DEF Creating, SameRequest
<1>2. Asked(c)' = Asked(c)
  BY DEF Asked, SameRequest
<1> QED BY <1>1, <1>2 DEF Lonely, SameStore

LEMMA SameBegun ==
  ASSUME Begun, GoesOn, SameOwners, \A p \in Requests : req'[p].pc = "none" <=> req[p].pc = "none"
  PROVE  Begun'
<1>1. \A d : Asked(d)' = Asked(d)
  BY DEF Asked
<1>2. Made' = Made
  BY DEF SameOwners, Made
<1>3. \A r \in Made' : Asked(row[r].by)'
  BY <1>1, <1>2 DEF Begun, SameOwners
<1>4. \A q \in Requests : req'[q].pc # "none" => call'[q[1]] # "none"
  BY RequestParts DEF Begun, GoesOn
<1> QED BY <1>3, <1>4 DEF Begun

(* What the program does once a request has its row: nothing of it is about
   which rows a call has. *)
LEMMA QuietRows ==
  ASSUME RowsInv, TurnsInv', GoesOn, SameOwners, SameStore, \A p \in Requests : SameRequest(p),
         \A c \in Calls : call'[c] = "live" => call[c] = "live",
         lost' = lost, raced' = raced
  PROVE  RowsInv'
<1>1. Begun'
  BY SameBegun DEF RowsInv, SameRequest
<1>2. ASSUME NEW c \in Calls PROVE OfCall(c)'
  <2>1. OfCall(c) /\ TypeOK /\ TypeOK'
    BY DEF RowsInv, TurnsInv
  <2>2. Single(c)' => OneRow(c)'
    BY <2>1, SameCall, AloneBefore DEF OfCall
  <2>3. Alone(c)' /\ c \notin Carrying => Lonely(c)'
    BY <2>1, SameLonely, AloneBefore DEF OfCall
  <2> QED BY <2>2, <2>3 DEF OfCall
<1> QED BY <1>1, <1>2 DEF RowsInv

LEMMA BeginRows ==
  ASSUME RowsInv, TurnsInv', NEW b \in Calls, Begin(b)
  PROVE  RowsInv'
<1>1. /\ TypeOK /\ TypeOK' /\ UNCHANGED <<store, entry, req, row, lost, raced>> /\ call[b] = "none"
      /\ call' = [call EXCEPT ![b] = "live"] /\ call \in [Calls -> {"none", "live", "over"}]
  BY DEF RowsInv, TurnsInv, TypeOK, Begin, storeVars, rowVars, countVars
<1>2. GoesOn /\ \A c \in Calls \ {b} : call'[c] = call[c]
  BY <1>1 DEF GoesOn
<1>3. SameOwners /\ SameStore /\ \A p \in Requests : SameRequest(p)
  BY <1>1 DEF SameOwners, SameStore, SameRequest
<1>4. Begun'
  BY <1>2, <1>3, SameBegun DEF RowsInv, SameRequest
<1>5. ASSUME NEW c \in Calls PROVE OfCall(c)'
  <2>1. OfCall(c)
    BY DEF RowsInv
  <2>2. CASE c # b
    <3>1. Single(c)' => OneRow(c)'
      BY <1>1, <1>2, <1>3, <2>1, <2>2, SameCall, AloneBefore DEF OfCall
    <3>2. Alone(c)' /\ c \notin Carrying => Lonely(c)'
      BY <1>2, <1>3, <2>1, SameLonely, AloneBefore DEF OfCall
    <3> QED BY <3>1, <3>2 DEF OfCall
  <2>3. CASE c = b
    <3>1. ~Asked(c)
      BY <1>1, <2>3 DEF RowsInv, Begun, Asked
    <3>2. Owed(c) = 0
      BY <1>1, <3>1, NothingOwed DEF RowsInv
    <3>3. Owed(c)' = Owed(c)
      BY <1>1 DEF Owed, RowsBy, Creating, Made
    <3>4. OneRow(c)'
      BY <1>1, <3>2, <3>3, Numbers DEF OneRow
    <3>5. Alone(c)' /\ c \notin Carrying => Lonely(c)'
      BY <1>2, <1>3, <2>1, SameLonely, AloneBefore DEF OfCall
    <3> QED BY <3>4, <3>5 DEF OfCall
  <2> QED BY <2>2, <2>3
<1> QED BY <1>4, <1>5 DEF RowsInv

LEMMA InitiateRows ==
  ASSUME RowsInv, TurnsInv', NEW b \in Calls, Initiate(b)
  PROVE  RowsInv'
<1>1. /\ TypeOK /\ TypeOK' /\ UNCHANGED <<call, req, row, lost, raced>> /\ call[b] = "live" /\ ~Asked(b)
      /\ \A e \in store : entry[e].key # b
  BY DEF RowsInv, TurnsInv, Initiate, Asked, rowVars, countVars
<1>2. /\ Len(entry) \in Nat /\ store \subseteq 1 .. Len(entry)
      /\ req \in [Requests -> States(Len(entry), Len(row))]
  BY <1>1, Shapes DEF TypeOK
<1>3. /\ store' = store \union {Len(entry) + 1} /\ \A e \in store : entry'[e] = entry[e]
      /\ entry'[Len(entry) + 1].key = b /\ entry'[Len(entry) + 1].row = 0
  BY <1>1, <1>2, InitiateShape
<1>4. GoesOn /\ SameOwners /\ \A p \in Requests : SameRequest(p)
  BY <1>1 DEF GoesOn, SameOwners, SameRequest
<1>5. Begun'
  BY <1>4, SameBegun DEF RowsInv, SameRequest
<1>6. ASSUME NEW c \in Calls PROVE OfCall(c)'
  <2>1. OfCall(c) /\ (Single(c)' => Single(c)) /\ (Alone(c)' => Alone(c))
    BY <1>4, AloneBefore DEF RowsInv
  <2>2. Owed(c)' = Owed(c)
    BY <1>1 DEF Owed, RowsBy, Creating, Made
  <2>3. CASE c # b
    <3>1. ~Alone(c)
      BY <1>1, <2>3 DEF Alone
    <3>2. ASSUME c \in Carrying PROVE OneRow(c)'
      <4>1. OneRow(c)
        BY <2>1, <3>2 DEF OfCall, Single
      <4>2. Findable(c) => Findable(c)'
        BY <1>3, <3>2 DEF Findable
      <4>3. Promised(c) => Promised(c)'
        BY <1>1, <1>3 DEF Promised, Creating
      <4> QED BY <1>1, <2>2, <4>1, <4>2, <4>3, KeepsOneRow
    <3> QED BY <2>1, <3>1, <3>2 DEF OfCall, Single
  <2>4. CASE c = b
    <3>1. Owed(c) = 0 /\ Creating(c) = {}
      BY <1>1, <2>4, NothingOwed DEF RowsInv
    <3>2. OneRow(c)'
      BY <1>1, <2>2, <3>1, Numbers DEF OneRow
    <3>3. ASSUME Alone(c), c \notin Carrying PROVE Lonely(c)'
      <4>1. \A e \in store : entry[e].key = c
        BY <1>1, <2>1, <2>4, <3>3 DEF OfCall, Lonely
      <4>2. store' = {Len(entry) + 1}
        BY <1>1, <1>3, <2>4, <4>1
      <4>3. Creating(c)' = {}
        BY <1>1, <3>1 DEF Creating
      <4> QED BY <1>3, <2>4, <4>2, <4>3 DEF Lonely
    <3> QED BY <2>1, <3>2, <3>3 DEF OfCall
  <2> QED BY <2>3, <2>4
<1> QED BY <1>5, <1>6 DEF RowsInv

(* A request of the only call, one that names nothing, finds an entry when there
   is any. *)
LEMMA BusiestIsFound ==
  ASSUME TypeOK, store # {}
  PROVE  Busiest # {}
<1> DEFINE f == [e \in 1 .. Len(entry) |-> entry[e].turns]
<1>1. /\ Len(entry) \in Nat /\ store \in SUBSET (1 .. Len(entry))
      /\ \A e \in 1 .. Len(entry) : entry[e] \in Entries
  BY Shapes DEF TypeOK
<1>2. f \in [1 .. Len(entry) -> Nat]
  BY <1>1 DEF Entries
<1>3. \A e \in store : f[e] = entry[e].turns
  BY <1>1
<1> HIDE DEF f
<1>4. PICK e \in store : \A d \in store : f[d] < f[e] \/ (f[d] = f[e] /\ d <= e)
  BY <1>1, <1>2, SomeAreBusiest
<1>5. e \in Busiest
  BY <1>3, <1>4 DEF Busiest
<1> QED BY <1>5

(* A request that finds no row to write to could not have found one. *)
LEMMA NotFindable ==
  ASSUME TypeOK, NEW c \in Calls, Single(c), NEW e,
         e \in Found(c) \/ (e = 0 /\ Found(c) = {}), ~HasRow(e)
  PROVE  ~Findable(c)
<1>1. /\ \A d, f \in store : entry[d].key = entry[f].key /\ entry[d].key # 0 => d = f
      /\ 0 \notin store /\ c # 0
  BY Shapes DEF TypeOK, Calls
<1>2. e \in store => entry[e].row = 0
  BY <1>1 DEF HasRow
<1>3. CASE c \in Carrying
  BY <1>1, <1>2, <1>3 DEF Found, Findable
<1>4. CASE c \notin Carrying
  <2>1. store # {} => e \in store
    BY <1>4, BusiestIsFound, FoundIsStored DEF Found
  <2> QED BY <1>2, <1>4, <2>1 DEF Findable
<1> QED BY <1>3, <1>4

(* A request that races another of its call may make a row too many. *)
LEMMA RacesForARow ==
  ASSUME TypeOK, TypeOK', NEW c \in Calls, OneRow(c), Owed(c)' = Owed(c) + 1,
         Credit(c) <= Credit(c)', UNCHANGED call, lost'[c] = lost[c], raced'[c] = raced[c] + 1
  PROVE  OneRow(c)'
BY Numbers DEF OneRow

(* The first to ask for a row of a live call promises it. *)
LEMMA PromisesARow ==
  ASSUME TypeOK, TypeOK', NEW c \in Calls, OneRow(c), Owed(c)' = Owed(c) + 1, call[c] = "live",
         Credit(c) = 0, Credit(c)' = 1, UNCHANGED call, lost'[c] = lost[c], raced'[c] = raced[c]
  PROVE  OneRow(c)'
BY Numbers DEF OneRow

LEMMA AskRows ==
  ASSUME RowsInv, TurnsInv', NEW q \in Requests, Ask(q)
  PROVE  RowsInv'
<1> DEFINE b == q[1]
<1>1. /\ TypeOK /\ TypeOK' /\ UNCHANGED <<call, entry, store, row, turn, lost, faults>>
      /\ req[q].pc = "none" /\ call[b] = "live" /\ b \in Calls
  BY RequestParts DEF RowsInv, TurnsInv, Ask, storeVars, rowVars
<1>2. /\ Len(entry) \in Nat /\ Len(row) \in Nat /\ store \subseteq 1 .. Len(entry)
      /\ \A e \in 1 .. Len(entry) : entry[e] \in Entries
  BY <1>1, Shapes DEF TypeOK
<1>3. PICK e \in 0 .. Len(entry) :
           /\ e \in Found(b) \/ (e = 0 /\ Found(b) = {})
           /\ \/ HasRow(e) /\ Stream(q, e, entry[e].row) /\ UNCHANGED raced
              \/ /\ ~HasRow(e) /\ UNCHANGED user
                 /\ req' = [req EXCEPT ![q] =
                              [pc |-> "creating", entry |-> e, row |-> 0, conv |-> ConvOf(b, e)]]
                 /\ raced' = IF \E p \in Requests : p[1] = b /\ req[p].pc = "creating"
                             THEN [raced EXCEPT ![b] = @ + 1] ELSE raced
  BY <1>1, AskShape
<1>4. /\ \A p \in Requests \ {q} : req'[p] = req[p]
      /\ req'[q].pc # "none"
      /\ HasRow(e) => req'[q].pc = "streaming" /\ raced' = raced
      /\ ~HasRow(e) => /\ req'[q].pc = "creating" /\ req'[q].entry = e
                       /\ raced' = IF Creating(b) # {} THEN [raced EXCEPT ![b] = @ + 1] ELSE raced
  <2>1. CASE HasRow(e)
    <3>1. e # 0 /\ e \in 1 .. Len(entry) /\ entry[e].row \in 0 .. Len(row)
      <4>1. e \in 1 .. Len(entry) /\ Kept(e) /\ entry[e] \in Entries
        BY <1>2, <2>1 DEF HasRow, RowsInv, TurnsInv
      <4> QED BY <1>2, <4>1 DEF Kept, Entries, Rows
    <3>2. Stream(q, e, entry[e].row) /\ UNCHANGED raced
      BY <1>3, <2>1
    <3>3. /\ req'[q] = [pc |-> "streaming", entry |-> e, row |-> entry[e].row, conv |-> 0]
          /\ \A p \in Requests \ {q} : req'[p] = req[p]
      BY <1>1, <1>2, <3>1, <3>2, StreamShape
    <3> QED BY <2>1, <3>2, <3>3
  <2>2. CASE ~HasRow(e)
    <3>1. /\ req'[q].pc = "creating" /\ req'[q].entry = e
          /\ \A p \in Requests \ {q} : req'[p] = req[p]
      BY <1>1, <1>3, <2>2, CreatingShape
    <3>2. (\E p \in Requests : p[1] = b /\ req[p].pc = "creating") <=> Creating(b) # {}
      BY DEF Creating
    <3> QED BY <1>3, <2>2, <3>1, <3>2
  <2> QED BY <2>1, <2>2
<1>5. GoesOn /\ SameOwners /\ SameStore
  BY <1>1 DEF GoesOn, SameOwners, SameStore
<1>6. Begun'
  <2>1. \A p \in Requests : req'[p].pc # "none" => call'[p[1]] # "none"
    BY <1>1, <1>4 DEF RowsInv, Begun
  <2>2. \A c : Asked(c) => Asked(c)'
    BY <1>4 DEF Asked
  <2>3. \A r \in Made' : Asked(row[r].by)'
    BY <1>1, <2>2 DEF RowsInv, Begun, Made
  <2> QED BY <2>1, <2>3 DEF Begun
<1>7. ASSUME NEW c \in Calls, c # b PROVE OfCall(c)'
  <2>1. OfCall(c) /\ (Single(c)' => Single(c)) /\ (Alone(c)' => Alone(c)) /\ ~Alone(c)
    BY <1>1, <1>5, <1>7, AloneBefore DEF RowsInv, Alone
  <2>2. raced'[c] = raced[c]
    BY <1>1, <1>4, <1>7 DEF TypeOK
  <2>3. \A p \in Requests : p[1] = c => SameRequest(p)
    BY <1>4, <1>7 DEF SameRequest
  <2> QED BY <1>1, <1>5, <2>1, <2>2, <2>3, SameCall DEF OfCall
<1>8. CASE HasRow(e)
  <2>1. RowsBy(b)' = RowsBy(b) /\ Creating(b)' = Creating(b)
        /\ \A p \in Creating(b) : req'[p].entry = req[p].entry
    BY <1>1, <1>4, <1>8 DEF RowsBy, Made, Creating
  <2>2. Owed(b)' = Owed(b)
    BY <2>1 DEF Owed
  <2>3. Findable(b)' = Findable(b) /\ (Promised(b) => Promised(b)')
    BY <1>1, <2>1 DEF Findable, Promised
  <2>4. OneRow(b) => OneRow(b)'
    BY <1>1, <1>4, <1>8, <2>2, <2>3, KeepsOneRow
  <2>5. Lonely(b) => Lonely(b)'
    <3>1. Asked(b)'
      BY <1>4 DEF Asked
    <3> QED BY <1>1, <2>1, <3>1 DEF Lonely
  <2>6. OfCall(b)'
    BY <1>1, <1>5, <2>4, <2>5, AloneBefore DEF RowsInv, OfCall
  <2> QED BY <1>6, <1>7, <2>6 DEF RowsInv
<1>9. CASE ~HasRow(e)
  <2>1. /\ RowsBy(b)' = RowsBy(b) /\ Creating(b)' = Creating(b) \union {q} /\ q \notin Creating(b)
        /\ \A p \in Creating(b) : p # q /\ req'[p].entry = req[p].entry
    BY <1>1, <1>4, <1>9 DEF RowsBy, Made, Creating
  <2>2. Owed(b)' = Owed(b) + 1
    <3>1. Cardinality(Creating(b)') = Cardinality(Creating(b)) + 1
      BY <1>1, <2>1, Numbers, FS_AddElement
    <3> QED BY <1>1, <2>1, <3>1, Numbers DEF Owed
  <2>3. ASSUME Single(b) PROVE OneRow(b)'
    <3>1. OneRow(b) /\ ~Findable(b)
      BY <1>1, <1>3, <1>9, <2>3, NotFindable DEF RowsInv, OfCall
    <3>2. Findable(b)' = Findable(b) /\ (Promised(b) => Promised(b)')
      BY <1>1, <2>1 DEF Findable, Promised
    <3>3. CASE Creating(b) # {}
      <4>1. raced'[b] = raced[b] + 1
        BY <1>1, <1>4, <1>9, <3>3 DEF TypeOK
      <4>2. Credit(b) <= Credit(b)'
        BY <3>2 DEF Credit
      <4> QED BY <1>1, <2>2, <3>1, <4>1, <4>2, RacesForARow
    <3>4. CASE Creating(b) = {}
      <4>1. Credit(b) = 0
        BY <3>1, <3>4 DEF Credit, Promised
      <4>2. q \in Creating(b)' /\ (req'[q].entry = 0 \/ req'[q].entry \in store')
        BY <1>1, <1>3, <1>4, <1>9, <2>1, FoundIsStored
      <4>3. Credit(b)' = 1
        BY <4>2 DEF Credit, Promised
      <4>4. raced'[b] = raced[b]
        BY <1>4, <1>9, <3>4
      <4> QED BY <1>1, <2>2, <3>1, <4>1, <4>3, <4>4, PromisesARow
    <3> QED BY <3>3, <3>4
  <2>4. ASSUME Alone(b), b \notin Carrying PROVE Lonely(b)'
    <3>1. Lonely(b) /\ Asked(b)'
      BY <1>1, <1>4, <2>4 DEF RowsInv, OfCall, Asked
    <3>2. store # {} => e \in store
      BY <1>1, <1>3, <2>4, BusiestIsFound, FoundIsStored DEF Found
    <3>3. ASSUME NEW d \in store', entry'[d].row = 0
          PROVE  store' = {d} /\ \A p \in Creating(b)' : req'[p].entry = d
      <4>1. store = {d} /\ \A p \in Creating(b) : req[p].entry = d
        BY <1>1, <3>1, <3>3 DEF Lonely
      <4>2. e = d
        BY <3>2, <4>1
      <4> QED BY <1>1, <1>4, <1>9, <2>1, <4>1, <4>2
    <3> QED BY <3>1, <3>3 DEF Lonely
  <2>5. OfCall(b)'
    BY <1>1, <1>5, <2>3, <2>4, AloneBefore DEF OfCall
  <2> QED BY <1>6, <1>7, <2>5 DEF RowsInv
<1> QED BY <1>8, <1>9

LEMMA OneFewer ==
  ASSUME TypeOK, TypeOK', NEW c \in Calls, NEW q \in Creating(c), Creating(c)' = Creating(c) \ {q}
  PROVE  Cardinality(Creating(c)') = Cardinality(Creating(c)) - 1
<1> DEFINE S == Creating(c)
<1>1. IsFiniteSet(S) /\ q \in S
  BY Numbers
<1> HIDE DEF S
<1>2. Cardinality(S \ {q}) = Cardinality(S) - 1
  BY <1>1, FS_RemoveElement
<1> QED BY <1>2 DEF S

LEMMA CreateRows ==
  ASSUME RowsInv, TurnsInv', NEW q \in Requests, Create(q)
  PROVE  RowsInv'
<1> DEFINE b == q[1]  R == Len(row) + 1  new == NewRow(q[1], req[q].conv)  e == Attached(q)
<1>1. /\ TypeOK /\ TypeOK' /\ UNCHANGED <<call, turn, lost, raced, faults>> /\ req[q].pc = "creating"
      /\ row' = Append(row, new) /\ Attach(q, R) /\ Len(row) < MaxRows /\ row \in Seq(Sessions)
      /\ b \in Calls
  BY RequestParts DEF RowsInv, TurnsInv, TypeOK, Create, countVars
<1>2. /\ Len(entry) \in Nat /\ Len(row) \in Nat /\ MaxRows \in Nat
      /\ req \in [Requests -> States(Len(entry), Len(row))]
      /\ \A d \in 1 .. Len(entry) : entry[d] \in Entries
      /\ store \subseteq 1 .. Len(entry)
  BY <1>1, Shapes DEF TypeOK
<1>3. new \in Sessions /\ new.by = b
  <2>1. req[q] \in States(Len(entry), Len(row)) /\ q[1] \in Calls
    BY <1>2, RequestParts
  <2> QED BY <2>1 DEF NewRow, Sessions, States
<1>4. R \in Rows /\ R # 0 /\ Len(row) <= R
  BY <1>1, <1>2 DEF Rows
<1> HIDE DEF new
<1>5. /\ Len(row') = R /\ row'[R] = new /\ \A r \in 1 .. Len(row) : row'[r] = row[r]
  BY <1>1, <1>3, Appended
<1>6. /\ entry' \in Seq(Entries) /\ e \in 1 .. Len(entry')
      /\ Len(entry') = IF req[q].entry = 0 THEN Len(entry) + 1 ELSE Len(entry)
      /\ \A d \in 1 .. Len(entry) : d # e => entry'[d] = entry[d]
      /\ entry'[e].row = R
      /\ entry'[e].key = IF req[q].entry = 0 THEN req[q].conv ELSE entry[e].key
      /\ store' = IF req[q].entry = 0
                     THEN {d \in store : entry[d].key # req[q].conv \/ req[q].conv = 0}
                            \union {Len(entry) + 1}
                     ELSE store
      /\ Stream(q, e, R)
  BY <1>1, <1>4, AttachShape
<1>7. e = IF req[q].entry = 0 THEN Len(entry) + 1 ELSE req[q].entry
  BY DEF Attached
<1>8. \A p \in Requests \ {q} : req'[p] = req[p]
  BY <1>2, <1>6 DEF Stream
<1>9. req'[q].pc = "streaming"
  BY <1>1, <1>2, <1>6 DEF Stream
<1>10. Made' = Made \union {R} /\ R \notin Made
  BY <1>2, <1>5 DEF Made
<1> HIDE DEF R, e
<1>11. /\ req[q].conv = ConvOf(b, req[q].entry)
       /\ b \in Carrying /\ req[q].entry # 0 => entry[req[q].entry].key = b
  BY <1>1 DEF RowsInv, TurnsInv, Held
<1>12. \A p \in Requests : req'[p].pc = "none" <=> req[p].pc = "none"
  BY <1>1, <1>8, <1>9
<1>13. Begun' /\ GoesOn
  <2>1. \A c : Asked(c)' = Asked(c)
    BY <1>12 DEF Asked
  <2>2. \A p \in Requests : req'[p].pc # "none" => call'[p[1]] # "none"
    BY <1>1, <1>12 DEF RowsInv, Begun
  <2>3. Asked(b)
    BY <1>1 DEF Asked
  <2>4. ASSUME NEW r \in Made' PROVE Asked(row[r].by)'
    <3>1. CASE r = R
      BY <1>3, <1>5, <2>1, <2>3, <3>1
    <3>2. CASE r # R
      BY <1>5, <1>10, <2>1, <3>2 DEF RowsInv, Begun, Made
    <3> QED BY <3>1, <3>2
  <2> QED BY <1>1, <2>2, <2>4 DEF Begun, GoesOn
<1>14. ASSUME NEW c \in Calls, c # b PROVE OfCall(c)'
  <2>1. OfCall(c) /\ (Single(c)' => Single(c)) /\ (Alone(c)' => Alone(c)) /\ ~Alone(c)
    BY <1>1, <1>13, <1>14, AloneBefore DEF RowsInv, Begun, Alone
  <2>2. ASSUME c \in Carrying PROVE OneRow(c)'
    <3>1. OneRow(c)
      BY <2>1, <2>2 DEF OfCall, Single
    <3>2. RowsBy(c)' = RowsBy(c)
      BY <1>3, <1>5, <1>10, <1>14 DEF RowsBy, Made
    <3>3. Creating(c)' = Creating(c) /\ \A p \in Creating(c) : req'[p] = req[p]
      BY <1>8, <1>14 DEF Creating
    <3>4. Owed(c)' = Owed(c)
      BY <3>2, <3>3 DEF Owed
    <3>5. ASSUME NEW d \in store, entry[d].key = c PROVE d \in store' /\ entry'[d].key = c
      <4>0. c # 0 /\ d \in 1 .. Len(entry)
        BY <1>2 DEF Calls
      <4>1. CASE req[q].entry = 0
        <5>1. req[q].conv \in {0, b}
          BY <1>11, <4>1 DEF ConvOf
        <5>2. d \in store' /\ d # e
          BY <1>2, <1>6, <1>7, <1>14, <3>5, <4>0, <4>1, <5>1
        <5> QED BY <1>6, <3>5, <4>0, <5>2
      <4>2. CASE req[q].entry # 0
        BY <1>6, <3>5, <4>0, <4>2
      <4> QED BY <4>1, <4>2
    <3>6. Findable(c) => Findable(c)'
      <4> SUFFICES ASSUME Findable(c) PROVE Findable(c)'
        OBVIOUS
      <4>1. PICK d \in store : entry[d].key = c /\ entry[d].row # 0
        BY <2>2 DEF Findable
      <4>2. entry'[d].row # 0
        BY <1>2, <1>4, <1>6, <4>1
      <4> QED BY <2>2, <3>5, <4>1, <4>2 DEF Findable
    <3>7. Promised(c) => Promised(c)'
      <4> SUFFICES ASSUME NEW p \in Creating(c), req[p].entry = 0 \/ req[p].entry \in store
                   PROVE  Promised(c)'
        BY DEF Promised
      <4>1. req[p].entry # 0 => entry[req[p].entry].key = c
        BY <2>2 DEF RowsInv, TurnsInv, Held, Creating
      <4>2. req'[p].entry = 0 \/ req'[p].entry \in store'
        BY <3>3, <3>5, <4>1
      <4> QED BY <3>3, <4>2 DEF Promised
    <3> QED BY <1>1, <3>1, <3>4, <3>6, <3>7, KeepsOneRow
  <2> QED BY <2>1, <2>2 DEF OfCall, Single
<1>15. RowsBy(b)' = RowsBy(b) \union {R} /\ R \notin RowsBy(b)
  BY <1>3, <1>5, <1>10 DEF RowsBy, Made
<1>16. /\ Creating(b)' = Creating(b) \ {q} /\ q \in Creating(b)
       /\ \A p \in Creating(b)' : req'[p] = req[p]
  BY <1>1, <1>8, <1>9 DEF Creating
<1>17. Owed(b)' = Owed(b)
  <2>1. Cardinality(RowsBy(b)') = Cardinality(RowsBy(b)) + 1
    BY <1>1, <1>15, Numbers, FS_AddElement
  <2>2. Cardinality(Creating(b)') = Cardinality(Creating(b)) - 1
    BY <1>1, <1>16, OneFewer
  <2> QED BY <1>1, <2>1, <2>2, Numbers DEF Owed
<1>18. ASSUME Alone(b), b \notin Carrying
       PROVE  Lonely(b)' /\ \A d \in store' : entry'[d].row # 0
  <2>1. \A d \in store : entry[d].row = 0 => store = {d} /\ req[q].entry = d
    BY <1>1, <1>16, <1>18 DEF RowsInv, OfCall, Lonely
  <2>2. ASSUME NEW d \in store' PROVE entry'[d].row # 0
    <3>1. CASE d = e
      BY <1>4, <1>6, <3>1
    <3>2. CASE d # e
      <4>1. d \in store /\ entry'[d] = entry[d]
        BY <1>2, <1>6, <1>7, <3>2
      <4>2. d \in 1 .. Len(entry) /\ (entry[d].row = 0 => req[q].entry = d)
        BY <1>2, <2>1, <4>1
      <4> QED BY <1>7, <3>2, <4>1, <4>2
    <3> QED BY <3>1, <3>2
  <2>3. Asked(b)'
    BY <1>9 DEF Asked
  <2> QED BY <2>2, <2>3 DEF Lonely
<1>19. ASSUME Single(b) PROVE OneRow(b)'
  <2>1. OneRow(b)
    BY <1>1, <1>19 DEF RowsInv, OfCall
  <2>2. CASE e \in store'
    <3>1. b \in Carrying => entry'[e].key = b
      BY <1>6, <1>7, <1>11 DEF ConvOf
    <3>2. Findable(b)'
      BY <1>4, <1>6, <1>18, <1>19, <2>2, <3>1 DEF Findable, Single
    <3> QED BY <1>1, <1>17, <2>1, <3>2, KeepsOneRow
  <2>3. CASE e \notin store'
    <3>1. req[q].entry # 0 /\ e = req[q].entry /\ store' = store
      BY <1>6, <1>7, <2>3
    <3>2. \A d \in store : entry'[d] = entry[d]
      BY <1>2, <1>6, <2>3, <3>1
    <3>3. Findable(b) => Findable(b)'
      BY <3>1, <3>2 DEF Findable
    <3>4. Promised(b) => Promised(b)'
      BY <1>16, <2>3, <3>1 DEF Promised
    <3> QED BY <1>1, <1>17, <2>1, <3>3, <3>4, KeepsOneRow
  <2> QED BY <2>2, <2>3
<1>20. OfCall(b)'
  BY <1>1, <1>13, <1>18, <1>19, AloneBefore DEF OfCall
<1> QED BY <1>13, <1>14, <1>20 DEF RowsInv

(* A request that is refused, or the end of one: it promises nothing any more. *)
LEMMA RefuseRows ==
  ASSUME RowsInv, TurnsInv', NEW q \in Requests, Refuse(q)
  PROVE  RowsInv'
<1> DEFINE b == q[1]
<1>1. /\ TypeOK /\ TypeOK' /\ UNCHANGED <<call, store, entry, row, lost, raced>>
      /\ req[q].pc = "creating" /\ req' = [req EXCEPT ![q] = At("refused")] /\ b \in Calls
  BY RequestParts DEF RowsInv, TurnsInv, Refuse, storeVars, rowVars, countVars
<1>2. req'[q].pc = "refused" /\ \A p \in Requests \ {q} : req'[p] = req[p]
  <2>1. At("refused").pc = "refused"
    BY DEF At
  <2> QED BY <1>1, <2>1, EndShape
<1>3. GoesOn /\ SameOwners /\ SameStore /\ \A p \in Requests : req'[p].pc = "none" <=> req[p].pc = "none"
  BY <1>1, <1>2 DEF GoesOn, SameOwners, SameStore
<1>4. Begun'
  BY <1>3, SameBegun DEF RowsInv
<1>5. ASSUME NEW c \in Calls, c # b PROVE OfCall(c)'
  <2>1. \A p \in Requests : p[1] = c => SameRequest(p)
    BY <1>2, <1>5 DEF SameRequest
  <2> QED BY <1>1, <1>3, <2>1, SameCall, SameLonely, AloneBefore DEF RowsInv, OfCall
<1>6. OfCall(b)'
  <2>1. /\ q \in Creating(b) /\ Creating(b)' = Creating(b) \ {q} /\ RowsBy(b)' = RowsBy(b)
        /\ \A p \in Creating(b)' : req'[p] = req[p]
    BY <1>1, <1>2 DEF Creating, RowsBy, Made
  <2>2. Owed(b)' = Owed(b) - 1
    <3>1. Cardinality(Creating(b)') = Cardinality(Creating(b)) - 1
      BY <1>1, <2>1, OneFewer
    <3> QED BY <1>1, <2>1, <3>1, Numbers DEF Owed
  <2>3. Findable(b)' = Findable(b)
    BY <1>1 DEF Findable
  <2>4. Credit(b) <= Credit(b)' + 1
    BY DEF Credit
  <2>5. OneRow(b) => OneRow(b)'
    BY <1>1, <2>2, <2>4, Numbers DEF OneRow
  <2>6. Lonely(b) => Lonely(b)'
    <3>1. Asked(b) /\ Asked(b)'
      BY <1>1, <1>2 DEF Asked
    <3> QED BY <1>1, <2>1, <3>1 DEF Lonely
  <2> QED BY <1>1, <1>3, <2>5, <2>6, AloneBefore DEF RowsInv, OfCall
<1> QED BY <1>4, <1>5, <1>6 DEF RowsInv

(* The cleanup of an entry is counted against the calls that could have found it. *)
LEMMA ExpireRows ==
  ASSUME RowsInv, TurnsInv', NEW e \in store, Expire(e)
  PROVE  RowsInv'
<1>1. /\ TypeOK /\ TypeOK' /\ UNCHANGED <<call, entry, req, row, raced>>
      /\ entry[e].row # 0 /\ store' = store \ {e}
      /\ lost' = [c \in Calls |->
                IF c \in Live /\ (c \in Carrying => entry[e].key = c) THEN lost[c] + 1 ELSE lost[c]]
  BY DEF RowsInv, TurnsInv, Expire, rowVars
<1>2. GoesOn /\ SameOwners /\ \A p \in Requests : SameRequest(p)
  BY <1>1 DEF GoesOn, SameOwners, SameRequest
<1>3. Begun'
  BY <1>2, SameBegun DEF RowsInv, SameRequest
<1>4. ASSUME NEW c \in Calls PROVE OfCall(c)'
  <2>1. Owed(c)' = Owed(c) /\ Creating(c)' = Creating(c)
    BY <1>1 DEF Owed, RowsBy, Creating, Made
  <2>2. OneRow(c) => OneRow(c)'
    <3>1. CASE c \in Live /\ (c \in Carrying => entry[e].key = c)
      <4>1. lost'[c] = lost[c] + 1
        BY <1>1, <3>1
      <4> QED BY <1>1, <2>1, <4>1, Numbers DEF OneRow
    <3>2. CASE c \notin Live
      <4>1. lost'[c] = lost[c] /\ call'[c] # "live"
        BY <1>1, <3>2 DEF Live
      <4> QED BY <1>1, <2>1, <4>1, Numbers DEF OneRow
    <3>3. CASE c \in Carrying /\ entry[e].key # c
      <4>1. lost'[c] = lost[c]
        BY <1>1, <3>3
      <4>2. Findable(c) => Findable(c)'
        BY <1>1, <3>3 DEF Findable
      <4>3. Promised(c) => Promised(c)'
        <5> SUFFICES ASSUME NEW p \in Creating(c), req[p].entry = 0 \/ req[p].entry \in store
                     PROVE  Promised(c)'
          BY DEF Promised
        <5>1. req[p].entry # 0 => entry[req[p].entry].key = c
          BY <3>3 DEF RowsInv, TurnsInv, Held, Creating
        <5> QED BY <1>1, <2>1, <3>3, <5>1 DEF Promised
      <4> QED BY <1>1, <2>1, <4>1, <4>2, <4>3, KeepsOneRow
    <3> QED BY <3>1, <3>2, <3>3
  <2>3. Lonely(c) => Lonely(c)'
    <3>1. Asked(c)' = Asked(c)
      BY <1>1 DEF Asked
    <3> QED BY <1>1, <3>1 DEF Lonely
  <2> QED BY <1>2, <2>2, <2>3, AloneBefore DEF RowsInv, OfCall
<1> QED BY <1>3, <1>4 DEF RowsInv

LEMMA StopRows ==
  ASSUME RowsInv, TurnsInv', Stop
  PROVE  RowsInv'
<1>1. /\ TypeOK /\ TypeOK' /\ UNCHANGED <<call, entry, row, raced>> /\ store' = {}
      /\ req' = [q \in Requests |-> IF req[q].pc \in {"none", "done", "refused"} THEN req[q]
                                    ELSE At("refused")]
      /\ lost' = [c \in Calls |-> IF c \in Live THEN lost[c] + 1 ELSE lost[c]]
  BY DEF RowsInv, TurnsInv, Stop, rowVars
<1>2. /\ \A p \in Requests : req'[p].pc # "creating" /\ (req'[p].pc = "none" <=> req[p].pc = "none")
  <2>1. At("refused").pc = "refused"
    BY DEF At
  <2> QED BY <1>1, <2>1
<1>3. GoesOn /\ SameOwners
  BY <1>1 DEF GoesOn, SameOwners
<1>4. Begun'
  BY <1>2, <1>3, SameBegun DEF RowsInv
<1>5. ASSUME NEW c \in Calls PROVE OfCall(c)'
  <2>1. RowsBy(c)' = RowsBy(c) /\ Creating(c)' = {} /\ Cardinality({}) = 0
    BY <1>1, <1>2, FS_EmptySet DEF RowsBy, Creating, Made
  <2>2. Owed(c)' <= Owed(c)
    BY <1>1, <2>1, Numbers DEF Owed
  <2>3. OneRow(c) => OneRow(c)'
    <3>1. lost'[c] = IF call'[c] = "live" THEN lost[c] + 1 ELSE lost[c]
      BY <1>1 DEF Live
    <3> QED BY <1>1, <2>2, <3>1, Numbers DEF OneRow
  <2>4. Lonely(c)'
    BY <1>1 DEF Lonely
  <2> QED BY <1>3, <2>3, <2>4, AloneBefore DEF RowsInv, OfCall
<1> QED BY <1>4, <1>5 DEF RowsInv

(* A reply, a turn that is written or is not, the end of a call, a sweep. *)
LEMMA LaterRows ==
  ASSUME RowsInv, TurnsInv',
         \/ \E q \in Requests : \/ Reply(q) \/ ReplyTimesOut(q) \/ ReplyLost(q)
                                \/ SaveUserTurn(q) \/ UserTurnFails(q)
         \/ \E r \in Made : Abandon(r)
         \/ \E c \in Calls, r \in Made, conv \in {0} \union Calls : Closing(c, r, conv)
  PROVE  RowsInv'
<1>1. TypeOK /\ TypeOK' /\ call \in [Calls -> {"none", "live", "over"}]
  BY DEF RowsInv, TurnsInv, TypeOK
<1>2. /\ \A q \in Requests : Held(q)
      /\ Len(row) \in Nat /\ Len(entry) \in Nat /\ req \in [Requests -> States(Len(entry), Len(row))]
      /\ user \in [Requests -> 0 .. Len(row)] /\ store \subseteq 1 .. Len(entry)
  BY <1>1, Shapes DEF RowsInv, TurnsInv, TypeOK
<1>3. At("done").pc = "done"
  BY DEF At
<1>4. ASSUME NEW q \in Requests, Reply(q) \/ ReplyTimesOut(q) PROVE RowsInv'
  <2>1. /\ UNCHANGED <<call, store, lost, raced>> /\ req[q].pc = "streaming"
        /\ req' = [req EXCEPT ![q] = At("done")] /\ AddTurn(req[q].row, q, "agent")
        /\ UNCHANGED entry \/ CountTurn(q)
    BY <1>4 DEF Reply, ReplyTimesOut, countVars, storeVars
  <2>2. req[q].row \in Made
    BY <1>2, <2>1 DEF Held, Made, States
  <2>3. SameOwners
    <3>1. <<q, "agent">> \in Turns
      BY DEF Turns
    <3> QED BY <1>1, <2>1, <2>2, <3>1, AddTurnShape DEF SameOwners
  <2>4. SameStore
    BY <1>1, <1>2, <2>1, ReplyShape DEF SameStore, KeptEntries
  <2>5. \A p \in Requests : SameRequest(p)
    BY <1>1, <1>2, <1>3, <2>1 DEF SameRequest
  <2> QED BY <2>1, <2>3, <2>4, <2>5, QuietRows DEF GoesOn
<1>5. ASSUME NEW q \in Requests, ReplyLost(q) PROVE RowsInv'
  <2>1. /\ UNCHANGED <<call, store, row, lost, raced>> /\ req[q].pc = "streaming"
        /\ req' = [req EXCEPT ![q] = At("done")] /\ (UNCHANGED entry \/ CountTurn(q))
    BY <1>5 DEF ReplyLost, countVars, rowVars
  <2>4. SameStore
    BY <1>1, <1>2, <2>1, ReplyShape DEF SameStore, KeptEntries
  <2>2. SameOwners /\ SameStore /\ GoesOn
    BY <2>1, <2>4 DEF SameOwners, GoesOn
  <2>3. \A p \in Requests : SameRequest(p)
    BY <1>1, <1>2, <1>3, <2>1 DEF SameRequest
  <2> QED BY <2>1, <2>2, <2>3, QuietRows
<1>6. ASSUME NEW q \in Requests, SaveUserTurn(q) PROVE RowsInv'
  <2>1. /\ UNCHANGED <<call, store, entry, req, lost, raced>>
        /\ user[q] # 0 /\ AddTurn(user[q], q, "user")
    BY <1>6 DEF SaveUserTurn, countVars, storeVars
  <2>2. user[q] \in Made
    BY <1>2, <2>1 DEF Made
  <2>3. SameOwners
    <3>1. <<q, "user">> \in Turns
      BY DEF Turns
    <3> QED BY <1>1, <2>1, <2>2, <3>1, AddTurnShape DEF SameOwners
  <2>4. SameStore /\ GoesOn /\ \A p \in Requests : SameRequest(p)
    BY <2>1 DEF SameStore, GoesOn, SameRequest
  <2> QED BY <2>1, <2>3, <2>4, QuietRows
<1>7. ASSUME NEW q \in Requests, UserTurnFails(q) PROVE RowsInv'
  <2>1. UNCHANGED <<call, store, entry, req, row, lost, raced>>
    BY <1>7 DEF UserTurnFails, countVars, storeVars, rowVars
  <2>2. SameOwners /\ SameStore /\ GoesOn /\ \A p \in Requests : SameRequest(p)
    BY <2>1 DEF SameOwners, SameStore, GoesOn, SameRequest
  <2> QED BY <2>1, <2>2, QuietRows
<1>8. ASSUME NEW r \in Made, Abandon(r) PROVE RowsInv'
  <2>1. UNCHANGED <<call, store, entry, req, lost, raced>>
    BY <1>8 DEF Abandon, countVars, storeVars
  <2>2. SameOwners
    BY <1>1, <1>8, AbandonShape DEF SameOwners
  <2>3. SameStore /\ GoesOn /\ \A p \in Requests : SameRequest(p)
    BY <2>1 DEF SameStore, GoesOn, SameRequest
  <2> QED BY <2>1, <2>2, <2>3, QuietRows
<1>9. ASSUME NEW c \in Calls, NEW r \in Made, NEW conv \in {0} \union Calls, Closing(c, r, conv)
      PROVE  RowsInv'
  <2>1. /\ UNCHANGED <<store, entry, req, lost, raced>> /\ Close(r, conv)
        /\ call' = [call EXCEPT ![c] = "over"]
    BY <1>9 DEF Closing, Close, Over, countVars, storeVars
  <2>2. SameOwners
    BY <1>1, <2>1, CloseShape DEF SameOwners, Made
  <2>3. SameStore /\ GoesOn /\ \A p \in Requests : SameRequest(p)
    BY <1>1, <2>1 DEF SameStore, GoesOn, SameRequest
  <2>4. \A d \in Calls : call'[d] = "live" => call[d] = "live"
    BY <1>1, <2>1
  <2> QED BY <2>1, <2>2, <2>3, <2>4, QuietRows
<1> QED BY <1>4, <1>5, <1>6, <1>7, <1>8, <1>9

LEMMA RowsInitial == Init => RowsInv
<1> SUFFICES ASSUME Init PROVE RowsInv
  OBVIOUS
<1>1. TurnsInv /\ TypeOK /\ store = {} /\ Made = {}
  BY TurnsInitial DEF TurnsInv, Init, Made
<1>2. \A q \in Requests : req[q].pc = "none"
  BY DEF Init, At
<1>3. Begun
  BY <1>1, <1>2 DEF Begun
<1>4. ASSUME NEW c \in Calls PROVE OfCall(c)
  <2>1. Owed(c) = 0
    BY <1>1, <1>2, <1>3, NothingOwed DEF Asked
  <2>2. lost[c] = 0 /\ raced[c] = 0 /\ call[c] = "none"
    BY DEF Init
  <2>3. OneRow(c)
    BY <2>1, <2>2 DEF OneRow
  <2>4. Lonely(c)
    BY <1>1 DEF Lonely
  <2> QED BY <2>3, <2>4 DEF OfCall
<1> QED BY <1>1, <1>3, <1>4 DEF RowsInv

LEMMA RowsPreserved == RowsInv /\ [Next]_vars => RowsInv'
<1> SUFFICES ASSUME RowsInv, [Next]_vars PROVE RowsInv'
  OBVIOUS
<1>1. TurnsInv' /\ TypeOK
  BY TurnsPreserved DEF RowsInv, TurnsInv
<1>2. CASE UNCHANGED vars
  <2>1. UNCHANGED <<call, store, entry, req, row, lost, raced>>
    BY <1>2 DEF vars, storeVars, rowVars, countVars
  <2>2. SameOwners /\ SameStore /\ GoesOn /\ \A p \in Requests : SameRequest(p)
    BY <2>1 DEF SameOwners, SameStore, GoesOn, SameRequest
  <2> QED BY <1>1, <2>1, <2>2, QuietRows
<1>3. ASSUME NEW c \in Calls,
             Begin(c) \/ Initiate(c) \/ EndById(c) \/ PostCall(c) \/ Reconcile(c)
      PROVE  RowsInv'
  <2>1. CASE Begin(c) \/ Initiate(c)
    BY <1>1, <2>1, BeginRows, InitiateRows
  <2>2. CASE EndById(c) \/ PostCall(c) \/ Reconcile(c)
    <3>1. \E r \in Made : Closing(c, r, c)
      BY <1>1, <2>2, EndsClose
    <3>2. c \in {0} \union Calls
      OBVIOUS
    <3> QED BY <1>1, <3>1, <3>2, LaterRows
  <2> QED BY <1>3, <2>1, <2>2
<1>4. ASSUME NEW q \in Requests, Ask(q) \/ RequestSteps(q) \/ SaveUserTurn(q) \/ UserTurnFails(q)
      PROVE  RowsInv'
  <2>1. CASE Ask(q) \/ Create(q) \/ Refuse(q)
    BY <1>1, <2>1, AskRows, CreateRows, RefuseRows
  <2>2. CASE Reply(q) \/ ReplyTimesOut(q) \/ ReplyLost(q) \/ SaveUserTurn(q) \/ UserTurnFails(q)
    BY <1>1, <2>2, LaterRows
  <2> QED BY <1>4, <2>1, <2>2 DEF RequestSteps
<1>5. ASSUME NEW r \in Made, EndByRow(r) \/ Abandon(r) PROVE RowsInv'
  <2>1. CASE EndByRow(r)
    BY <1>1, <2>1, EndsClose, LaterRows
  <2>2. CASE Abandon(r)
    BY <1>1, <2>2, LaterRows
  <2> QED BY <1>5, <2>1, <2>2
<1>6. ASSUME NEW e \in store, Expire(e) PROVE RowsInv'
  BY <1>1, <1>6, ExpireRows
<1> QED BY <1>1, <1>2, <1>3, <1>4, <1>5, <1>6, StopRows DEF Next

(* A call makes one row, and one more for each loss of its entry and each race of
   its requests for a row, as long as its requests name it or the lead has no
   other call. *)
THEOREM CallsMakeOneRow == Spec => []OneRowPerCall
<1>1. RowsInv => OneRowPerCall
  <2> SUFFICES ASSUME RowsInv, NEW c \in Calls, c \in Carrying \/ (\A d \in Calls \ {c} : call[d] = "none")
               PROVE  Cardinality({r \in Made : row[r].by = c}) <= 1 + lost[c] + raced[c]
    BY DEF OneRowPerCall
  <2>1. Owed(c) <= 1 + lost[c] + raced[c] /\ TypeOK
    BY DEF RowsInv, TurnsInv, OfCall, Single, Alone, OneRow
  <2>2. /\ Cardinality(RowsBy(c)) \in Nat /\ Cardinality(Creating(c)) \in Nat
        /\ lost[c] \in Nat /\ raced[c] \in Nat
    <3>1. Len(row) \in Nat /\ RowsBy(c) \in SUBSET (1 .. Len(row)) /\ Creating(c) \in SUBSET Requests
      BY <2>1, Shapes DEF RowsBy, Creating, Made
    <3> QED BY <2>1, <3>1, FewRows, FewRequests DEF TypeOK
  <2>3. RowsBy(c) = {r \in Made : row[r].by = c}
    BY DEF RowsBy
  <2> HIDE DEF RowsInv
  <2>4. Cardinality(RowsBy(c)) <= 1 + lost[c] + raced[c]
    BY <2>1, <2>2 DEF Owed
  <2> QED BY <2>3, <2>4
<1> QED BY <1>1, RowsInitial, RowsPreserved, PTL DEF Spec
=============================================================================
