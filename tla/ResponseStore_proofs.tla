------------------------- MODULE ResponseStore_proofs -------------------------
(***************************************************************************)
(* Theorems about ResponseStore.                                           *)
(***************************************************************************)
EXTENDS ResponseStore, FiniteSetTheorems, TLAPS

\* The database stores finitely many rows.
RowsFinite == \A r \in Requests : IsFiniteSet(rows[r])

\* Responses are stored after they are given.
RowsGiven == \A r \in Requests : \A x \in rows[r] : x.resp <= given[r]

\* A dump has brought only responses that were given.
GotGiven == \A c \in Clients : \A g \in got[c] : g <= given[subject[c]]

\* Where the greatest number was not deleted, everything below the client's
\* next page has been brought, and no new number can fall below it.
DumpSoFar == \A c \in Clients : phase[c] = "paging" /\ ~reset[c] =>
    /\ \A x \in rows[subject[c]] : x.num < start[c] => x.resp \in got[c]
    /\ start[c] > 1 => \E x \in rows[subject[c]] : x.num >= start[c] - 1

StoreInv ==
    /\ TypeOK
    /\ RowsFinite
    /\ RowsGiven
    /\ NumbersInOrder
    /\ GotGiven
    /\ DumpInOrder
    /\ DumpSoFar

\* Empty tables satisfy the invariant.
LEMMA StoreInit == Init => StoreInv
<1> SUFFICES ASSUME Init PROVE StoreInv
  OBVIOUS
<1>1. RowsFinite
  BY FS_EmptySet DEF Init, RowsFinite
<1> QED
  BY <1>1 DEF Init, StoreInv, TypeOK, RowsGiven, NumbersInOrder, GotGiven, DumpInOrder,
              DumpSoFar, From

\* db_respond_insert stores a response under the greatest number of its request.
LEMMA InsertAdds ==
    ASSUME StoreInv, NEW r \in Requests, Insert(r)
    PROVE  \E x \in Row :
              /\ rows' = [rows EXCEPT ![r] = @ \union {x}]
              /\ x.resp = given[r] + 1
              /\ \A y \in rows[r] : y.num < x.num
              /\ given' = [given EXCEPT ![r] = @ + 1]
              /\ UNCHANGED <<up, now, faults, dumpvars>>
<1>1. PICK num \in {1} \union {x.num + 1 : x \in rows[r]} :
        (\A x \in rows[r] : x.num < num) /\ InsertRow(r, num)
  BY DEF Insert
<1> DEFINE row == [num |-> num, resp |-> given[r] + 1, born |-> now]
<1>2. num \in Nat \ {0} /\ row \in Row
  BY <1>1 DEF StoreInv, TypeOK, Row
<1>3. ~ \E x \in rows[r] : x.num = num
  BY <1>1, <1>2 DEF StoreInv, TypeOK, Row
<1>4. rows' = [rows EXCEPT ![r] = @ \union {row}]
  BY <1>1, <1>3 DEF InsertRow
<1> QED
  BY <1>1, <1>2, <1>4 DEF InsertRow

\* An insert keeps the invariant.
LEMMA InsertStep ==
    ASSUME StoreInv, NEW r \in Requests, Insert(r) PROVE StoreInv'
<1>1. PICK x \in Row :
        /\ rows' = [rows EXCEPT ![r] = @ \union {x}]
        /\ x.resp = given[r] + 1
        /\ \A y \in rows[r] : y.num < x.num
        /\ given' = [given EXCEPT ![r] = @ + 1]
        /\ UNCHANGED <<up, now, faults, dumpvars>>
  BY InsertAdds
<1> USE <1>1 DEF dumpvars, StoreInv
<1>2. TypeOK'
  BY DEF TypeOK, Row
<1>3. RowsFinite'
  BY FS_AddElement DEF RowsFinite, TypeOK
<1>4. RowsGiven'
  BY DEF RowsGiven, TypeOK, Row
<1>5. NumbersInOrder'
  <2> SUFFICES ASSUME NEW q \in Requests, NEW y \in rows'[q], NEW z \in rows'[q]
               PROVE  (y.num < z.num <=> y.resp < z.resp) /\ (y.num = z.num => y = z)
    BY DEF NumbersInOrder
  <2>1. CASE y \in rows[q] /\ z \in rows[q]
    BY <2>1 DEF NumbersInOrder
  <2>2. CASE q = r /\ y = x /\ z = x
    BY <2>2 DEF Row
  <2>3. CASE q = r /\ y = x /\ z \in rows[q]
    BY <2>3 DEF RowsGiven, TypeOK, Row
  <2>4. CASE q = r /\ z = x /\ y \in rows[q]
    BY <2>4 DEF RowsGiven, TypeOK, Row
  <2> QED
    BY <2>1, <2>2, <2>3, <2>4 DEF TypeOK
<1>6. GotGiven'
  BY DEF GotGiven, TypeOK
<1>7. DumpInOrder'
  BY DEF DumpInOrder, GotGiven, From, TypeOK, Row
<1>8. DumpSoFar'
  <2> SUFFICES ASSUME NEW c \in Clients, phase[c] = "paging", ~reset[c]
               PROVE  /\ \A y \in rows'[subject[c]] : y.num < start[c] => y.resp \in got[c]
                      /\ start[c] > 1 => \E y \in rows'[subject[c]] : y.num >= start[c] - 1
    BY DEF DumpSoFar
  <2>1. rows[subject[c]] \subseteq rows'[subject[c]]
    BY DEF TypeOK
  <2>2. ASSUME subject[c] = r PROVE x.num >= start[c]
    <3>1. start[c] \in Nat \ {0} /\ x.num \in Nat \ {0} /\ \A y \in rows[r] : y.num \in Nat
      BY DEF TypeOK, Row
    <3>2. CASE start[c] > 1
      <4>1. PICK y \in rows[r] : y.num >= start[c] - 1
        BY <2>2, <3>2 DEF DumpSoFar
      <4>2. y.num < x.num
        BY <1>1
      <4> QED
        BY <3>1, <4>1, <4>2
    <3> QED
      BY <3>1, <3>2
  <2> QED
    BY <2>1, <2>2 DEF DumpSoFar, TypeOK, Row
<1> QED
  BY <1>2, <1>3, <1>4, <1>5, <1>6, <1>7, <1>8

\* A purge deletes rows and tells the dumps whose greatest number went.
LEMMA PurgeStep == ASSUME StoreInv, Purge PROVE StoreInv'
<1> USE DEF Purge, StoreInv
<1>1. \A r \in Requests : rows'[r] \subseteq rows[r]
  OBVIOUS
<1>2. TypeOK'
  BY DEF TypeOK
<1>3. RowsFinite'
  BY <1>1, FS_Subset DEF RowsFinite
<1>4. RowsGiven' /\ NumbersInOrder' /\ GotGiven'
  BY <1>1 DEF RowsGiven, NumbersInOrder, GotGiven
<1>5. DumpInOrder'
  BY <1>1 DEF DumpInOrder, From, TypeOK
<1>6. DumpSoFar'
  <2> SUFFICES ASSUME NEW c \in Clients, phase[c] = "paging", ~reset'[c]
               PROVE  /\ \A y \in rows'[subject[c]] : y.num < start[c] => y.resp \in got[c]
                      /\ start[c] > 1 => \E y \in rows'[subject[c]] : y.num >= start[c] - 1
    BY DEF DumpSoFar
  <2>1. ~reset[c] /\ \A x \in rows[subject[c]] : \E y \in rows'[subject[c]] : ~(y.num < x.num)
    BY DEF TypeOK
  <2>2. subject[c] \in Requests /\ rows'[subject[c]] \subseteq rows[subject[c]]
    BY <1>1 DEF TypeOK
  <2>3. ASSUME start[c] > 1 PROVE \E y \in rows'[subject[c]] : y.num >= start[c] - 1
    <3>1. PICK x \in rows[subject[c]] : x.num >= start[c] - 1
      BY <2>1, <2>3 DEF DumpSoFar
    <3>2. PICK y \in rows'[subject[c]] : ~(y.num < x.num)
      BY <2>1
    <3> QED
      BY <2>2, <3>1, <3>2 DEF TypeOK, Row
  <2> QED
    BY <2>1, <2>2, <2>3 DEF DumpSoFar
<1> QED
  BY <1>2, <1>3, <1>4, <1>5, <1>6

\* What a page says about the rest: nothing below its end is left out, nothing
\* at all if it is the last.
LEMMA DumpAll ==
    ASSUME StoreInv, NEW c \in Clients, NEW size \in Sizes, Dump(c, size)
    PROVE  \E page \in SUBSET From(subject[c], start[c]) :
              /\ got' = [got EXCEPT ![c] = @ \union {x.resp : x \in page}]
              /\ \A x \in page, y \in From(subject[c], start[c]) \ page : x.num < y.num
              /\ phase'[c] = "done" => page = From(subject[c], start[c])
              /\ \/ page = {} /\ start' = start /\ phase'[c] = "done"
                 \/ \E last \in page : /\ \A x \in page : x.num <= last.num
                                       /\ start' = [start EXCEPT ![c] = last.num + 1]
<1> DEFINE all == From(subject[c], start[c])
<1>1. PICK page \in SUBSET all :
        /\ phase[c] = "paging"
        /\ IsPage(page, all, size)
        /\ got' = [got EXCEPT ![c] = @ \union {x.resp : x \in page}]
        /\ IF page = {} THEN start' = start
           ELSE \E last \in page :
                    /\ \A x \in page : x.num <= last.num
                    /\ start' = [start EXCEPT ![c] = last.num + 1]
        /\ phase' = [phase EXCEPT ![c] = IF Cardinality(all) > size THEN @ ELSE "done"]
  BY DEF Dump, DumpTo
<1>2. IsFiniteSet(all)
  <2>1. all \subseteq rows[subject[c]] /\ subject[c] \in Requests
    BY DEF From, StoreInv, TypeOK
  <2> QED
    BY <2>1, FS_Subset DEF StoreInv, RowsFinite
<1>3. Cardinality(all) \in Nat /\ size \in Nat \ {0}
  BY <1>2, FS_CardinalityType, SizeAssumption
<1>4. ASSUME Cardinality(page) = Cardinality(all) PROVE page = all
  BY <1>2, <1>4, FS_Subset
<1>5. phase'[c] = "done" <=> ~(Cardinality(all) > size)
  BY <1>1 DEF StoreInv, TypeOK
<1>6. phase'[c] = "done" => page = all
  BY <1>1, <1>4, <1>5 DEF IsPage
<1>7. page = {} => phase'[c] = "done"
  <2>1. ASSUME page = {} PROVE Cardinality(page) = 0
    BY <2>1, FS_EmptySet
  <2> QED
    BY <1>1, <1>3, <1>5, <2>1 DEF IsPage
<1> QED
  BY <1>1, <1>6, <1>7 DEF IsPage

\* A page keeps the invariant.
LEMMA DumpStep ==
    ASSUME StoreInv, NEW c \in Clients, NEW size \in Sizes, Dump(c, size) PROVE StoreInv'
<1> DEFINE all == From(subject[c], start[c])
<1>1. PICK page \in SUBSET all :
        /\ got' = [got EXCEPT ![c] = @ \union {x.resp : x \in page}]
        /\ \A x \in page, y \in all \ page : x.num < y.num
        /\ phase'[c] = "done" => page = all
        /\ \/ page = {} /\ start' = start /\ phase'[c] = "done"
           \/ \E last \in page : /\ \A x \in page : x.num <= last.num
                                 /\ start' = [start EXCEPT ![c] = last.num + 1]
  BY DumpAll
<1>2. /\ UNCHANGED <<up, now, rows, given, faults, subject, reset>>
      /\ phase' \in [Clients -> {"idle", "paging", "done"}]
      /\ \A d \in Clients : d # c => phase'[d] = phase[d]
      /\ phase[c] = "paging"
  BY DEF Dump, DumpTo, StoreInv, TypeOK
<1>3. subject[c] \in Requests /\ page \subseteq rows[subject[c]] /\ page \subseteq Row
      /\ start[c] \in Nat
  BY DEF From, StoreInv, TypeOK
<1>4. TypeOK'
  <2>1. start' \in [Clients -> Nat \ {0}]
    BY <1>1, <1>3 DEF StoreInv, TypeOK, Row
  <2>2. got' \in [Clients -> SUBSET Nat]
    BY <1>1, <1>3 DEF StoreInv, TypeOK, Row
  <2> QED
    BY <1>2, <2>1, <2>2 DEF StoreInv, TypeOK
<1>5. RowsFinite' /\ RowsGiven' /\ NumbersInOrder'
  BY <1>2 DEF StoreInv, RowsFinite, RowsGiven, NumbersInOrder
<1>6. GotGiven'
  BY <1>1, <1>2, <1>3 DEF StoreInv, GotGiven, RowsGiven, TypeOK
<1>7. DumpInOrder'
  <2> SUFFICES ASSUME NEW d \in Clients, NEW x \in rows[subject[d]], x.num >= start'[d],
                      NEW g \in got'[d]
               PROVE  g < x.resp
    BY <1>2 DEF DumpInOrder, From
  <2>1. CASE d # c
    BY <1>1, <2>1 DEF StoreInv, TypeOK, DumpInOrder, From
  <2>2. CASE d = c /\ g \in got[c] /\ x.num >= start[c]
    BY <2>2 DEF StoreInv, DumpInOrder, From
  <2>3. ASSUME d = c PROVE x.num >= start[c]
    BY <1>1, <1>3, <2>3 DEF StoreInv, TypeOK, From, Row
  <2>4. CASE d = c /\ g \notin got[c]
    <3>1. PICK y \in page : g = y.resp
      BY <1>1, <2>4 DEF StoreInv, TypeOK
    <3>2. PICK last \in page : (\A z \in page : z.num <= last.num)
                               /\ start' = [start EXCEPT ![c] = last.num + 1]
      BY <1>1, <3>1
    <3>3. y.num < x.num
      BY <1>3, <2>4, <3>2 DEF StoreInv, TypeOK, Row
    <3> QED
      BY <1>3, <2>4, <3>1, <3>3 DEF StoreInv, NumbersInOrder
  <2> QED
    BY <2>1, <2>2, <2>3, <2>4
<1>8. DumpSoFar'
  <2> SUFFICES ASSUME NEW d \in Clients, phase'[d] = "paging", ~reset[d]
               PROVE  /\ \A y \in rows[subject[d]] : y.num < start'[d] => y.resp \in got'[d]
                      /\ start'[d] > 1 => \E y \in rows[subject[d]] : y.num >= start'[d] - 1
    BY <1>2 DEF DumpSoFar
  <2>1. CASE d # c
    BY <1>1, <1>2, <2>1 DEF StoreInv, TypeOK, DumpSoFar
  <2>2. CASE d = c
    <3>1. PICK last \in page : (\A z \in page : z.num <= last.num)
                               /\ start' = [start EXCEPT ![c] = last.num + 1]
      BY <1>1, <2>2
    <3>2. start'[c] = last.num + 1 /\ last.num \in Nat /\ last \in rows[subject[c]]
      BY <1>3, <3>1 DEF StoreInv, TypeOK, Row
    <3>3. ASSUME NEW y \in rows[subject[c]], y.num < start'[c] PROVE y.resp \in got'[c]
      <4>1. CASE y.num < start[c]
        BY <1>1, <1>2, <2>2, <4>1 DEF StoreInv, TypeOK, DumpSoFar
      <4>2. CASE ~(y.num < start[c])
        <5>1. y \in all /\ y.num \in Nat
          BY <1>3, <4>2 DEF From, StoreInv, TypeOK, Row
        <5>2. y \in page
          BY <1>1, <3>1, <3>2, <3>3, <5>1
        <5> QED
          BY <1>1, <5>2 DEF StoreInv, TypeOK
      <4> QED
        BY <4>1, <4>2
    <3> QED
      BY <2>2, <3>2, <3>3
  <2> QED
    BY <2>1, <2>2
<1> QED
  BY <1>4, <1>5, <1>6, <1>7, <1>8 DEF StoreInv

\* Every step keeps the invariant.
LEMMA StoreStep == StoreInv /\ [Next]_vars => StoreInv'
<1> SUFFICES ASSUME StoreInv, [Next]_vars PROVE StoreInv'
  OBVIOUS
<1> DEFINE Same == UNCHANGED <<rows, given, subject, start, phase, got, reset>>
<1>1. ASSUME Same, up' \in BOOLEAN, now' \in Nat, faults' \in Nat PROVE StoreInv'
  BY <1>1 DEF StoreInv, TypeOK, RowsFinite, RowsGiven, NumbersInOrder, GotGiven, DumpInOrder,
              DumpSoFar, From
<1>2. ASSUME \/ Tick \/ PurgeFails \/ Restart \/ UNCHANGED vars
             \/ \E c \in Clients : DumpFails(c) \/ DumpCrashes(c)
      PROVE  StoreInv'
  <2>1. Same
    BY <1>2 DEF Tick, PurgeFails, Restart, DumpFails, DumpCrashes, vars, dumpvars
  <2>2. now' \in Nat /\ faults' \in Nat
    BY <1>2 DEF StoreInv, TypeOK, Tick, PurgeFails, Restart, DumpFails, DumpCrashes, Fault, vars
  <2>3. up' = up \/ up' = TRUE \/ up' = FALSE
    BY <1>2 DEF Tick, PurgeFails, Restart, DumpFails, DumpCrashes, vars
  <2>4. up' \in BOOLEAN
    BY <2>3 DEF StoreInv, TypeOK
  <2> QED
    BY <1>1, <2>1, <2>2, <2>4
<1>3. ASSUME NEW r \in Requests, Insert(r) PROVE StoreInv'
  BY <1>3, InsertStep
<1>4. ASSUME NEW r \in Requests, InsertFails(r) PROVE StoreInv'
  BY <1>4 DEF InsertFails, Fault, StoreInv, TypeOK, RowsFinite, RowsGiven, NumbersInOrder,
              GotGiven, DumpInOrder, DumpSoFar, From, Row, dumpvars
<1>5. ASSUME Purge PROVE StoreInv'
  BY <1>5, PurgeStep
<1>6. ASSUME NEW c \in Clients, NEW r \in Requests, Begin(c, r) PROVE StoreInv'
  BY <1>6 DEF Begin, StoreInv, TypeOK, RowsFinite, RowsGiven, NumbersInOrder, GotGiven,
              DumpInOrder, DumpSoFar, From, Row
<1>7. ASSUME NEW c \in Clients, NEW size \in Sizes, Dump(c, size) PROVE StoreInv'
  BY <1>7, DumpStep
<1> QED
  BY <1>2, <1>3, <1>4, <1>5, <1>6, <1>7 DEF Next

\* Every behaviour keeps the invariant.
THEOREM StoreCorrect == Spec => []StoreInv
  BY StoreInit, StoreStep, PTL DEF Spec

\* The variables keep their types; stored numbers are positive.
THEOREM StoreTypeCorrect == Spec => []TypeOK
<1>1. StoreInv => TypeOK
  BY DEF StoreInv
<1> QED
  BY <1>1, StoreCorrect, PTL

\* The rows of a request are ordered alike by number and by insertion.
THEOREM NumbersOrdered == Spec => []NumbersInOrder
<1>1. StoreInv => NumbersInOrder
  BY DEF StoreInv
<1> QED
  BY <1>1, StoreCorrect, PTL

\* A client is given responses in their order, and none twice.
THEOREM DumpOrdered == Spec => []DumpInOrder
<1>1. StoreInv => DumpInOrder
  BY DEF StoreInv
<1> QED
  BY <1>1, StoreCorrect, PTL

\* An insert never meets the primary key of another row.
THEOREM Stored == Spec => EveryResponseStored
<1>1. StoreInv /\ [Next]_vars =>
        [\A r \in Requests : given'[r] # given[r] /\ faults' = faults =>
            \E x \in rows'[r] : x.resp = given'[r]]_vars
  <2> SUFFICES ASSUME StoreInv, Next, NEW r \in Requests, given'[r] # given[r], faults' = faults
               PROVE  \E x \in rows'[r] : x.resp = given'[r]
    OBVIOUS
  <2>1. PICK q \in Requests : Insert(q) \/ InsertFails(q)
    BY DEF Next, Tick, Purge, PurgeFails, Begin, Dump, DumpTo, DumpFails, DumpCrashes, Restart,
           dumpvars
  <2>2. ~InsertFails(q)
    BY DEF InsertFails, Fault, StoreInv, TypeOK
  <2>3. PICK x \in Row :
          /\ rows' = [rows EXCEPT ![q] = @ \union {x}]
          /\ x.resp = given[q] + 1
          /\ given' = [given EXCEPT ![q] = @ + 1]
    BY <2>1, <2>2, InsertAdds
  <2> QED
    BY <2>3 DEF StoreInv, TypeOK
<1> QED
  BY <1>1, StoreCorrect, PTL DEF Spec, EveryResponseStored

\* A dump that ends has brought all that is stored, unless the greatest number
\* was deleted meanwhile.
THEOREM DumpCompleted == Spec => DumpComplete
<1>1. StoreInv /\ [Next]_vars =>
        [\A c \in Clients : phase[c] = "paging" /\ phase'[c] = "done" /\ ~reset[c] =>
            \A x \in rows[subject[c]] : x.resp \in got'[c]]_vars
  <2> SUFFICES ASSUME StoreInv, Next, NEW c \in Clients, phase[c] = "paging",
                      phase'[c] = "done", ~reset[c], NEW x \in rows[subject[c]]
               PROVE  x.resp \in got'[c]
    OBVIOUS
  <2>1. phase' # phase
    OBVIOUS
  <2>2. PICK size \in Sizes : Dump(c, size)
    <3>1. ASSUME NEW d \in Clients, NEW size \in Sizes, Dump(d, size) PROVE d = c
      BY <3>1 DEF Dump, DumpTo, StoreInv, TypeOK
    <3>2. ASSUME NEW d \in Clients, NEW r \in Requests, Begin(d, r) PROVE FALSE
      BY <3>2 DEF Begin, StoreInv, TypeOK
    <3> QED
      BY <2>1, <3>1, <3>2 DEF Next, Tick, Insert, InsertRow, InsertFails, Purge, PurgeFails,
                              DumpFails, DumpCrashes, Restart, dumpvars
  <2>3. PICK page \in SUBSET From(subject[c], start[c]) :
          /\ got' = [got EXCEPT ![c] = @ \union {y.resp : y \in page}]
          /\ page = From(subject[c], start[c])
    BY <2>2, DumpAll
  <2>4. CASE x.num < start[c]
    BY <2>3, <2>4 DEF StoreInv, TypeOK, DumpSoFar
  <2>5. CASE ~(x.num < start[c])
    BY <2>3, <2>5 DEF StoreInv, TypeOK, From, Row
  <2> QED
    BY <2>4, <2>5
<1> QED
  BY <1>1, StoreCorrect, PTL DEF Spec, DumpComplete

\* A response is deleted only when it is old, by a clock that is set back once.
THEOREM YoungKept == Spec => YoungIsKept
<1>1. StoreInv /\ [Next]_vars =>
        [\A r \in Requests : \A x \in rows[r] \ rows'[r] : now - x.born >= Overdue - Hour]_vars
  <2> SUFFICES ASSUME StoreInv, Next, NEW r \in Requests, NEW x \in rows[r], x \notin rows'[r]
               PROVE  now - x.born >= Overdue - Hour
    OBVIOUS
  <2>1. ASSUME NEW q \in Requests, Insert(q) PROVE FALSE
    BY <2>1, InsertAdds DEF StoreInv, TypeOK
  <2>2. Purge
    BY <2>1 DEF Next, Tick, InsertFails, PurgeFails, Begin, Dump, DumpTo, DumpFails,
                DumpCrashes,
                Restart, dumpvars
  <2>3. Expired(x, now)
    BY <2>2 DEF Purge
  <2>4. now \in Nat /\ x.born \in Nat
    BY DEF StoreInv, TypeOK, Row
  <2> QED
    BY <2>3, <2>4, TimeAssumption DEF Expired, LocalTime
<1> QED
  BY <1>1, StoreCorrect, PTL DEF Spec, YoungIsKept

(* The safety core of OldGoes: what is left to fairness is that Purge comes. *)

\* A purge leaves no response that is old, by a clock that is set back once
\* (dbresponddrain.c:55-60, db.c:105-107).
THEOREM OverdueIsPurged ==
    Spec => [][Purge => \A r \in Requests : \A x \in rows'[r] :
                            now - x.born < Overdue + Hour]_vars
<1>1. StoreInv /\ [Next]_vars =>
        [Purge => \A r \in Requests : \A x \in rows'[r] : now - x.born < Overdue + Hour]_vars
  <2> SUFFICES ASSUME StoreInv, Purge, NEW r \in Requests, NEW x \in rows'[r]
               PROVE  now - x.born < Overdue + Hour
    OBVIOUS
  <2>1. x \in rows[r] /\ ~Expired(x, now)
    BY DEF Purge
  <2>2. now \in Nat /\ x.born \in Nat
    BY <2>1 DEF StoreInv, TypeOK, Row
  <2> QED
    BY <2>1, <2>2, TimeAssumption DEF Expired, LocalTime
<1> QED
  BY <1>1, StoreCorrect, PTL DEF Spec

\* Response n of r was given, and is not, or no longer, stored.
Gone(r, n) == n <= given[r] /\ \A x \in rows[r] : x.resp # n

\* A response that was deleted, or could not be stored, stays away, whatever is
\* inserted later, so that no dump that begins then brings it (db.c:162-184).
LEMMA GoneForGood ==
    \A r \in Requests, n \in Nat : Spec => [](Gone(r, n) => []Gone(r, n))
<1> SUFFICES ASSUME NEW r \in Requests, NEW n \in Nat
             PROVE  Spec => [](Gone(r, n) => []Gone(r, n))
  OBVIOUS
<1>1. StoreInv /\ Gone(r, n) /\ [Next]_vars => Gone(r, n)'
  <2> SUFFICES ASSUME StoreInv, Gone(r, n), [Next]_vars PROVE Gone(r, n)'
    OBVIOUS
  <2> USE DEF Gone
  <2>1. ASSUME NEW q \in Requests, Insert(q) PROVE Gone(r, n)'
    <3>1. PICK x \in Row :
            /\ rows' = [rows EXCEPT ![q] = @ \union {x}]
            /\ x.resp = given[q] + 1
            /\ given' = [given EXCEPT ![q] = @ + 1]
      BY <2>1, InsertAdds
    <3> QED
      BY <3>1 DEF StoreInv, TypeOK
  <2>2. ASSUME NEW q \in Requests, InsertFails(q) PROVE Gone(r, n)'
    BY <2>2 DEF InsertFails, StoreInv, TypeOK
  <2>3. ASSUME Purge PROVE Gone(r, n)'
    BY <2>3 DEF Purge
  <2>4. ASSUME UNCHANGED <<rows, given>> PROVE Gone(r, n)'
    BY <2>4
  <2> QED
    BY <2>1, <2>2, <2>3, <2>4
       DEF Next, Tick, PurgeFails, Begin, Dump, DumpTo, DumpFails, DumpCrashes, Restart, vars
<1> QED
  BY <1>1, StoreCorrect, PTL DEF Spec

\* The database implements the log of responses.
THEOREM ImplementsLog == Spec => LogSpec
<1> DEFINE keptBar == [r \in Requests |-> {x.resp : x \in rows[r]}]
<1>1. Init => Log!Init
  BY DEF Init, Log!Init
<1>2. StoreInv /\ [Next]_vars => [Log!Next]_(Log!vars)
  <2> SUFFICES ASSUME StoreInv, [Next]_vars PROVE Log!Next \/ UNCHANGED Log!vars
    OBVIOUS
  <2>1. ASSUME UNCHANGED <<rows, given, subject, got>> PROVE UNCHANGED Log!vars
    BY <2>1 DEF Log!vars
  <2>2. Tick \/ PurgeFails \/ Restart \/ UNCHANGED vars
        \/ (\E c \in Clients : DumpFails(c) \/ DumpCrashes(c))
        => UNCHANGED <<rows, given, subject, got>>
    BY DEF Tick, PurgeFails, Restart, DumpFails, DumpCrashes, vars, dumpvars
  <2>3. ASSUME NEW r \in Requests, Insert(r) PROVE Log!Next
    <3>1. PICK x \in Row :
            /\ rows' = [rows EXCEPT ![r] = @ \union {x}]
            /\ x.resp = given[r] + 1
            /\ given' = [given EXCEPT ![r] = @ + 1]
            /\ UNCHANGED dumpvars
      BY <2>3, InsertAdds
    <3>2. keptBar' = [keptBar EXCEPT ![r] = @ \union {given[r] + 1}]
      BY <3>1 DEF StoreInv, TypeOK
    <3>3. Log!Give(r)
      BY <3>1, <3>2 DEF Log!Give, dumpvars
    <3> QED
      BY <3>3 DEF Log!Next
  <2>4. ASSUME NEW r \in Requests, InsertFails(r) PROVE Log!Next
    <3>1. Log!Give(r)
      BY <2>4 DEF InsertFails, Log!Give, dumpvars
    <3> QED
      BY <3>1 DEF Log!Next
  <2>5. ASSUME Purge PROVE Log!Next
    <3>1. \A r \in Requests : keptBar'[r] \subseteq keptBar[r]
      BY <2>5 DEF Purge
    <3>2. keptBar' \in [Requests -> SUBSET UNION {keptBar[r] : r \in Requests}]
      BY <3>1
    <3>3. Log!Forget
      BY <2>5, <3>1, <3>2 DEF Log!Forget, Purge
    <3> QED
      BY <3>3 DEF Log!Next
  <2>6. ASSUME NEW c \in Clients, NEW r \in Requests, Begin(c, r) PROVE Log!Next
    <3>1. Log!Begin(c, r)
      BY <2>6 DEF Begin, Log!Begin
    <3> QED
      BY <3>1 DEF Log!Next
  <2>7. ASSUME NEW c \in Clients, NEW size \in Sizes, Dump(c, size) PROVE Log!Next
    <3>1. PICK page \in SUBSET From(subject[c], start[c]) :
            /\ got' = [got EXCEPT ![c] = @ \union {x.resp : x \in page}]
            /\ \A x \in page, y \in From(subject[c], start[c]) \ page : x.num < y.num
      BY <2>7, DumpAll
    <3> DEFINE resps == {x.resp : x \in page}
    <3>2. subject[c] \in Requests /\ rows[subject[c]] \subseteq Row
          /\ page \subseteq rows[subject[c]] /\ start[c] \in Nat
      BY DEF From, StoreInv, TypeOK
    <3>3. resps \in SUBSET keptBar[subject[c]]
      BY <3>2
    <3>4. \A n \in resps, g \in got[c] : g < n
      BY DEF StoreInv, DumpInOrder
    <3>5. ASSUME NEW x \in page, NEW z \in page, NEW y \in rows[subject[c]],
                 x.resp < y.resp, y.resp < z.resp
          PROVE  y \in page
      <4>1. x.num < y.num /\ y.num < z.num
        BY <3>2, <3>5 DEF StoreInv, NumbersInOrder
      <4>2. y \in From(subject[c], start[c])
        BY <3>2, <4>1 DEF From, Row
      <4> QED
        BY <3>1, <3>2, <4>1, <4>2 DEF Row
    <3>6. \A m, n \in resps : \A k \in keptBar[subject[c]] : m < k /\ k < n => k \in resps
      BY <3>2, <3>5
    <3>7. UNCHANGED <<given, keptBar, subject>>
      BY <2>7 DEF Dump, DumpTo
    <3>8. Log!Page(c, resps)
      BY <3>1, <3>4, <3>6, <3>7 DEF Log!Page
    <3> QED
      BY <3>3, <3>8 DEF Log!Next
  <2> QED
    BY <2>1, <2>2, <2>3, <2>4, <2>5, <2>6, <2>7 DEF Next
<1> QED
  BY <1>1, <1>2, StoreCorrect, PTL DEF Spec, LogSpec, Log!Spec
===============================================================================
