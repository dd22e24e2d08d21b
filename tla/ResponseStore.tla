--------------------------- MODULE ResponseStore ---------------------------
(***************************************************************************)
(* The response database of gonggo (db.c), its drain (dbresponddrain.c)    *)
(* and the service responseDump (clientservice.c).  Every function of db.c *)
(* holds db_lock from its first to its last statement and is one action.   *)
(* SQLite and the dumping clients are external; what is stored survives a  *)
(* crash of gonggo.                                                        *)
(***************************************************************************)
EXTENDS Integers, FiniteSets

CONSTANTS
    Requests,   \* request ids
    Clients,    \* clients that dump responses
    Sizes,      \* page sizes clients ask for
    Overdue,    \* responddrainoverdue
    Back,       \* the moment at which local time is set back ...
    Hour,       \* ... by this much
    MaxTime,    \* bound: the last moment
    MaxGiven,   \* bound: responses per request
    MaxFault    \* bound: failures of the database

ASSUME SizeAssumption == Sizes \subseteq Nat \ {0}
ASSUME TimeAssumption ==
    /\ {Overdue, Back, Hour} \subseteq Nat
    /\ Overdue > 0    \* confvar.c:39-42
ASSUME BoundAssumption == {MaxTime, MaxGiven, MaxFault} \subseteq Nat

VARIABLES
    up,      \* gonggo runs
    now,     \* real time, in seconds
    rows,    \* rows[r]: the rows of table request with id r
    given,   \* given[r]: responses handed to db_respond_insert so far
    faults,  \* failures of the database so far
    subject, \* subject[c]: the request client c dumps
    start,   \* start[c]: the number client c asks from next
    phase,   \* phase[c]: "idle", "paging", or "done" when nothing is left
    got,     \* got[c]: the responses its dump has brought
    reset    \* reset[c]: during the dump the greatest number was deleted

dumpvars == <<subject, start, phase, got, reset>>
vars == <<up, now, rows, given, faults, dumpvars>>

(* A row.  Column respond is the position of the response in the order of  *)
(* insertion; column ts is LocalTime(born).                                *)
Row == [num : Nat \ {0}, resp : Nat, born : Nat]

(* datetime(CURRENT_TIMESTAMP, 'localtime') and localtime(): not monotone.  *)
LocalTime(t) == IF t < Back THEN t ELSE t - Hour

(* Mutant: the cutoff is the present.                                       *)
Expired_now(row, t) == LocalTime(row.born) <= LocalTime(t)

(* ts < cutoff as SQLite compares them, as texts: the cutoff ends in a     *)
(* blank and the name of the time zone, which ts lacks, so that of two     *)
(* equal times the shorter text is smaller.                                *)
Expired(row, t) == LocalTime(row.born) <= LocalTime(t - Overdue)

Init ==
    /\ up = TRUE
    /\ now = 0
    /\ rows = [r \in Requests |-> {}]
    /\ given = [r \in Requests |-> 0]
    /\ faults = 0
    /\ subject \in [Clients -> Requests]
    /\ start = [c \in Clients |-> 1]
    /\ phase = [c \in Clients |-> "idle"]
    /\ got = [c \in Clients |-> {}]
    /\ reset = [c \in Clients |-> FALSE]

(* An error of the database, at any of its calls, ends the operation.       *)
Fault == faults < MaxFault /\ faults' = faults + 1

Tick == now < MaxTime /\ now' = now + 1 /\ UNCHANGED <<up, rows, given, faults, dumpvars>>

(* db_respond_insert.  The primary key is (id, num).                        *)
InsertRow(r, num) ==
    /\ up /\ given[r] < MaxGiven
    /\ given' = [given EXCEPT ![r] = @ + 1]
    /\ rows' = IF \E x \in rows[r] : x.num = num THEN rows
               ELSE [rows EXCEPT ![r] =
                        @ \union {[num |-> num, resp |-> given[r] + 1, born |-> now]}]
    /\ UNCHANGED <<up, now, faults, dumpvars>>

(* Mutants: COUNT in the place of MAX; the least number that is free.       *)
Insert_count(r) == InsertRow(r, Cardinality(rows[r]) + 1)
Insert_free(r) ==
    \E num \in 1 .. MaxGiven :
        /\ \A m \in 1 .. num : (\E x \in rows[r] : x.num = m) <=> m < num
        /\ InsertRow(r, num)

(* One more than SELECT MAX(num), which is 0 if there is no row.            *)
Insert(r) ==
    \E num \in {1} \union {x.num + 1 : x \in rows[r]} :
        /\ \A x \in rows[r] : x.num < num
        /\ InsertRow(r, num)

(* Its result is not looked at: the response is sent and not stored.        *)
InsertFails(r) ==
    /\ up /\ given[r] < MaxGiven
    /\ given' = [given EXCEPT ![r] = @ + 1]
    /\ Fault
    /\ UNCHANGED <<up, now, rows, dumpvars>>

(* Mutant: the row with the greatest number is spared.                      *)
Purge_last ==
    /\ up
    /\ rows' = [r \in Requests |-> {x \in rows[r] :
                    ~Expired(x, now) \/ \A y \in rows[r] : y.num <= x.num}]
    /\ UNCHANGED <<up, now, given, faults, dumpvars>>

(* db_respond_purge, for the rows of all requests.                          *)
Purge ==
    /\ up
    /\ rows' = [r \in Requests |-> {x \in rows[r] : ~Expired(x, now)}]
    /\ reset' = [c \in Clients |->
                    \/ reset[c]
                    \/ \E x \in rows[subject[c]] :
                          \A y \in rows'[subject[c]] : y.num < x.num]
    /\ UNCHANGED <<up, now, given, faults, subject, start, phase, got>>

PurgeFails == up /\ Fault /\ UNCHANGED <<up, now, rows, given, dumpvars>>

(* A client (external) starts to dump what was answered to a request.       *)
Begin(c, r) ==
    /\ phase[c] # "paging"
    /\ phase' = [phase EXCEPT ![c] = "paging"]
    /\ subject' = [subject EXCEPT ![c] = r]
    /\ start' = [start EXCEPT ![c] = 1]
    /\ got' = [got EXCEPT ![c] = {}]
    /\ reset' = [reset EXCEPT ![c] = FALSE]
    /\ UNCHANGED <<up, now, rows, given, faults>>

(* WHERE id = r AND num >= from                                             *)
From(r, from) == {x \in rows[r] : x.num >= from}

(* Mutant: ORDER BY num DESC.                                               *)
IsPage_newest(page, all, size) ==
    /\ Cardinality(page) = IF Cardinality(all) > size THEN size ELSE Cardinality(all)
    /\ \A x \in page, y \in all \ page : x.num > y.num

(* ORDER BY num LIMIT count                                                 *)
IsPage(page, all, size) ==
    /\ Cardinality(page) = IF Cardinality(all) > size THEN size ELSE Cardinality(all)
    /\ \A x \in page, y \in all \ page : x.num < y.num

DumpTo(c, size, next) ==
    LET all == From(subject[c], start[c])
    IN  \E page \in SUBSET all :
            /\ up /\ phase[c] = "paging"
            /\ IsPage(page, all, size)
            /\ got' = [got EXCEPT ![c] = @ \union {x.resp : x \in page}]
            /\ IF page = {} THEN start' = start
               ELSE \E last \in page :
                        /\ \A x \in page : x.num <= last.num
                        /\ start' = [start EXCEPT ![c] = last.num + next]
            /\ phase' = [phase EXCEPT ![c] = IF Cardinality(all) > size THEN @ ELSE "done"]
            /\ UNCHANGED <<up, now, rows, given, faults, subject, reset>>

(* Mutant: the next page begins with the last response of this one.         *)
Dump_again(c, size) == DumpTo(c, size, 0)

(* gonggo_response_dump with db_respond_query.  The reply carries the page, *)
(* stop, its greatest number, and more, the number of rows left; the client *)
(* goes on at stop + 1 until more is 0.                                     *)
Dump(c, size) == DumpTo(c, size, 1)

(* GONGGO_RESPONSE_DUMP_DB_ERROR: the client may ask again.                 *)
DumpFails(c) ==
    /\ up /\ phase[c] = "paging"
    /\ Fault
    /\ UNCHANGED <<up, now, rows, given, dumpvars>>

(* The second query cannot be prepared or bound: the array for the page is *)
(* allocated and not filled, and db_respond_query_result_destroy frees what *)
(* the uninitialised pointers point to.                                     *)
DumpCrashes(c) ==
    /\ up /\ phase[c] = "paging" /\ From(subject[c], start[c]) # {}
    /\ Fault
    /\ up' = FALSE
    /\ UNCHANGED <<now, rows, given, dumpvars>>

(* gonggo is started again; db_ensure finds the table that is there.        *)
Restart == ~up /\ up' = TRUE /\ UNCHANGED <<now, rows, given, faults, dumpvars>>

Next ==
    \/ Tick
    \/ \E r \in Requests : Insert(r) \/ InsertFails(r)
    \/ Purge \/ PurgeFails
    \/ \E c \in Clients :
        \/ \E r \in Requests : Begin(c, r)
        \/ \E size \in Sizes : Dump(c, size)
        \/ DumpFails(c)
        \/ DumpCrashes(c)
    \/ Restart

(* The drain comes back after each timed wait.                              *)
Spec == Init /\ [][Next]_vars /\ WF_vars(Purge)
-----------------------------------------------------------------------------
TypeOK ==
    /\ up \in BOOLEAN
    /\ now \in Nat /\ faults \in Nat
    /\ rows \in [Requests -> SUBSET Row]
    /\ given \in [Requests -> Nat]
    /\ subject \in [Clients -> Requests]
    /\ start \in [Clients -> Nat \ {0}]
    /\ phase \in [Clients -> {"idle", "paging", "done"}]
    /\ got \in [Clients -> SUBSET Nat]
    /\ reset \in [Clients -> BOOLEAN]

(* A response that is not hit by an error of the database is stored: the   *)
(* number given to it is free, whatever the drain has deleted before       *)
(* (db.c:170, 184, the primary key of db.c:65).                            *)
EveryResponseStored ==
    [][\A r \in Requests :
        given'[r] # given[r] /\ faults' = faults =>
            \E x \in rows'[r] : x.resp = given'[r]]_vars

(* Numbers are given in the order of the responses and again only after    *)
(* their row was deleted: rows of one request are ordered alike by number  *)
(* and by insertion (db.c:162-184, ORDER BY num in db.c:275).               *)
NumbersInOrder ==
    \A r \in Requests : \A x, y \in rows[r] :
        /\ x.num < y.num <=> x.resp < y.resp
        /\ x.num = y.num => x = y

(* Over all the pages of a dump, with inserts, purges, errors and restarts *)
(* in between, a client is given responses in their order and none twice:   *)
(* what the next page can bring is later than all that was brought          *)
(* (clientservice.c:123, db.c:290).                                         *)
DumpInOrder ==
    \A c \in Clients : \A x \in From(subject[c], start[c]), g \in got[c] : g < x.resp

(* When a reply says that nothing is left (more = 0), the client has been   *)
(* given every response now stored for the request, unless the greatest     *)
(* number was deleted during the dump, and may have been given again below  *)
(* where the client goes on.                                                *)
DumpComplete ==
    [][\A c \in Clients :
        phase[c] = "paging" /\ phase'[c] = "done" /\ ~reset[c] =>
            \A x \in rows[subject[c]] : x.resp \in got'[c]]_vars

(* A response is kept for responddrainoverdue seconds, less the time by     *)
(* which local time is set back (db.c:64, 105-107).                         *)
YoungIsKept ==
    [][\A r \in Requests : \A x \in rows[r] \ rows'[r] :
        now - x.born >= Overdue - Hour]_vars

(* And is deleted once it is that much older, whatever purges failed, if   *)
(* gonggo runs (dbresponddrain.c:55-60).                                    *)
OldGoes ==
    \A r \in Requests, n \in 1 .. MaxGiven :
        (\E x \in rows[r] : x.resp = n /\ now - x.born >= Overdue + Hour)
            ~> (~up \/ \A x \in rows[r] : x.resp # n)

(* The database implements the log of responses.                           *)
Log == INSTANCE ResponseLog WITH kept <- [r \in Requests |-> {x.resp : x \in rows[r]}]
LogSpec == Log!Spec
=============================================================================
