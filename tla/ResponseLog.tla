---------------------------- MODULE ResponseLog ----------------------------
(***************************************************************************)
(* What gonggo's response database promises: the responses of a request    *)
(* form a log from which old ones are forgotten, and a client that dumps   *)
(* the log page by page is given responses in their order, none twice and  *)
(* none left out inside a page.                                            *)
(***************************************************************************)
EXTENDS Naturals

CONSTANTS Requests, Clients

VARIABLES
    given,   \* given[r]: how many responses request r has had
    kept,    \* kept[r]: those of 1..given[r] that can be dumped
    subject, \* subject[c]: the request client c dumps
    got      \* got[c]: what the dump has brought so far

vars == <<given, kept, subject, got>>

Init ==
    /\ given = [r \in Requests |-> 0]
    /\ kept = [r \in Requests |-> {}]
    /\ subject \in [Clients -> Requests]
    /\ got = [c \in Clients |-> {}]

(* A new response is kept, or is lost.                                      *)
Give(r) ==
    /\ given' = [given EXCEPT ![r] = @ + 1]
    /\ kept' \in {kept, [kept EXCEPT ![r] = @ \union {given[r] + 1}]}
    /\ UNCHANGED <<subject, got>>

Forget ==
    /\ kept' \in [Requests -> SUBSET UNION {kept[r] : r \in Requests}]
    /\ \A r \in Requests : kept'[r] \subseteq kept[r]
    /\ UNCHANGED <<given, subject, got>>

Begin(c, r) ==
    /\ subject' = [subject EXCEPT ![c] = r]
    /\ got' = [got EXCEPT ![c] = {}]
    /\ UNCHANGED <<given, kept>>

(* A page: later than everything before it, and without a gap.              *)
Page(c, page) ==
    /\ \A n \in page, g \in got[c] : g < n
    /\ \A m, n \in page : \A k \in kept[subject[c]] :
            m < k /\ k < n => k \in page
    /\ got' = [got EXCEPT ![c] = @ \union page]
    /\ UNCHANGED <<given, kept, subject>>

Next ==
    \/ \E r \in Requests : Give(r)
    \/ Forget
    \/ \E c \in Clients, r \in Requests : Begin(c, r)
    \/ \E c \in Clients : \E page \in SUBSET kept[subject[c]] : Page(c, page)

Spec == Init /\ [][Next]_vars
=============================================================================
