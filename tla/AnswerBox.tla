------------------------------ MODULE AnswerBox ------------------------------
(***************************************************************************)
(* What the subscribe segment promises a proxy and gonggo: answers are     *)
(* offered one at a time, and gonggo takes an answer that is offered once, *)
(* as it was offered, or it is withdrawn.                                  *)
(***************************************************************************)
EXTENDS Naturals

VARIABLES
    box,    \* the number of the answer that is offered, 0 if none is
    last,   \* the number of the last answer that was offered
    taken   \* the answers that gonggo has taken

vars == <<box, last, taken>>

Init == box = 0 /\ last = 0 /\ taken = {}

Offer ==
    /\ box = 0
    /\ box' = last + 1 /\ last' = last + 1
    /\ UNCHANGED taken

Take ==
    /\ box # 0
    /\ taken' = taken \union {box}
    /\ box' = 0
    /\ UNCHANGED last

(* The proxy has died, or its subscribe thread is told to stop.             *)
Withdraw == box # 0 /\ box' = 0 /\ UNCHANGED <<last, taken>>

Next == Offer \/ Take \/ Withdraw

Spec == Init /\ [][Next]_vars
=============================================================================
