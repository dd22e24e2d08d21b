------------------------------ MODULE ProxyLife -----------------------------
(***************************************************************************)
(* What gonggo's thread tables promise of the proxies: under a name at     *)
(* most one process is served at a time, the one served is let go before   *)
(* another is taken, and a process is never taken again once it, or a      *)
(* later one of its name, has been served.                                 *)
(***************************************************************************)
EXTENDS Naturals

CONSTANTS Name, MaxIncarnation

VARIABLES
    serving,  \* name -> number of the process that is served, 0 if none is
    latest    \* name -> number of the last process that was

vars == <<serving, latest>>

Init ==
    /\ serving = [n \in Name |-> 0]
    /\ latest = [n \in Name |-> 0]

Take(n, k) ==
    /\ serving[n] = 0
    /\ k > latest[n]
    /\ serving' = [serving EXCEPT ![n] = k]
    /\ latest' = [latest EXCEPT ![n] = k]

Release(n) ==
    /\ serving[n] # 0
    /\ serving' = [serving EXCEPT ![n] = 0]
    /\ UNCHANGED latest

\* gonggo ends and lets go of everyone.
ReleaseAll ==
    /\ serving' = [n \in Name |-> 0]
    /\ UNCHANGED latest

Next ==
    \/ \E n \in Name : Release(n) \/ \E k \in 1..MaxIncarnation : Take(n, k)
    \/ ReleaseAll

Spec == Init /\ [][Next]_vars
=============================================================================
