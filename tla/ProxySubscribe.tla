--------------------------- MODULE ProxySubscribe ---------------------------
(***************************************************************************)
(* The subscribe segment of one process of a proxy (proxysubscribe.c): the *)
(* proxy posts its answers there, gonggo's subscribe thread takes them,    *)
(* and a killer stops and joins the thread and destroys the segment's lock *)
(* and condition variables.  What an answer does to the tables is in       *)
(* ClientRegistry, who kills and when in ProxyLifecycle.                   *)
(*                                                                         *)
(* An action begins when a thread gets the shared lock and runs to its     *)
(* next wait; the exchange, in which the lock is kept, is a state.  The    *)
(* proxy is external; sequence/10_proxy_subscribe.d2 shows its loop.       *)
(***************************************************************************)
EXTENDS Integers

CONSTANTS
    MaxAnswer   \* bound: answers the proxy posts

ASSUME BoundAssumption == MaxAnswer \in Nat

VARIABLES
    state,    \* shm->state
    aid,      \* shm->aid and the rest of the answer: its number
    whole,    \* no answer in the segment is only partly written
    lock,     \* shm->lock: "free", or who holds it
    thread,   \* "start", "wait" (on dispatcher_wakeup), "woken", "exchange", "done"
    stop,     \* ctx->stop
    proxy,    \* "run", "write", "posted", "wait" (on proxy_wakeup), "woken", "ended", "dead"
    wrefs,    \* proxy_wakeup counts a waiter
    killer,   \* "none", "stop", "join", "destroy", "done"
    early,    \* history: the answer was posted before the thread waited first
    taken     \* history: the answers handed to proxy_subscribe_exchange

segment == <<state, aid, whole>>
vars == <<segment, lock, thread, stop, proxy, wrefs, killer, early, taken>>

Init ==
    /\ state = "INIT" /\ aid = 0 /\ whole = TRUE
    /\ lock = "free"
    /\ thread = "start" /\ stop = FALSE
    /\ proxy = "run" /\ wrefs = FALSE
    /\ killer = "none"
    /\ early = FALSE /\ taken = {}

OwnerDead == lock = "proxy" /\ proxy = "dead"
Obtainable == lock = "free" \/ OwnerDead
Available == lock = "free"

WakeThread == IF thread = "wait" THEN "woken" ELSE thread
WakeProxy == IF proxy = "wait" THEN "woken" ELSE proxy

-----------------------------------------------------------------------------
(***************************************************************************)
(* The subscribe thread.                                                   *)
(***************************************************************************)

(* The loop's condition, under the lock: the thread waits or ends.          *)
Loop ==
    /\ lock' = "free"
    /\ thread' = IF stop \/ state = "TERMINATION" THEN "done" ELSE "wait"

(* The lock whose owner died is made consistent, and the thread ends.       *)
Ends == lock' = "free" /\ thread' = "done"

ThreadStart ==
    /\ thread = "start" /\ Obtainable
    /\ IF OwnerDead THEN Ends ELSE Loop
    /\ UNCHANGED <<segment, stop, proxy, wrefs, killer, early, taken>>

(* pthread_cond_wait returns.                                               *)
ThreadAwake ==
    /\ thread = "woken" /\ Obtainable
    /\ IF OwnerDead THEN Ends /\ UNCHANGED taken
       ELSE IF ~stop /\ state = "ANSWER"
       THEN lock' = "thread" /\ thread' = "exchange" /\ taken' = taken \union {aid}
       ELSE Loop /\ UNCHANGED taken
    /\ UNCHANGED <<segment, stop, proxy, wrefs, killer, early>>

(* Mutants: the proxy is not signalled; the result is not stored.           *)
ThreadExchange_silent ==
    /\ thread = "exchange"
    /\ state' \in {"DONE", "FAILED"}
    /\ lock' = "free" /\ thread' = "wait"
    /\ UNCHANGED <<aid, whole, stop, proxy, wrefs, killer, early, taken>>
ThreadExchange_again ==
    /\ thread = "exchange"
    /\ proxy' = WakeProxy
    /\ lock' = "free" /\ thread' = "wait"
    /\ UNCHANGED <<segment, stop, wrefs, killer, early, taken>>

(* proxy_subscribe_exchange fails without a payload, a rid or headers.  The *)
(* condition of the loop, under the same lock, is still met.                *)
ThreadExchange ==
    /\ thread = "exchange"
    /\ state' \in {"DONE", "FAILED"}
    /\ proxy' = WakeProxy
    /\ lock' = "free" /\ thread' = "wait"
    /\ UNCHANGED <<aid, whole, stop, wrefs, killer, early, taken>>

ThreadStep == ThreadStart \/ ThreadAwake \/ ThreadExchange

-----------------------------------------------------------------------------
(***************************************************************************)
(* The killer: the part of proxy_thread_kill about this thread.            *)
(***************************************************************************)
KillStart ==
    /\ killer = "none" /\ killer' = "stop"
    /\ UNCHANGED <<segment, lock, thread, stop, proxy, wrefs, early, taken>>

(* Mutant: without the lock.                                                *)
KillStop_unlocked ==
    /\ killer = "stop"
    /\ lock' = "free"
    /\ stop' = TRUE /\ state' = "TERMINATION"
    /\ thread' = WakeThread
    /\ killer' = "join"
    /\ UNCHANGED <<aid, whole, proxy, wrefs, early, taken>>

(* proxy_subscribe_stop                                                     *)
KillStop ==
    /\ killer = "stop" /\ Obtainable
    /\ lock' = "free"
    /\ stop' = TRUE /\ state' = "TERMINATION"
    /\ thread' = WakeThread
    /\ killer' = "join"
    /\ UNCHANGED <<aid, whole, proxy, wrefs, early, taken>>

KillJoin ==
    /\ killer = "join" /\ thread = "done"
    /\ killer' = "destroy"
    /\ UNCHANGED <<segment, lock, thread, stop, proxy, wrefs, early, taken>>

(* Mutant: without gonggo_cond_reset; pthread_cond_destroy waits until no   *)
(* waiter is counted.                                                       *)
KillDestroy_plain ==
    /\ killer = "destroy" /\ ~wrefs
    /\ killer' = "done"
    /\ UNCHANGED <<segment, lock, thread, stop, proxy, wrefs, early, taken>>

(* proxy_subscribe_context_destroy: a waiter that is still counted, because *)
(* it died in its wait or waits yet, is forgotten first.                    *)
KillDestroy ==
    /\ killer = "destroy"
    /\ wrefs' = FALSE
    /\ killer' = "done"
    /\ UNCHANGED <<segment, lock, thread, stop, proxy, early, taken>>

KillStep == KillStop \/ KillJoin \/ KillDestroy

-----------------------------------------------------------------------------
(***************************************************************************)
(* The proxy.                                                              *)
(***************************************************************************)

(* It writes an answer, its state and its parts in any order, with the      *)
(* lock; then it signals and waits for DONE.                                *)
ProxyWrite ==
    /\ proxy = "run" /\ Available /\ state # "TERMINATION" /\ aid < MaxAnswer
    /\ proxy' = "write" /\ lock' = "proxy"
    /\ aid' = aid + 1 /\ whole' = FALSE
    /\ state' \in {"IDLE", "ANSWER"}
    /\ UNCHANGED <<thread, stop, wrefs, killer, early, taken>>

ProxyPost ==
    /\ proxy = "write"
    /\ proxy' = "posted" /\ state' = "ANSWER" /\ whole' = TRUE
    /\ thread' = WakeThread
    /\ early' = (thread = "start")
    /\ UNCHANGED <<aid, lock, stop, wrefs, killer, taken>>

ProxyWait ==
    /\ proxy = "posted"
    /\ proxy' = "wait" /\ lock' = "free" /\ wrefs' = TRUE
    /\ UNCHANGED <<segment, thread, stop, killer, early, taken>>

(* It waits for DONE or FAILED, and ends when it finds TERMINATION.         *)
ProxyAwake ==
    /\ proxy = "woken" /\ Available
    /\ IF state = "ANSWER" THEN proxy' = "wait" /\ UNCHANGED <<state, wrefs>>
       ELSE /\ wrefs' = FALSE
            /\ IF state = "TERMINATION" THEN proxy' = "ended" /\ UNCHANGED state
               ELSE proxy' = "run" /\ state' = "IDLE"
    /\ UNCHANGED <<aid, whole, lock, thread, stop, killer, early, taken>>

ProxyDies ==
    /\ proxy # "dead" /\ proxy' = "dead"
    /\ UNCHANGED <<segment, lock, thread, stop, wrefs, killer, early, taken>>

ProxyStep == ProxyPost \/ ProxyWait \/ ProxyAwake

-----------------------------------------------------------------------------
Next == ThreadStep \/ KillStart \/ KillStep \/ ProxyWrite \/ ProxyStep \/ ProxyDies

(* Threads run; a proxy that lives goes through its exchange; a proxy's     *)
(* death is noticed, and its threads killed (ProxyLifecycle).               *)
Fairness ==
    /\ WF_vars(ThreadStep) /\ WF_vars(KillStep)
    /\ WF_vars(ProxyStep) /\ WF_vars(proxy = "dead" /\ KillStart)

Spec == Init /\ [][Next]_vars /\ Fairness

-----------------------------------------------------------------------------
(***************************************************************************)
(* Properties.                                                             *)
(***************************************************************************)

\* Every variable has its type, and who is in the exchange or at an answer has
\* the lock.
TypeOK ==
    /\ state \in {"INIT", "IDLE", "ANSWER", "FAILED", "DONE", "TERMINATION"}
    /\ aid \in 0 .. MaxAnswer /\ taken \subseteq 1 .. MaxAnswer
    /\ {whole, stop, wrefs, early} \subseteq BOOLEAN
    /\ lock \in {"free", "thread", "proxy"}
    /\ thread \in {"start", "wait", "woken", "exchange", "done"}
    /\ proxy \in {"run", "write", "posted", "wait", "woken", "ended", "dead"}
    /\ killer \in {"none", "stop", "join", "destroy", "done"}
    /\ lock = "thread" <=> thread = "exchange"
    /\ proxy \in {"write", "posted"} => lock = "proxy"

\* The segment is an AnswerBox: no answer is taken twice, and none that a proxy
\* died over in writing (proxysubscribe.c:109, 114-124).
Box == INSTANCE AnswerBox WITH
    box <- IF state = "ANSWER" /\ whole /\ thread # "exchange" THEN aid ELSE 0,
    last <- IF whole THEN aid ELSE aid - 1
BoxSpec == Box!Spec

\* A proxy that posted an answer is told that it was taken, unless it dies, the
\* thread is told to stop, or the answer was posted before the thread's first
\* wait, which does not look at the state before it waits (proxysubscribe.c:113-123).
AnswerIsConfirmed ==
    proxy = "wait" /\ state = "ANSWER" ~>
        (proxy \in {"run", "dead"} \/ stop \/ [](early /\ thread = "wait"))

\* A kill ends: the thread gets to know of it wherever it is, and the condition
\* variables are destroyed though a dead proxy still waits on one
\* (proxysubscribe.c:133-141, 79-85, util.c:4-8).
KillEnds == killer = "stop" ~> killer = "done"

=============================================================================
