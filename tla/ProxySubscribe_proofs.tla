------------------------ MODULE ProxySubscribe_proofs ------------------------
(***************************************************************************)
(* What holds of the subscribe segment however many answers are posted:    *)
(* its locking, and that it is an AnswerBox.                               *)
(***************************************************************************)
EXTENDS ProxySubscribe, TLAPS

-----------------------------------------------------------------------------
(***************************************************************************)
(* The inductive invariant.                                                *)
(***************************************************************************)

(* Nothing was posted yet.                                                  *)
Fresh == aid = 0 => state # "ANSWER" /\ proxy \in {"run", "dead"}

(* A proxy that is about to write finds no answer of its own.               *)
Ready == proxy = "run" => state # "ANSWER"

(* The proxy writes with the lock; an answer it died over is out of reach:  *)
(* whoever gets the lock sees EOWNERDEAD, ends the thread or terminates.    *)
Partial ==
    /\ proxy = "write" => ~whole
    /\ ~whole => /\ proxy \in {"write", "dead"}
                 /\ lock = "proxy" \/ thread = "done" \/ state = "TERMINATION"

(* The answer stays in the segment during the exchange.                     *)
Exchanged == thread = "exchange" => state = "ANSWER" /\ whole

BoxInv == TypeOK /\ Fresh /\ Ready /\ Partial /\ Exchanged

LEMMA InitInv == Init => BoxInv
<1> SUFFICES ASSUME Init PROVE BoxInv
    OBVIOUS
<1>1. aid \in 0 .. MaxAnswer /\ taken \subseteq 1 .. MaxAnswer
    BY BoundAssumption DEF Init
<1>2. {whole, stop, wrefs, early} \subseteq BOOLEAN
    BY DEF Init
<1>3. TypeOK
    BY <1>1, <1>2 DEF Init, TypeOK
<1>4. Fresh /\ Ready /\ Partial /\ Exchanged
    BY DEF Init, Fresh, Ready, Partial, Exchanged
<1> QED
    BY <1>3, <1>4 DEF BoxInv

(* The subscribe thread.                                                    *)
LEMMA ThreadInv == BoxInv /\ ThreadStep => BoxInv'
<1> SUFFICES ASSUME BoxInv, ThreadStep PROVE BoxInv'
    OBVIOUS
<1> USE DEF BoxInv, TypeOK, Fresh, Ready, Partial, Exchanged, segment
<1>1. CASE ThreadStart
    BY <1>1 DEF ThreadStart, OwnerDead, Obtainable, Loop, Ends
<1>2. CASE ThreadAwake
    <2>1. taken' \subseteq 1 .. MaxAnswer
        <3>1. state = "ANSWER" => aid \in 1 .. MaxAnswer
            BY BoundAssumption
        <3>2. CASE ~OwnerDead /\ ~stop /\ state = "ANSWER"
            BY <1>2, <3>1, <3>2 DEF ThreadAwake
        <3>3. CASE ~(~OwnerDead /\ ~stop /\ state = "ANSWER")
            BY <1>2, <3>3 DEF ThreadAwake
        <3> QED
            BY <3>2, <3>3
    <2>2. {whole, stop, wrefs, early}' \subseteq BOOLEAN
        BY <1>2 DEF ThreadAwake
    <2>3. /\ lock' \in {"free", "thread"} /\ thread' \in {"wait", "exchange", "done"}
          /\ lock' = "thread" <=> thread' = "exchange"
          /\ proxy \notin {"write", "posted"}
          /\ thread' = "exchange" => state = "ANSWER" /\ lock = "free"
          /\ lock = "proxy" => thread' = "done"
        BY <1>2 DEF ThreadAwake, OwnerDead, Obtainable, Loop, Ends
    <2>4. UNCHANGED <<state, aid, whole, proxy, killer>> /\ thread = "woken"
        BY <1>2 DEF ThreadAwake
    <2>5. TypeOK'
        BY <2>1, <2>2, <2>3, <2>4
    <2> QED
        BY <2>3, <2>4, <2>5
<1>3. CASE ThreadExchange
    BY <1>3 DEF ThreadExchange, WakeProxy
<1> QED
    BY <1>1, <1>2, <1>3 DEF ThreadStep

(* The killer.                                                              *)
LEMMA KillInv == BoxInv /\ (KillStart \/ KillStep) => BoxInv'
<1> SUFFICES ASSUME BoxInv, KillStart \/ KillStep PROVE BoxInv'
    OBVIOUS
<1> USE DEF BoxInv, TypeOK, Fresh, Ready, Partial, Exchanged, segment
<1>1. CASE KillStart
    BY <1>1 DEF KillStart
<1>2. CASE KillStop
    BY <1>2 DEF KillStop, OwnerDead, Obtainable, WakeThread
<1>3. CASE KillJoin
    BY <1>3 DEF KillJoin
<1>4. CASE KillDestroy
    BY <1>4 DEF KillDestroy
<1> QED
    BY <1>1, <1>2, <1>3, <1>4 DEF KillStep

(* The proxy.                                                               *)
LEMMA ProxyInv == BoxInv /\ (ProxyWrite \/ ProxyStep \/ ProxyDies) => BoxInv'
<1> SUFFICES ASSUME BoxInv, ProxyWrite \/ ProxyStep \/ ProxyDies PROVE BoxInv'
    OBVIOUS
<1> USE DEF BoxInv, TypeOK, Fresh, Ready, Partial, Exchanged, segment
<1>1. CASE ProxyWrite
    <2>1. aid' \in 1 .. MaxAnswer /\ taken' = taken
        BY <1>1, BoundAssumption DEF ProxyWrite
    <2>2. {whole, stop, wrefs, early}' \subseteq BOOLEAN /\ ~whole'
        BY <1>1 DEF ProxyWrite
    <2>3. /\ proxy' = "write" /\ lock' = "proxy" /\ lock = "free"
          /\ state' \in {"IDLE", "ANSWER"}
          /\ UNCHANGED <<thread, killer>>
        BY <1>1 DEF ProxyWrite, Available
    <2>4. TypeOK'
        BY <2>1, <2>2, <2>3
    <2> QED
        BY <2>1, <2>2, <2>3, <2>4
<1>2. CASE ProxyPost
    BY <1>2 DEF ProxyPost, WakeThread
<1>3. CASE ProxyWait
    BY <1>3 DEF ProxyWait
<1>4. CASE ProxyAwake
    BY <1>4 DEF ProxyAwake, Available
<1>5. CASE ProxyDies
    BY <1>5 DEF ProxyDies
<1> QED
    BY <1>1, <1>2, <1>3, <1>4, <1>5 DEF ProxyStep

LEMMA StepInv == BoxInv /\ [Next]_vars => BoxInv'
<1> SUFFICES ASSUME BoxInv, [Next]_vars PROVE BoxInv'
    OBVIOUS
<1>1. CASE Next
    BY <1>1, ThreadInv, KillInv, ProxyInv DEF Next
<1>2. CASE UNCHANGED vars
    BY <1>2 DEF BoxInv, TypeOK, Fresh, Ready, Partial, Exchanged, vars, segment
<1> QED
    BY <1>1, <1>2

LEMMA Invariant == Spec => []BoxInv
BY InitInv, StepInv, PTL DEF Spec

\* The variables have their types, and the lock belongs to the one who is in
\* the exchange or at an answer (proxysubscribe.c:109-126).
THEOREM SubscribeTypeCorrect == Spec => []TypeOK
BY Invariant, PTL DEF BoxInv

-----------------------------------------------------------------------------
(***************************************************************************)
(* The refinement.                                                         *)
(***************************************************************************)

LEMMA ThreadRefines == BoxInv /\ ThreadStep => [Box!Next]_Box!vars
<1> SUFFICES ASSUME BoxInv, ThreadStep PROVE [Box!Next]_Box!vars
    OBVIOUS
<1> USE DEF BoxInv, TypeOK, Fresh, Partial, Exchanged, segment, Box!vars
<1>1. CASE ThreadStart
    BY <1>1 DEF ThreadStart, OwnerDead, Obtainable, Loop, Ends
<1>2. CASE ThreadAwake /\ lock' # "thread"
    BY <1>2 DEF ThreadAwake, OwnerDead, Obtainable, Loop, Ends
<1>3. CASE ThreadAwake /\ lock' = "thread"
    <2>1. state = "ANSWER" /\ whole /\ thread = "woken" /\ aid # 0
        BY <1>3 DEF ThreadAwake, OwnerDead, Obtainable, Loop, Ends
    <2>2. thread' = "exchange" /\ taken' = taken \union {aid} /\ UNCHANGED segment
        BY <1>3 DEF ThreadAwake, Loop, Ends
    <2>3. Box!Take
        BY <2>1, <2>2 DEF Box!Take
    <2> QED
        BY <2>3 DEF Box!Next
<1>4. CASE ThreadExchange
    BY <1>4 DEF ThreadExchange
<1> QED
    BY <1>1, <1>2, <1>3, <1>4 DEF ThreadStep

LEMMA KillRefines == BoxInv /\ (KillStart \/ KillStep) => [Box!Next]_Box!vars
<1> SUFFICES ASSUME BoxInv, KillStart \/ KillStep PROVE [Box!Next]_Box!vars
    OBVIOUS
<1> USE DEF segment, Box!vars
<1>1. CASE KillStop
    BY <1>1 DEF KillStop, Box!Next, Box!Withdraw
<1>2. CASE KillStart \/ KillJoin \/ KillDestroy
    BY <1>2 DEF KillStart, KillJoin, KillDestroy
<1> QED
    BY <1>1, <1>2 DEF KillStep

LEMMA ProxyRefines ==
    BoxInv /\ (ProxyWrite \/ ProxyStep \/ ProxyDies) => [Box!Next]_Box!vars
<1> SUFFICES ASSUME BoxInv, ProxyWrite \/ ProxyStep \/ ProxyDies
             PROVE [Box!Next]_Box!vars
    OBVIOUS
<1> USE DEF BoxInv, TypeOK, Ready, Partial, Exchanged, segment, Box!vars
<1>1. CASE ProxyWrite
    BY <1>1 DEF ProxyWrite, Available
<1>2. CASE ProxyPost
    <2>1. ~whole /\ whole' /\ state' = "ANSWER" /\ thread' # "exchange"
        BY <1>2 DEF ProxyPost, WakeThread
    <2>2. aid' = aid /\ taken' = taken /\ aid \in Int
        BY <1>2 DEF ProxyPost
    <2>3. Box!Offer
        BY <2>1, <2>2 DEF Box!Offer
    <2> QED
        BY <2>3 DEF Box!Next
<1>3. CASE ProxyWait \/ ProxyDies
    BY <1>3 DEF ProxyWait, ProxyDies
<1>4. CASE ProxyAwake
    BY <1>4 DEF ProxyAwake, Available
<1> QED
    BY <1>1, <1>2, <1>3, <1>4 DEF ProxyStep

\* The subscribe segment is an AnswerBox: answers are taken once, as they were
\* posted, and none that its proxy died over (proxysubscribe.c:109-124).
THEOREM ImplementsBox == Spec => BoxSpec
<1>1. Init => Box!Init
    BY DEF Init, Box!Init
<1>2. BoxInv /\ [Next]_vars => [Box!Next]_Box!vars
    <2> SUFFICES ASSUME BoxInv, [Next]_vars PROVE [Box!Next]_Box!vars
        OBVIOUS
    <2>1. CASE Next
        BY <2>1, ThreadRefines, KillRefines, ProxyRefines DEF Next
    <2>2. CASE UNCHANGED vars
        BY <2>2 DEF vars, segment, Box!vars
    <2> QED
        BY <2>1, <2>2
<1> QED
    BY <1>1, <1>2, Invariant, PTL DEF Spec, BoxSpec, Box!Spec

-----------------------------------------------------------------------------
(***************************************************************************)
(* No wakeup is lost.  That an answer is confirmed and a kill ends is a    *)
(* matter of fairness; that nobody sleeps through what it waits for is not.*)
(***************************************************************************)
(* The lock is held by a proxy at an answer, or that died there.            *)
Held == lock = "proxy" => proxy \in {"write", "posted", "dead"}

(* A thread that was told to stop is not asleep, and nobody is at the       *)
(* segment any more.                                                        *)
Told ==
    /\ killer \in {"join", "destroy", "done"} <=> stop
    /\ stop => state = "TERMINATION" /\ lock = "free" /\ thread \in {"start", "woken", "done"}
    /\ killer \in {"destroy", "done"} => thread = "done"
    /\ state = "TERMINATION" => stop

(* The thread ends when it is told to, or when the proxy died.              *)
Ended == thread = "done" => stop \/ proxy = "dead"

(* An answer in the segment has woken the thread, or was early.             *)
Noticed ==
    state = "ANSWER" /\ proxy \in {"posted", "wait"} =>
        thread \in {"woken", "exchange"} \/ (early /\ thread \in {"start", "wait"})

(* A proxy is woken by a result or by the end.                              *)
Answered == proxy = "woken" => state # "ANSWER"

WakeInv == BoxInv /\ Held /\ Told /\ Ended /\ Noticed /\ Answered

LEMMA WakeInit == Init => WakeInv
BY InitInv DEF Init, WakeInv, Held, Told, Ended, Noticed, Answered

(* No step of any of the three loses a wakeup.                              *)
LEMMA WakeStep == WakeInv /\ [Next]_vars => WakeInv'
<1> SUFFICES ASSUME WakeInv, [Next]_vars PROVE WakeInv'
    OBVIOUS
<1>0. BoxInv'
    BY StepInv DEF WakeInv
<1> USE DEF WakeInv, BoxInv, TypeOK, Ready, Exchanged, Partial, Held, Told, Ended, Noticed,
            Answered, segment
<1>1. CASE ThreadStart
    BY <1>0, <1>1 DEF ThreadStart, OwnerDead, Obtainable, Loop, Ends
<1>2. CASE ThreadAwake
    BY <1>0, <1>2 DEF ThreadAwake, OwnerDead, Obtainable, Loop, Ends
<1>3. CASE ThreadExchange
    BY <1>0, <1>3 DEF ThreadExchange, WakeProxy
<1>4. CASE KillStart
    BY <1>0, <1>4 DEF KillStart
<1>5. CASE KillStop
    BY <1>0, <1>5 DEF KillStop, OwnerDead, Obtainable, WakeThread
<1>6. CASE KillJoin \/ KillDestroy
    BY <1>0, <1>6 DEF KillJoin, KillDestroy
<1>7. CASE ProxyWrite
    BY <1>0, <1>7 DEF ProxyWrite, Available
<1>8. CASE ProxyPost
    BY <1>0, <1>8 DEF ProxyPost, WakeThread
<1>9. CASE ProxyWait
    BY <1>0, <1>9 DEF ProxyWait
<1>10. CASE ProxyAwake
    BY <1>0, <1>10 DEF ProxyAwake, Available
<1>11. CASE ProxyDies
    BY <1>0, <1>11 DEF ProxyDies
<1>12. CASE UNCHANGED vars
    BY <1>0, <1>12 DEF vars
<1> QED
    BY <1>1, <1>2, <1>3, <1>4, <1>5, <1>6, <1>7, <1>8, <1>9, <1>10, <1>11, <1>12
       DEF Next, ThreadStep, KillStep, ProxyStep

LEMMA WakeInvariant == Spec => []WakeInv
BY WakeInit, WakeStep, PTL DEF Spec

\* A thread that is told to stop does not sleep on: the stop takes the lock, so it
\* finds the thread before the loop's condition or in its wait, and wakes it there;
\* never in the exchange (proxysubscribe.c:108-126, 133-140).
THEOREM StopIsHeard == Spec => [](stop => thread \in {"start", "woken", "done"})
BY WakeInvariant, PTL DEF WakeInv, Told

\* An answer that is posted is noticed: the thread is woken or exchanges it, unless
\* it was posted before the thread waited first, which has no condition to look at
\* (proxysubscribe.c:108-125).
THEOREM AnswerIsNoticed == Spec => []Noticed
BY WakeInvariant, PTL DEF WakeInv

=============================================================================
