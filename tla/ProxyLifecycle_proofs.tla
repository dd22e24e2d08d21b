------------------------ MODULE ProxyLifecycle_proofs ------------------------
(***************************************************************************)
(* What holds of the proxies' threads for any number of names and of       *)
(* processes under them, whether or not main stops.  The invariant follows *)
(* a name through its activation: who holds the kill lock and what it has  *)
(* found, whose the request is, what the tables and the running threads    *)
(* have to do with each other, and who has announced a death.              *)
(***************************************************************************)
EXTENDS ProxyLifecycle, TLAPS

Locked == {"stop", "join", "unlock"}
Killing == Locked \union {"kill", "killed"}
Entry == Incarnation \union {None}

(* TypeOK in the form in which the provers use it, with the places at which *)
(* each thread can be.                                                      *)
TypeInv ==
    /\ process \in [Incarnation -> {"new", "started", "asked", "up", "dead"}]
    /\ sigterm \in SUBSET Incarnation
    /\ segment \in [Name -> Entry]
    /\ state \in {"IDLE", "REQUEST", "PROXY_DYING", "SUCCESS", "DONE", "TERMINATION"}
    /\ requester \in Entry /\ owner_dead \in BOOLEAN
    /\ wakeup \in SUBSET {"activator", "terminator"}
    /\ context \in SUBSET (Incarnation \X Kind) /\ running \in SUBSET (Incarnation \X Kind)
    /\ alive \in [Incarnation -> {"none", "watch", "noted", "exited"}]
    /\ watched \in [Incarnation -> Entry]
    /\ table \in [Kind -> [Name -> Entry]]
    /\ zombies \in SUBSET Name /\ queue \in Seq(Name)
    /\ kill_lock \in Killer \union {None}
    /\ victim \in [Killer -> Name \union {None}]
    /\ found \in [Killer -> [Kind -> Entry]]
    /\ kind \in [Killer -> Kind]
    /\ outcome \in {"none", "failed", "success", "dead", "timeout", "terminated"}
    /\ keys \in SUBSET Name /\ ended \in SUBSET Killer
    /\ served \in SUBSET Incarnation
    /\ pc \in [Killer -> Killing \union
                  {"start", "wait", "pop", "window", "answer", "decide", "giveup", "signal",
                   "run", "killall", "end", "clean", "exit"}]

(* The kill lock is held from the first lookup to the last join, a killer   *)
(* has a victim, and what it has found is forgotten when it unlocks.        *)
KillInv ==
    /\ \A x \in Killer : (kill_lock = x) <=> (pc[x] \in Locked)
    /\ \A x \in Killer : pc[x] \in Killing => victim[x] \in Name
    /\ \A x \in Killer : kind[x] # Subscribe =>
          \/ pc[x] \in {"stop", "join"}
          \/ x = "activator" /\ pc[x] = "decide" /\ outcome = "success"
    /\ \A x \in Killer, k \in Kind : found[x][k] # None =>
          pc[x] \in Locked /\ (pc[x] = "stop" => k < kind[x])
    /\ pc["main"] = "exit" => pc["activator"] = "exit" /\ pc["terminator"] = "exit"

(* The request that is worked on is that of one process, which is activated *)
(* once: while there is a request it has no threads yet, once it has been   *)
(* answered it has.                                                         *)
Working == Killing \union {"window", "answer", "decide", "giveup", "signal"}

RequestInv ==
    /\ state = "REQUEST" => requester \in Incarnation
    /\ pc["activator"] \in Working => requester \in Incarnation
    /\ pc["activator"] \in Killing =>
          state = "REQUEST" /\ victim["activator"] = NameOf(requester)
    /\ pc["activator"] \in {"window", "answer"} => state \notin {"IDLE", "REQUEST"}
    /\ state \in {"REQUEST", "PROXY_DYING"} /\ requester # None =>
          alive[requester] = "none" /\ process[requester] \notin {"new", "started"}
    /\ outcome = "success" => pc["activator"] \in {"window", "answer", "decide", "signal"}
    /\ (pc["activator"] \in Working /\ state = "SUCCESS") \/ outcome = "success" =>
          requester \in Incarnation /\ alive[requester] # "none"
    /\ \A i \in Incarnation :
          /\ alive[i] = "none" => watched[i] = None
          /\ alive[i] # "none" => watched[i] # None /\ process[i] \notin {"new", "started"}

(* The requester's threads of kind k exist and are not registered yet.      *)
Pending(k) ==
    /\ requester # None /\ alive[requester] # "none"
    /\ \/ pc["activator"] \in {"window", "answer", "giveup"}
       \/ pc["activator"] = "decide" /\ k >= kind["activator"]

(* The activator has seen to it that nothing of its name is registered.     *)
Cleared(k) ==
    \/ pc["activator"] = "stop" /\ k < kind["activator"] /\ found["activator"][k] = None
    \/ pc["activator"] = "join" /\ (k < kind["activator"] \/ found["activator"][k] = None)
    \/ pc["activator"] \in {"unlock", "killed"}
    \/ Pending(k)

(* What is registered runs.                                                 *)
RegisteredRuns ==
    \A k \in Kind, n \in Name : table[k][n] # None =>
        NameOf(table[k][n]) = n /\ <<table[k][n], k>> \in running

(* A thread that runs has its context and is registered or pending.         *)
RunningIsKnown ==
    \A i \in Incarnation, k \in Kind : <<i, k>> \in running =>
        /\ alive[i] # "none"
        /\ pc["main"] # "exit" =>
              /\ <<i, k>> \in context
              /\ (table[k][NameOf(i)] = i \/ (i = requester /\ Pending(k)))

PendingRuns == \A k \in Kind : Pending(k) => <<requester, k>> \in running

ClearedIsFree == \A k \in Kind : Cleared(k) => table[k][NameOf(requester)] = None

(* Only the requester is registered while it is being registered.           *)
OnlyRequester ==
    \A k \in Kind :
        pc["activator"] = "decide" /\ requester # None /\ alive[requester] # "none" =>
            table[k][NameOf(requester)] \in {None, requester}

(* All that is registered under a name is of one process.                   *)
OneProcess ==
    \A k, l \in Kind, n \in Name :
        table[k][n] # None /\ table[l][n] # None => table[k][n] = table[l][n]

TableInv ==
    /\ RegisteredRuns /\ RunningIsKnown /\ PendingRuns /\ ClearedIsFree
    /\ OnlyRequester /\ OneProcess

(* What a killer has found and not joined is still registered.              *)
FoundInv ==
    \A x \in Killer, k \in Kind :
        found[x][k] # None /\ (pc[x] = "stop" \/ (pc[x] = "join" /\ k >= kind[x])) =>
            table[k][victim[x]] = found[x][k]

(* While nothing but the watched process's own death is announced and main  *)
(* does not stop: a name is a zombie's from the notice to the end of the    *)
(* terminator's kill, it is announced once, and it is no zombie's while a   *)
(* thread watches a living process of it.                                   *)
Watches ==
    \A i \in Incarnation : alive[i] = "watch" =>
        NameOf(i) \notin zombies /\ <<i, Alive>> \in running

Notes ==
    \A i \in Incarnation : alive[i] = "noted" =>
        /\ NameOf(i) \in zombies /\ <<i, Alive>> \in running
        /\ \A a \in 1..Len(queue) : queue[a] # NameOf(i)
        /\ pc["terminator"] \in Killing => victim["terminator"] # NameOf(i)

NotedAreDead ==
    \A i \in Incarnation : alive[i] \in {"noted", "exited"} => process[i] = "dead"

Queued ==
    /\ \A a \in 1..Len(queue) :
          /\ queue[a] \in zombies
          /\ pc["terminator"] \in Killing => victim["terminator"] # queue[a]
          /\ \A b \in 1..Len(queue) : queue[a] = queue[b] => a = b
    /\ pc["terminator"] \in Killing => victim["terminator"] \in zombies

FoundAreDying ==
    \A k \in Kind : found["terminator"][k] # None =>
        alive[found["terminator"][k]] \in {"noted", "exited"}

RequesterIsNew ==
    pc["activator"] \in Killing /\ segment[NameOf(requester)] = requester
            /\ NameOf(requester) \in zombies =>
        table[Alive][NameOf(requester)] # None

DeathInv ==
    OwnSegments /\ pc["main"] = "run" =>
        Watches /\ Notes /\ NotedAreDead /\ Queued /\ FoundAreDying /\ RequesterIsNew

(* Processes of a name come one after the other,                            *)
NumberOf(i) == i[2]

Succession ==
    \A i, j \in Incarnation :
        NameOf(i) = NameOf(j) /\ NumberOf(i) < NumberOf(j) /\ process[j] # "new" =>
            process[i] = "dead"

(* and so do those that are served, of which there is a last one.           *)
ServedInTurn ==
    /\ \A i \in served : alive[i] # "none"
    /\ requester # None /\ requester \notin served
          /\ (state = "REQUEST" \/ pc["activator"] \in Working) =>
              \A i \in served : NameOf(i) = NameOf(requester) => NumberOf(i) < NumberOf(requester)
    /\ \A k \in Kind : Pending(k) /\ k <= Channel => requester \notin served

LastServed ==
    \A i \in served : \E j \in served : NameOf(j) = NameOf(i)
        /\ \A l \in served : NameOf(l) = NameOf(i) => NumberOf(l) <= NumberOf(j)

OrderInv == Succession /\ ServedInTurn /\ LastServed

LifeInv == TypeInv /\ KillInv /\ RequestInv /\ TableInv /\ FoundInv /\ OneIncarnation
              /\ DeathInv /\ OrderInv

LEMMA NamesDiffer == None \notin Incarnation /\ None \notin Name /\ None \notin Killer
BY NoneAssumption

LEMMA NameType == \A i \in Incarnation : NameOf(i) \in Name
BY DEF Incarnation, NameOf

LEMMA NumberType == \A i \in Incarnation : NumberOf(i) \in Nat
BY BoundAssumption DEF Incarnation, NumberOf

(* A process is told by its name and number.                                *)
LEMMA SameIncarnation ==
    \A i, j \in Incarnation : NameOf(i) = NameOf(j) /\ NumberOf(i) = NumberOf(j) => i = j
BY DEF Incarnation, NameOf, NumberOf

LEMMA Predecessor ==
    \A i, j \in Incarnation : NameOf(i) = NameOf(j) /\ NumberOf(i) < NumberOf(j) =>
        \E k \in 1..(j[2] - 1) : i = <<j[1], k>>
<1> SUFFICES ASSUME NEW i \in Incarnation, NEW j \in Incarnation,
                    NameOf(i) = NameOf(j), NumberOf(i) < NumberOf(j)
             PROVE  \E k \in 1..(j[2] - 1) : i = <<j[1], k>>
    OBVIOUS
<1>1. i = <<j[1], i[2]>>
    BY DEF Incarnation, NameOf
<1>2. i[2] \in 1..(j[2] - 1)
    BY BoundAssumption DEF Incarnation, NumberOf
<1> QED
    BY <1>1, <1>2

LEMMA TypeEq == TypeInv => TypeOK
BY DEF TypeInv, TypeOK, Entry, EntryType

LEMMA TypeInit == Init => TypeInv
<1> SUFFICES ASSUME Init PROVE TypeInv
    OBVIOUS
<1>1. /\ state \in {"IDLE", "REQUEST", "PROXY_DYING", "SUCCESS", "DONE", "TERMINATION"}
      /\ requester \in Entry /\ owner_dead \in BOOLEAN
      /\ sigterm \in SUBSET Incarnation /\ wakeup \in SUBSET {"activator", "terminator"}
      /\ context \in SUBSET (Incarnation \X Kind) /\ running \in SUBSET (Incarnation \X Kind)
    BY DEF Init, Entry
<1>7. /\ zombies \in SUBSET Name
      /\ kill_lock \in Killer \union {None}
      /\ outcome \in {"none", "failed", "success", "dead", "timeout", "terminated"}
      /\ keys \in SUBSET Name /\ ended \in SUBSET Killer /\ served \in SUBSET Incarnation
    BY DEF Init
<1>8. queue \in Seq(Name)
    BY DEF Init
<1>2. /\ process \in [Incarnation -> {"new", "started", "asked", "up", "dead"}]
      /\ alive \in [Incarnation -> {"none", "watch", "noted", "exited"}]
      /\ segment \in [Name -> Entry] /\ watched \in [Incarnation -> Entry]
    BY DEF Init, Entry
<1>3. /\ table \in [Kind -> [Name -> Entry]]
      /\ victim \in [Killer -> Name \union {None}]
      /\ found \in [Killer -> [Kind -> Entry]]
    BY DEF Init, Entry
<1>4. kind \in [Killer -> Kind]
    BY DEF Init, Kind, Subscribe
<1>5. PICK t \in {"wait", "start"} : pc = [activator |-> "wait", terminator |-> t,
    main |-> "run"]
    BY DEF Init
<1>6. pc \in [Killer -> Killing \union
                 {"start", "wait", "pop", "window", "answer", "decide", "giveup", "signal",
                  "run", "killall", "end", "clean", "exit"}]
    BY <1>5 DEF Killer
<1> QED
    BY <1>1, <1>2, <1>3, <1>4, <1>6, <1>7, <1>8 DEF TypeInv

(* The head of the activator's loop, for the types.                         *)
LEMMA LoopType ==
    ASSUME TypeInv, ActivatorLoop
    PROVE  /\ pc' \in [Killer -> Killing \union
                 {"start", "wait", "pop", "window", "answer", "decide", "giveup", "signal",
                  "run", "killall", "end", "clean", "exit"}]
           /\ state' \in {"IDLE", "REQUEST", "PROXY_DYING", "SUCCESS", "DONE", "TERMINATION"}
           /\ requester' \in Entry /\ owner_dead' = FALSE /\ outcome' = "none"
           /\ wakeup' \in SUBSET {"activator", "terminator"}
<1> USE DEF TypeInv, ActivatorLoop, Goto, Entry
<1>1. CASE "activator" \in ended
    BY <1>1
<1>2. CASE "activator" \notin ended
    BY <1>2
<1> QED
    BY <1>1, <1>2

LEMMA TypeInvStep == TypeInv /\ KillInv /\ RequestInv /\ [Next]_vars => TypeInv'
<1> SUFFICES ASSUME TypeInv, KillInv, RequestInv, [Next]_vars PROVE TypeInv'
    OBVIOUS
<1> USE NamesDiffer, NameType
        DEF TypeInv, Entry, Killing, Locked, Killer, Kind, Subscribe, Channel, Alive,
            Goto, vars, proxies, activation, threads, killing, registry, stopping
<1>1. ASSUME NEW i \in Incarnation, Start(i) PROVE TypeInv'
    BY <1>1 DEF Start
<1>2. ASSUME NEW i \in Incarnation, Ask(i) PROVE TypeInv'
    BY <1>2 DEF Ask, Wake, ActivationUnlocked
<1>3. ASSUME NEW i \in Incarnation, Acknowledge(i) PROVE TypeInv'
    BY <1>3 DEF Acknowledge, Wake, ActivationUnlocked
<1>4. ASSUME NEW i \in Incarnation, Crash(i) PROVE TypeInv'
    BY <1>4 DEF Crash, Lives, Die, ActivationUnlocked
<1>5. ASSUME NEW i \in Incarnation, Quit(i) PROVE TypeInv'
    BY <1>5 DEF Quit, Lives, Die
<1>6. ASSUME NEW i \in Incarnation, AliveNotice(i) PROVE TypeInv'
    BY <1>6 DEF AliveNotice, proxy_thread_terminating_set
<1>7. ASSUME NEW i \in Incarnation, AliveAwake(i) PROVE TypeInv'
    BY <1>7 DEF AliveAwake, proxy_terminator_awake, Wake, TerminatorUnlocked
<1>8. ASSUME NEW x \in Killer, KillLock(x) PROVE TypeInv'
    BY <1>8 DEF KillLock
<1>9. ASSUME NEW x \in Killer, KillStop(x) PROVE TypeInv'
    <2>1. kind' \in [Killer -> Kind]
        BY <1>9 DEF KillStop, NextKind
    <2>2. table[kind[x]][victim[x]] \in Entry
        BY <1>9 DEF KillStop, KillInv
    <2>3. found' \in [Killer -> [Kind -> Entry]] /\ sigterm' \in SUBSET Incarnation
        BY <1>9, <2>2 DEF KillStop, thread_table_get, proxy_alive_stop
    <2> QED
        BY <1>9, <2>1, <2>3 DEF KillStop, NextKind
<1>10. ASSUME NEW x \in Killer, KillJoin(x) PROVE TypeInv'
    <2>1. kind' \in [Killer -> Kind]
        BY <1>10 DEF KillJoin, NextKind
    <2>2. /\ table' \in [Kind -> [Name -> Entry]] /\ segment' \in [Name -> Entry]
          /\ context' \in SUBSET (Incarnation \X Kind)
          /\ running' \in SUBSET (Incarnation \X Kind)
        <3>1. CASE found[x][kind[x]] = None
            BY <1>10, <3>1 DEF KillJoin
        <3>2. CASE found[x][kind[x]] # None
            <4>1. context' \subseteq context /\ running' \subseteq running
                BY <1>10, <3>2 DEF KillJoin, thread_table_remove
            <4>2. /\ table' = [table EXCEPT ![kind[x]][victim[x]] = None]
                  /\ segment' = [segment EXCEPT ![victim[x]] = None]
                BY <1>10, <3>2 DEF KillJoin, thread_table_remove, shm_unlink
            <4> QED
                BY <4>1, <4>2
        <3> QED
            BY <3>1, <3>2
    <2> QED
        BY <1>10, <2>1, <2>2 DEF KillJoin, NextKind
<1>11. ASSUME NEW x \in Killer, KillUnlock(x) PROVE TypeInv'
    BY <1>11 DEF KillUnlock
<1>12. ASSUME ActivatorIdle PROVE TypeInv'
    BY <1>12, LoopType DEF ActivatorIdle
<1>13. ASSUME ActivatorExit PROVE TypeInv'
    BY <1>13 DEF ActivatorExit
<1>14. ASSUME ActivatorRequest PROVE TypeInv'
    <2>1. requester \in Incarnation
        BY <1>14 DEF ActivatorRequest, RequestInv
    <2>2. CASE NameOf(requester) \in zombies
        BY <1>14, <2>1, <2>2 DEF ActivatorRequest, proxy_thread_zombie
    <2>3. CASE NameOf(requester) \notin zombies
        BY <1>14, <2>1, <2>3 DEF ActivatorRequest, proxy_thread_zombie
    <2> QED
        BY <2>2, <2>3
<1>15. ASSUME ActivatorUnmapped PROVE TypeInv'
    <2>1. victim' \in [Killer -> Name \union {None}]
        BY <1>15 DEF ActivatorUnmapped
    <2> QED
        BY <1>15, <2>1, LoopType DEF ActivatorUnmapped
<1>16. ASSUME ActivatorCreate PROVE TypeInv'
    <2>1. requester \in Incarnation
        BY <1>16 DEF ActivatorCreate, RequestInv
    <2>2. segment[NameOf(requester)] \in Entry
        BY <2>1
    <2>3. /\ context' \in SUBSET (Incarnation \X Kind) /\ running' \in SUBSET (Incarnation \X Kind)
          /\ alive' \in [Incarnation -> {"none", "watch", "noted", "exited"}]
          /\ watched' \in [Incarnation -> Entry]
          /\ victim' \in [Killer -> Name \union {None}]
        BY <1>16, <2>1, <2>2 DEF ActivatorCreate, shm_get
    <2> QED
        BY <1>16, <2>3 DEF ActivatorCreate
<1>17. ASSUME ActivatorRelock PROVE TypeInv'
    BY <1>17 DEF ActivatorRelock
<1>18. ASSUME ActivatorAnswer PROVE TypeInv'
    BY <1>18 DEF ActivatorAnswer
<1>19. ASSUME ActivatorRefused PROVE TypeInv'
    BY <1>19, LoopType DEF ActivatorRefused
<1>20. ASSUME ActivatorStop PROVE TypeInv'
    BY <1>20 DEF ActivatorStop, proxy_alive_stop
<1>21. ASSUME ActivatorJoin PROVE TypeInv'
    <2>1. segment' \in [Name -> Entry]
        BY <1>21 DEF ActivatorJoin, shm_unlink
    <2>4. context' \subseteq context /\ running' \subseteq running
        BY <1>21 DEF ActivatorJoin
    <2>2. CASE outcome = "terminated"
        <3>1. pc' = [pc EXCEPT !["activator"] = "exit"]
            BY <1>21, <2>2 DEF ActivatorJoin
        <3> QED
            BY <1>21, <2>1, <2>2, <2>4, <3>1 DEF ActivatorJoin
    <2>3. CASE outcome # "terminated"
        BY <1>21, <2>1, <2>3, <2>4, LoopType DEF ActivatorJoin
    <2> QED
        BY <2>2, <2>3
<1>22. ASSUME ActivatorSet PROVE TypeInv'
    <2>1. requester \in Incarnation
        BY <1>22 DEF ActivatorSet, RequestInv
    <2>2. kind' \in [Killer -> Kind]
        BY <1>22 DEF ActivatorSet, NextKind
    <2>3. /\ table' \in [Kind -> [Name -> Entry]]
          /\ context' \in SUBSET (Incarnation \X Kind)
          /\ served' \in SUBSET Incarnation
        BY <1>22, <2>1 DEF ActivatorSet, thread_table_set
    <2> QED
        BY <1>22, <2>2, <2>3 DEF ActivatorSet, NextKind
<1>23. ASSUME ActivatorSignal PROVE TypeInv'
    BY <1>23, LoopType DEF ActivatorSignal
<1>24. ASSUME TerminatorStart PROVE TypeInv'
    BY <1>24 DEF TerminatorStart
<1>25. ASSUME TerminatorAwake PROVE TypeInv'
    BY <1>25 DEF TerminatorAwake
<1>26. ASSUME TerminatorPop PROVE TypeInv'
    BY <1>26 DEF TerminatorPop
<1>27. ASSUME TerminatorSleep PROVE TypeInv'
    BY <1>27 DEF TerminatorSleep
<1>28. ASSUME TerminatorDrop PROVE TypeInv'
    BY <1>28 DEF TerminatorDrop, proxy_thread_terminating_drop
<1>29. ASSUME NEW n \in Name, MainKill(n) PROVE TypeInv'
    BY <1>29 DEF MainKill, proxy_thread_terminating_set
<1>30. ASSUME MainStop PROVE TypeInv'
    BY <1>30 DEF MainStop
<1>31. ASSUME MainDrop PROVE TypeInv'
    BY <1>31 DEF MainDrop, proxy_thread_terminating_drop
<1>32. ASSUME MainEndActivator PROVE TypeInv'
    BY <1>32 DEF MainEndActivator, Wake, ActivationUnlocked
<1>33. ASSUME MainEndTerminator PROVE TypeInv'
    BY <1>33 DEF MainEndTerminator, Wake, TerminatorUnlocked
<1>34. ASSUME MainCleanUp PROVE TypeInv'
    BY <1>34 DEF MainCleanUp
<1>35. ASSUME UNCHANGED vars PROVE TypeInv'
    BY <1>35
<1> QED
    <2> HIDE DEF TypeInv, Entry, Killing, Locked, Killer, Kind, Subscribe, Channel, Alive
    <2> QED
        BY <1>1, <1>2, <1>3, <1>4, <1>5, <1>6, <1>7, <1>8, <1>9, <1>10, <1>11, <1>12, <1>13,
           <1>14, <1>15, <1>16, <1>17, <1>18, <1>19, <1>20, <1>21, <1>22, <1>23, <1>24, <1>25,
           <1>26, <1>27, <1>28, <1>29, <1>30, <1>31, <1>32, <1>33, <1>34, <1>35
           DEF Next, ActivatorStep, TerminatorStep, MainStep, KillStep, Killer

LEMMA KillInvStep == TypeInv /\ RequestInv /\ KillInv /\ [Next]_vars => KillInv'
<1> SUFFICES ASSUME TypeInv, RequestInv, KillInv, [Next]_vars PROVE KillInv'
    OBVIOUS
<1> USE NamesDiffer, NameType
        DEF TypeInv, KillInv, Entry, Killing, Locked, Killer, Kind, Subscribe, Channel, Alive,
            Goto, vars, proxies, activation, threads, killing, registry, stopping
<1>1. ASSUME NEW i \in Incarnation, Start(i) PROVE KillInv'
    BY <1>1 DEF Start
<1>2. ASSUME NEW i \in Incarnation, Ask(i) PROVE KillInv'
    BY <1>2 DEF Ask, Wake, ActivationUnlocked
<1>3. ASSUME NEW i \in Incarnation, Acknowledge(i) PROVE KillInv'
    BY <1>3 DEF Acknowledge, Wake, ActivationUnlocked
<1>4. ASSUME NEW i \in Incarnation, Crash(i) PROVE KillInv'
    BY <1>4 DEF Crash, Lives, Die, ActivationUnlocked
<1>5. ASSUME NEW i \in Incarnation, Quit(i) PROVE KillInv'
    BY <1>5 DEF Quit, Lives, Die
<1>6. ASSUME NEW i \in Incarnation, AliveNotice(i) PROVE KillInv'
    BY <1>6 DEF AliveNotice, proxy_thread_terminating_set
<1>7. ASSUME NEW i \in Incarnation, AliveAwake(i) PROVE KillInv'
    BY <1>7 DEF AliveAwake, proxy_terminator_awake, Wake, TerminatorUnlocked
<1>8. ASSUME NEW x \in Killer, KillLock(x) PROVE KillInv'
    BY <1>8 DEF KillLock
<1>9. ASSUME NEW x \in Killer, KillStop(x) PROVE KillInv'
    BY <1>9 DEF KillStop, NextKind, thread_table_get, proxy_alive_stop
<1>10. ASSUME NEW x \in Killer, KillJoin(x) PROVE KillInv'
    BY <1>10 DEF KillJoin, NextKind, thread_table_remove, shm_unlink
<1>11. ASSUME NEW x \in Killer, KillUnlock(x) PROVE KillInv'
    BY <1>11 DEF KillUnlock
<1>12. ASSUME ActivatorIdle PROVE KillInv'
    BY <1>12 DEF ActivatorIdle, ActivatorLoop
<1>13. ASSUME ActivatorExit PROVE KillInv'
    BY <1>13 DEF ActivatorExit
<1>14. ASSUME ActivatorRequest PROVE KillInv'
    <2>1. requester \in Incarnation
        BY <1>14 DEF ActivatorRequest, RequestInv
    <2>2. CASE NameOf(requester) \in zombies
        BY <1>14, <2>1, <2>2 DEF ActivatorRequest, proxy_thread_zombie
    <2>3. CASE NameOf(requester) \notin zombies
        BY <1>14, <2>1, <2>3 DEF ActivatorRequest, proxy_thread_zombie
    <2> QED
        BY <2>2, <2>3
<1>15. ASSUME ActivatorUnmapped PROVE KillInv'
    BY <1>15 DEF ActivatorUnmapped, ActivatorLoop, shm_get
<1>16. ASSUME ActivatorCreate PROVE KillInv'
    BY <1>16 DEF ActivatorCreate, shm_get
<1>17. ASSUME ActivatorRelock PROVE KillInv'
    BY <1>17 DEF ActivatorRelock
<1>18. ASSUME ActivatorAnswer PROVE KillInv'
    BY <1>18 DEF ActivatorAnswer
<1>19. ASSUME ActivatorRefused PROVE KillInv'
    BY <1>19 DEF ActivatorRefused, ActivatorLoop
<1>20. ASSUME ActivatorStop PROVE KillInv'
    BY <1>20 DEF ActivatorStop, proxy_alive_stop
<1>21. ASSUME ActivatorJoin PROVE KillInv'
    BY <1>21 DEF ActivatorJoin, ActivatorLoop, shm_unlink
<1>22. ASSUME ActivatorSet PROVE KillInv'
    BY <1>22 DEF ActivatorSet, NextKind, thread_table_set
<1>23. ASSUME ActivatorSignal PROVE KillInv'
    BY <1>23 DEF ActivatorSignal, ActivatorLoop
<1>24. ASSUME TerminatorStart PROVE KillInv'
    BY <1>24 DEF TerminatorStart
<1>25. ASSUME TerminatorAwake PROVE KillInv'
    BY <1>25 DEF TerminatorAwake
<1>26. ASSUME TerminatorPop PROVE KillInv'
    BY <1>26 DEF TerminatorPop
<1>27. ASSUME TerminatorSleep PROVE KillInv'
    BY <1>27 DEF TerminatorSleep
<1>28. ASSUME TerminatorDrop PROVE KillInv'
    BY <1>28 DEF TerminatorDrop, proxy_thread_terminating_drop
<1>29. ASSUME NEW n \in Name, MainKill(n) PROVE KillInv'
    BY <1>29 DEF MainKill, proxy_thread_terminating_set
<1>30. ASSUME MainStop PROVE KillInv'
    BY <1>30 DEF MainStop
<1>31. ASSUME MainDrop PROVE KillInv'
    BY <1>31 DEF MainDrop, proxy_thread_terminating_drop
<1>32. ASSUME MainEndActivator PROVE KillInv'
    BY <1>32 DEF MainEndActivator, Wake, ActivationUnlocked
<1>33. ASSUME MainEndTerminator PROVE KillInv'
    BY <1>33 DEF MainEndTerminator, Wake, TerminatorUnlocked
<1>34. ASSUME MainCleanUp PROVE KillInv'
    BY <1>34 DEF MainCleanUp
<1>35. ASSUME UNCHANGED vars PROVE KillInv'
    BY <1>35
<1> QED
    <2> HIDE DEF TypeInv, KillInv, Entry, Killing, Locked, Killer, Kind, Subscribe, Channel,
                 Alive
    <2> QED
        BY <1>1, <1>2, <1>3, <1>4, <1>5, <1>6, <1>7, <1>8, <1>9, <1>10, <1>11, <1>12, <1>13,
           <1>14, <1>15, <1>16, <1>17, <1>18, <1>19, <1>20, <1>21, <1>22, <1>23, <1>24, <1>25,
           <1>26, <1>27, <1>28, <1>29, <1>30, <1>31, <1>32, <1>33, <1>34, <1>35
           DEF Next, ActivatorStep, TerminatorStep, MainStep, KillStep, Killer

LEMMA RequestInvStep == TypeInv /\ KillInv /\ RequestInv /\ [Next]_vars => RequestInv'
<1> SUFFICES ASSUME TypeInv, KillInv, RequestInv, [Next]_vars PROVE RequestInv'
    OBVIOUS
<1> USE NamesDiffer, NameType
        DEF TypeInv, RequestInv, Working, Entry, Killing, Locked, Killer, Kind, Subscribe,
           Channel, Alive,
            Goto, vars, proxies, activation, threads, killing, registry, stopping
<1>1. ASSUME NEW i \in Incarnation, Start(i) PROVE RequestInv'
    BY <1>1 DEF Start
<1>2. ASSUME NEW i \in Incarnation, Ask(i) PROVE RequestInv'
    <2>1. pc["activator"] \in {"wait", "exit"} /\ pc' = pc
        BY <1>2 DEF Ask, ActivationUnlocked
    <2>2. state' = "REQUEST" /\ requester' = i /\ alive[i] = "none"
        BY <1>2 DEF Ask
    <2>3. process'[i] = "asked" /\ UNCHANGED <<alive, watched, outcome, victim>>
        BY <1>2 DEF Ask
    <2>4. outcome # "success"
        BY <2>1
    <2> QED
        BY <1>2, <2>1, <2>2, <2>3, <2>4 DEF Ask
<1>3. ASSUME NEW i \in Incarnation, Acknowledge(i) PROVE RequestInv'
    BY <1>3 DEF Acknowledge, Wake, ActivationUnlocked
<1>4. ASSUME NEW i \in Incarnation, Crash(i) PROVE RequestInv'
    BY <1>4 DEF Crash, Lives, Die, ActivationUnlocked
<1>5. ASSUME NEW i \in Incarnation, Quit(i) PROVE RequestInv'
    BY <1>5 DEF Quit, Lives, Die
<1>6. ASSUME NEW i \in Incarnation, AliveNotice(i) PROVE RequestInv'
    BY <1>6 DEF AliveNotice, proxy_thread_terminating_set
<1>7. ASSUME NEW i \in Incarnation, AliveAwake(i) PROVE RequestInv'
    BY <1>7 DEF AliveAwake, proxy_terminator_awake, Wake, TerminatorUnlocked
<1>8. ASSUME NEW x \in Killer, KillLock(x) PROVE RequestInv'
    BY <1>8 DEF KillLock
<1>9. ASSUME NEW x \in Killer, KillStop(x) PROVE RequestInv'
    BY <1>9 DEF KillStop, NextKind, thread_table_get, proxy_alive_stop
<1>10. ASSUME NEW x \in Killer, KillJoin(x) PROVE RequestInv'
    BY <1>10 DEF KillJoin, NextKind, thread_table_remove, shm_unlink
<1>11. ASSUME NEW x \in Killer, KillUnlock(x) PROVE RequestInv'
    BY <1>11 DEF KillUnlock
<1>12. ASSUME ActivatorIdle PROVE RequestInv'
    BY <1>12 DEF ActivatorIdle, ActivatorLoop
<1>13. ASSUME ActivatorExit PROVE RequestInv'
    BY <1>13 DEF ActivatorExit
<1>14. ASSUME ActivatorRequest PROVE RequestInv'
    BY <1>14 DEF ActivatorRequest, proxy_thread_zombie
<1>15. ASSUME ActivatorUnmapped PROVE RequestInv'
    BY <1>15 DEF ActivatorUnmapped, ActivatorLoop, shm_get
<1>16. ASSUME ActivatorCreate PROVE RequestInv'
    <2>1. requester \in Incarnation /\ alive[requester] = "none" /\ state = "REQUEST"
          /\ process[requester] \notin {"new", "started"}
        BY <1>16 DEF ActivatorCreate
    <2>2. /\ alive' = [alive EXCEPT ![requester] = "watch"]
          /\ watched' = [watched EXCEPT ![requester] = segment[NameOf(requester)]]
          /\ segment[NameOf(requester)] # None
          /\ state' = "SUCCESS" /\ outcome' = "success" /\ pc'["activator"] = "window"
          /\ UNCHANGED <<process, requester>>
        BY <1>16 DEF ActivatorCreate, shm_get
    <2> QED
        BY <2>1, <2>2
<1>17. ASSUME ActivatorRelock PROVE RequestInv'
    BY <1>17 DEF ActivatorRelock
<1>18. ASSUME ActivatorAnswer PROVE RequestInv'
    BY <1>18 DEF ActivatorAnswer
<1>19. ASSUME ActivatorRefused PROVE RequestInv'
    BY <1>19 DEF ActivatorRefused, ActivatorLoop
<1>20. ASSUME ActivatorStop PROVE RequestInv'
    BY <1>20 DEF ActivatorStop, proxy_alive_stop
<1>21. ASSUME ActivatorJoin PROVE RequestInv'
    BY <1>21 DEF ActivatorJoin, ActivatorLoop, shm_unlink
<1>22. ASSUME ActivatorSet PROVE RequestInv'
    BY <1>22 DEF ActivatorSet, NextKind, thread_table_set
<1>23. ASSUME ActivatorSignal PROVE RequestInv'
    BY <1>23 DEF ActivatorSignal, ActivatorLoop
<1>24. ASSUME TerminatorStart PROVE RequestInv'
    BY <1>24 DEF TerminatorStart
<1>25. ASSUME TerminatorAwake PROVE RequestInv'
    BY <1>25 DEF TerminatorAwake
<1>26. ASSUME TerminatorPop PROVE RequestInv'
    BY <1>26 DEF TerminatorPop
<1>27. ASSUME TerminatorSleep PROVE RequestInv'
    BY <1>27 DEF TerminatorSleep
<1>28. ASSUME TerminatorDrop PROVE RequestInv'
    BY <1>28 DEF TerminatorDrop, proxy_thread_terminating_drop
<1>29. ASSUME NEW n \in Name, MainKill(n) PROVE RequestInv'
    BY <1>29 DEF MainKill, proxy_thread_terminating_set
<1>30. ASSUME MainStop PROVE RequestInv'
    BY <1>30 DEF MainStop
<1>31. ASSUME MainDrop PROVE RequestInv'
    BY <1>31 DEF MainDrop, proxy_thread_terminating_drop
<1>32. ASSUME MainEndActivator PROVE RequestInv'
    BY <1>32 DEF MainEndActivator, Wake, ActivationUnlocked
<1>33. ASSUME MainEndTerminator PROVE RequestInv'
    BY <1>33 DEF MainEndTerminator, Wake, TerminatorUnlocked
<1>34. ASSUME MainCleanUp PROVE RequestInv'
    BY <1>34 DEF MainCleanUp
<1>35. ASSUME UNCHANGED vars PROVE RequestInv'
    BY <1>35
<1> QED
    <2> HIDE DEF TypeInv, RequestInv, Working, Entry, Killing, Locked, Killer, Kind,
                 Subscribe, Channel, Alive
    <2> QED
        BY <1>1, <1>2, <1>3, <1>4, <1>5, <1>6, <1>7, <1>8, <1>9, <1>10, <1>11, <1>12, <1>13,
           <1>14, <1>15, <1>16, <1>17, <1>18, <1>19, <1>20, <1>21, <1>22, <1>23, <1>24, <1>25,
           <1>26, <1>27, <1>28, <1>29, <1>30, <1>31, <1>32, <1>33, <1>34, <1>35
           DEF Next, ActivatorStep, TerminatorStep, MainStep, KillStep, Killer

LEMMA TableInvStep ==
    TypeInv /\ KillInv /\ RequestInv /\ FoundInv /\ TableInv /\ [Next]_vars
    => TableInv'
<1> SUFFICES ASSUME TypeInv, KillInv, RequestInv, FoundInv, TableInv, [Next]_vars
             PROVE  TableInv'
    OBVIOUS
<1> USE NamesDiffer, NameType
        DEF TypeInv, KillInv, RequestInv, FoundInv, TableInv, RegisteredRuns, RunningIsKnown,
            PendingRuns, ClearedIsFree, OnlyRequester, OneProcess, Pending, Cleared,
            Working, Entry, Killing, Locked, Killer, Kind, Subscribe, Channel, Alive,
            Goto, vars, proxies, activation, threads, killing, registry, stopping
<1>1. ASSUME NEW i \in Incarnation, Start(i) PROVE TableInv'
    BY <1>1 DEF Start
<1>2. ASSUME NEW i \in Incarnation, Ask(i) PROVE TableInv'
    BY <1>2 DEF Ask, Wake, ActivationUnlocked
<1>3. ASSUME NEW i \in Incarnation, Acknowledge(i) PROVE TableInv'
    BY <1>3 DEF Acknowledge, Wake, ActivationUnlocked
<1>4. ASSUME NEW i \in Incarnation, Crash(i) PROVE TableInv'
    BY <1>4 DEF Crash, Lives, Die, ActivationUnlocked
<1>5. ASSUME NEW i \in Incarnation, Quit(i) PROVE TableInv'
    BY <1>5 DEF Quit, Lives, Die
<1>6. ASSUME NEW i \in Incarnation, AliveNotice(i) PROVE TableInv'
    BY <1>6 DEF AliveNotice, proxy_thread_terminating_set
<1>7. ASSUME NEW i \in Incarnation, AliveAwake(i) PROVE TableInv'
    BY <1>7 DEF AliveAwake, proxy_terminator_awake, Wake, TerminatorUnlocked
<1>8. ASSUME NEW x \in Killer, KillLock(x) PROVE TableInv'
    BY <1>8 DEF KillLock
<1>9. ASSUME NEW x \in Killer, KillStop(x) PROVE TableInv'
    BY <1>9 DEF KillStop, NextKind, thread_table_get, proxy_alive_stop
<1>10. ASSUME NEW x \in Killer, KillJoin(x) PROVE TableInv'
    <2> DEFINE k == kind[x]  n == victim[x]  i == found[x][k]
    <2>1. /\ pc[x] = "join" /\ n \in Name /\ k \in Kind /\ kill_lock = x
          /\ pc' = [pc EXCEPT ![x] = IF k = Alive THEN "unlock" ELSE "join"]
          /\ kind' = [kind EXCEPT ![x] = IF k = Alive THEN Subscribe ELSE k + 1]
          /\ UNCHANGED <<requester, alive, found>>
        BY <1>10 DEF KillJoin, NextKind
    <2>2. \A l \in Kind : Pending(l)' <=> Pending(l)
        BY <2>1
    <2>3. pc["main"] # "exit" /\ pc'["main"] # "exit"
        BY <2>1
    <2>4. \A l \in Kind : Cleared(l)' => Cleared(l) \/ (x = "activator" /\ l = k)
        BY <2>1
    <2>5. x = "activator" => n = NameOf(requester)
        BY <2>1
    <2>6. CASE i = None
        <3>1. UNCHANGED <<table, context, running>>
            BY <1>10, <2>6 DEF KillJoin
        <3>2. \A l \in Kind : Cleared(l)' => table[l][NameOf(requester)] = None
            BY <2>1, <2>4, <2>5, <2>6
        <3>3. \A l \in Kind : pc'["activator"] = "decide" => pc["activator"] = "decide"
            BY <2>1
        <3> HIDE DEF Pending, Cleared
        <3> QED
            BY <2>1, <2>2, <2>3, <3>1, <3>2, <3>3
    <2>7. CASE i # None
        <3>1. table[k][n] = i
            BY <2>1, <2>7
        <3>14. /\ RegisteredRuns /\ RunningIsKnown /\ PendingRuns /\ ClearedIsFree
               /\ OnlyRequester /\ OneProcess
            OBVIOUS
        <3>15. /\ table \in [Kind -> [Name -> Entry]] /\ requester \in Entry /\ i \in Entry
               /\ running \subseteq Incarnation \X Kind
            BY <2>1
        <3>16. \A l \in Kind : Cleared(l) => requester \in Incarnation
            BY DEF Cleared, Pending
        <3>2. /\ table' = [table EXCEPT ![k][n] = None]
              /\ context' = context \ {<<i, k>>}
              /\ running' = running \ {<<i, k>>}
            BY <1>10, <2>7, <3>1 DEF KillJoin, thread_table_remove
        <3>17. k \in Kind /\ n \in Name
            BY <2>1
        <3>18. \A l \in Kind : Pending(l) => Cleared(l)
            BY DEF Cleared
        <3>13. requester # None => NameOf(requester) \in Name
            BY <3>15
        <3>6. pc'["activator"] = "decide" => pc["activator"] = "decide"
            BY <2>1
        <3> HIDE DEF TypeInv, KillInv, RequestInv, FoundInv, TableInv, RegisteredRuns,
                     RunningIsKnown, PendingRuns, ClearedIsFree, OnlyRequester, OneProcess,
                     Pending, Cleared, i, k, n
        <3>3. NameOf(i) = n /\ i \in Incarnation
            BY <2>7, <3>1, <3>14, <3>15, <3>17 DEF RegisteredRuns
        <3>4. ~(Pending(k) /\ requester = i)
            BY <2>7, <3>1, <3>3, <3>14, <3>17, <3>18 DEF ClearedIsFree
        <3>5. \A l \in Kind, m \in Name :
                 table'[l][m] = IF l = k /\ m = n THEN None ELSE table[l][m]
            BY <3>2, <3>15, <3>17
        <3>7. \A l \in Kind, m \in Name : table'[l][m] # None =>
                 NameOf(table'[l][m]) = m /\ <<table'[l][m], l>> \in running'
            <4> SUFFICES ASSUME NEW l \in Kind, NEW m \in Name, table'[l][m] # None
                         PROVE  NameOf(table'[l][m]) = m /\ <<table'[l][m], l>> \in running'
                OBVIOUS
            <4>1. table'[l][m] = table[l][m] /\ ~(l = k /\ m = n)
                BY <3>5
            <4>2. NameOf(table[l][m]) = m /\ <<table[l][m], l>> \in running
                BY <4>1, <3>14 DEF RegisteredRuns
            <4>3. <<table[l][m], l>> # <<i, k>>
                BY <4>1, <4>2, <3>3
            <4> QED
                BY <4>1, <4>2, <4>3, <3>2
        <3>8. \A j \in Incarnation, l \in Kind : <<j, l>> \in running' =>
                 /\ alive'[j] # "none"
                 /\ pc'["main"] # "exit" =>
                       /\ <<j, l>> \in context'
                       /\ (table'[l][NameOf(j)] = j \/ (j = requester' /\ Pending(l)'))
            <4> SUFFICES ASSUME NEW j \in Incarnation, NEW l \in Kind, <<j, l>> \in running'
                         PROVE  /\ alive[j] # "none"
                                /\ <<j, l>> \in context'
                                /\ (table'[l][NameOf(j)] = j \/ (j = requester /\ Pending(l)))
                BY <2>1, <2>2
            <4>1. <<j, l>> \in running /\ <<j, l>> # <<i, k>>
                BY <3>2
            <4>2. table[l][NameOf(j)] = j \/ (j = requester /\ Pending(l))
                BY <4>1, <2>3, <3>14 DEF RunningIsKnown
            <4>3. table[l][NameOf(j)] = j => ~(l = k /\ NameOf(j) = n)
                BY <4>1, <3>1
            <4>4. alive[j] # "none" /\ <<j, l>> \in context
                BY <4>1, <2>3, <3>14 DEF RunningIsKnown
            <4> QED
                BY <4>1, <4>2, <4>3, <4>4, <3>2, <3>5
        <3>9. \A l \in Kind : Pending(l)' => <<requester', l>> \in running'
            <4> SUFFICES ASSUME NEW l \in Kind, Pending(l) PROVE <<requester, l>> \in running'
                BY <2>1, <2>2
            <4>1. <<requester, l>> \in running
                BY <3>14 DEF PendingRuns
            <4>2. <<requester, l>> # <<i, k>>
                BY <3>4
            <4> QED
                BY <3>2, <4>1, <4>2
        <3>10. \A l \in Kind : Cleared(l)' => table'[l][NameOf(requester')] = None
            <4> SUFFICES ASSUME NEW l \in Kind, Cleared(l)'
                         PROVE  table'[l][NameOf(requester)] = None
                BY <2>1
            <4>1. CASE Cleared(l)
                <5>1. table[l][NameOf(requester)] = None /\ requester \in Incarnation
                    BY <4>1, <3>14, <3>16 DEF ClearedIsFree
                <5> QED
                    BY <5>1, <3>5
            <4>2. CASE x = "activator" /\ l = k
                BY <4>2, <2>5, <3>5, <3>17
            <4> QED
                BY <2>4, <4>1, <4>2
        <3>11. \A l \in Kind :
                  pc'["activator"] = "decide" /\ requester' # None /\ alive'[requester'] # "none" =>
                      table'[l][NameOf(requester')] \in {None, requester'}
            <4> SUFFICES ASSUME NEW l \in Kind, pc["activator"] = "decide", requester # None,
                                alive[requester] # "none"
                         PROVE  table'[l][NameOf(requester)] \in {None, requester}
                BY <2>1, <3>6
            <4>1. table[l][NameOf(requester)] \in {None, requester}
                BY <3>14 DEF OnlyRequester
            <4> QED
                BY <3>5, <3>13, <4>1
        <3>12. \A l, m \in Kind, p \in Name :
                  table'[l][p] # None /\ table'[m][p] # None => table'[l][p] = table'[m][p]
            BY <3>5, <3>14 DEF OneProcess
        <3> QED
            BY <3>7, <3>8, <3>9, <3>10, <3>11, <3>12
               DEF TableInv, RegisteredRuns, RunningIsKnown, PendingRuns, ClearedIsFree,
                   OnlyRequester, OneProcess
    <2> QED
        BY <2>6, <2>7
<1>11. ASSUME NEW x \in Killer, KillUnlock(x) PROVE TableInv'
    BY <1>11 DEF KillUnlock
<1>12. ASSUME ActivatorIdle PROVE TableInv'
    BY <1>12 DEF ActivatorIdle, ActivatorLoop
<1>13. ASSUME ActivatorExit PROVE TableInv'
    BY <1>13 DEF ActivatorExit
<1>14. ASSUME ActivatorRequest PROVE TableInv'
    BY <1>14 DEF ActivatorRequest, proxy_thread_zombie
<1>15. ASSUME ActivatorUnmapped PROVE TableInv'
    BY <1>15 DEF ActivatorUnmapped, ActivatorLoop, shm_get
<1>16. ASSUME ActivatorCreate PROVE TableInv'
    BY <1>16 DEF ActivatorCreate, shm_get
<1>17. ASSUME ActivatorRelock PROVE TableInv'
    BY <1>17 DEF ActivatorRelock
<1>18. ASSUME ActivatorAnswer PROVE TableInv'
    BY <1>18 DEF ActivatorAnswer
<1>19. ASSUME ActivatorRefused PROVE TableInv'
    BY <1>19 DEF ActivatorRefused, ActivatorLoop
<1>20. ASSUME ActivatorStop PROVE TableInv'
    BY <1>20 DEF ActivatorStop, proxy_alive_stop
<1>21. ASSUME ActivatorJoin PROVE TableInv'
    BY <1>21 DEF ActivatorJoin, ActivatorLoop, shm_unlink
<1>22. ASSUME ActivatorSet PROVE TableInv'
    <2> DEFINE r == requester  k == kind["activator"]
    <2>1. /\ r \in Incarnation /\ alive[r] # "none" /\ k \in Kind
          /\ pc["activator"] = "decide" /\ outcome = "success"
        BY <1>22 DEF ActivatorSet, RequestInv, Working
    <2>2. table[k][NameOf(r)] = None
        BY <2>1 DEF TableInv, Cleared, Pending
    <2>3. table' = [table EXCEPT ![k][NameOf(r)] = r]
        BY <1>22 DEF ActivatorSet, thread_table_set
    <2>4. /\ pc' = [pc EXCEPT !["activator"] = IF k = Alive THEN "signal" ELSE "decide"]
          /\ kind' = [kind EXCEPT !["activator"] = IF k = Alive THEN Subscribe ELSE k + 1]
          /\ UNCHANGED <<requester, alive, running, found>>
        BY <1>22 DEF ActivatorSet, NextKind
    <2>5. context' = context
        BY <1>22, <2>2 DEF ActivatorSet, thread_table_set
    <2>6. \A l \in Kind : Cleared(l)' <=> (k < l /\ Pending(l))
        BY <2>1, <2>4
    <2>7. \A l \in Kind : Pending(l)' <=> k < l
        BY <2>1, <2>4
    <2>8. \A l \in Kind : Pending(l) <=> k <= l
        BY <2>1
    <2>17. /\ RegisteredRuns /\ RunningIsKnown /\ PendingRuns /\ ClearedIsFree
           /\ OnlyRequester /\ OneProcess
        OBVIOUS
    <2>18. NameOf(r) \in Name /\ r # None
        BY <2>1
    <2>10. \A l \in Kind, n \in Name :
              table'[l][n] = IF l = k /\ n = NameOf(r) THEN r ELSE table[l][n]
        BY <2>1, <2>3
    <2>11. \A l \in Kind : table[l][NameOf(r)] \in {None, r}
        BY <2>1
    <2>19. pc["main"] # "exit"
        BY <2>1
    <2>20. k \in Nat /\ Kind \subseteq Nat
        BY <2>1
    <2> HIDE DEF TypeInv, KillInv, RequestInv, FoundInv, TableInv, RegisteredRuns,
                 RunningIsKnown, PendingRuns, ClearedIsFree, OnlyRequester, OneProcess,
                 Pending, Cleared, r, k, Kind
    <2>9. <<r, k>> \in running
        BY <2>1, <2>8, <2>17, <2>20 DEF PendingRuns, r
    <2>12. \A l \in Kind, n \in Name : table'[l][n] # None =>
              NameOf(table'[l][n]) = n /\ <<table'[l][n], l>> \in running'
        <3> SUFFICES ASSUME NEW l \in Kind, NEW n \in Name, table'[l][n] # None
                     PROVE  NameOf(table'[l][n]) = n /\ <<table'[l][n], l>> \in running
            BY <2>4
        <3> QED
            BY <2>9, <2>10, <2>17 DEF RegisteredRuns
    <2>13. \A i \in Incarnation, l \in Kind : <<i, l>> \in running' =>
              /\ alive'[i] # "none"
              /\ pc'["main"] # "exit" =>
                    /\ <<i, l>> \in context'
                    /\ (table'[l][NameOf(i)] = i \/ (i = requester' /\ Pending(l)'))
        <3> SUFFICES ASSUME NEW i \in Incarnation, NEW l \in Kind, <<i, l>> \in running
                     PROVE  /\ alive[i] # "none"
                            /\ <<i, l>> \in context
                            /\ (table'[l][NameOf(i)] = i \/ (i = r /\ k < l))
            BY <2>4, <2>5, <2>7 DEF r
        <3>1. /\ alive[i] # "none" /\ <<i, l>> \in context
              /\ (table[l][NameOf(i)] = i \/ (i = r /\ k <= l))
            BY <2>8, <2>17, <2>19 DEF RunningIsKnown, r
        <3>2. CASE table[l][NameOf(i)] = i
            BY <3>1, <3>2, <2>2, <2>10
        <3>3. CASE i = r /\ k <= l
            BY <3>1, <3>3, <2>10, <2>18, <2>20
        <3> QED
            BY <3>1, <3>2, <3>3
    <2>14. \A l \in Kind : Pending(l)' => <<requester', l>> \in running'
        BY <2>4, <2>7, <2>8, <2>17, <2>20 DEF PendingRuns
    <2>15. \A l \in Kind : Cleared(l)' => table'[l][NameOf(requester')] = None
        <3> SUFFICES ASSUME NEW l \in Kind, k < l, Pending(l)
                     PROVE  table'[l][NameOf(r)] = None
            BY <2>4, <2>6 DEF r
        <3>1. l # k
            BY <2>20
        <3> QED
            BY <2>10, <2>17, <2>18, <3>1 DEF ClearedIsFree, Cleared, r
    <2>16. \A l, m \in Kind, n \in Name :
              table'[l][n] # None /\ table'[m][n] # None => table'[l][n] = table'[m][n]
        BY <2>10, <2>11, <2>17 DEF OneProcess
    <2>21. \A l \in Kind : table'[l][NameOf(requester')] \in {None, requester'}
        BY <2>4, <2>10, <2>11, <2>18 DEF r
    <2> QED
        BY <2>12, <2>13, <2>14, <2>15, <2>16, <2>21
           DEF TableInv, RegisteredRuns, RunningIsKnown, PendingRuns, ClearedIsFree,
               OnlyRequester, OneProcess
<1>23. ASSUME ActivatorSignal PROVE TableInv'
    BY <1>23 DEF ActivatorSignal, ActivatorLoop
<1>24. ASSUME TerminatorStart PROVE TableInv'
    BY <1>24 DEF TerminatorStart
<1>25. ASSUME TerminatorAwake PROVE TableInv'
    BY <1>25 DEF TerminatorAwake
<1>26. ASSUME TerminatorPop PROVE TableInv'
    BY <1>26 DEF TerminatorPop
<1>27. ASSUME TerminatorSleep PROVE TableInv'
    BY <1>27 DEF TerminatorSleep
<1>28. ASSUME TerminatorDrop PROVE TableInv'
    BY <1>28 DEF TerminatorDrop, proxy_thread_terminating_drop
<1>29. ASSUME NEW n \in Name, MainKill(n) PROVE TableInv'
    BY <1>29 DEF MainKill, proxy_thread_terminating_set
<1>30. ASSUME MainStop PROVE TableInv'
    BY <1>30 DEF MainStop
<1>31. ASSUME MainDrop PROVE TableInv'
    BY <1>31 DEF MainDrop, proxy_thread_terminating_drop
<1>32. ASSUME MainEndActivator PROVE TableInv'
    BY <1>32 DEF MainEndActivator, Wake, ActivationUnlocked
<1>33. ASSUME MainEndTerminator PROVE TableInv'
    BY <1>33 DEF MainEndTerminator, Wake, TerminatorUnlocked
<1>34. ASSUME MainCleanUp PROVE TableInv'
    BY <1>34 DEF MainCleanUp
<1>35. ASSUME UNCHANGED vars PROVE TableInv'
    BY <1>35
<1> QED
    <2> HIDE DEF TypeInv, KillInv, RequestInv, FoundInv, TableInv, RegisteredRuns,
                 RunningIsKnown,
            PendingRuns, ClearedIsFree, OnlyRequester, OneProcess, Pending, Cleared,
            Working, Entry, Killing, Locked, Killer, Kind, Subscribe, Channel, Alive
    <2> QED
        BY <1>1, <1>2, <1>3, <1>4, <1>5, <1>6, <1>7, <1>8, <1>9, <1>10, <1>11, <1>12, <1>13,
           <1>14, <1>15, <1>16, <1>17, <1>18, <1>19, <1>20, <1>21, <1>22, <1>23, <1>24, <1>25,
           <1>26, <1>27, <1>28, <1>29, <1>30, <1>31, <1>32, <1>33, <1>34, <1>35
           DEF Next, ActivatorStep, TerminatorStep, MainStep, KillStep, Killer

LEMMA FoundInvStep ==
    TypeInv /\ KillInv /\ RequestInv /\ TableInv /\ FoundInv /\ [Next]_vars
    => FoundInv'
<1> SUFFICES ASSUME TypeInv, KillInv, RequestInv, TableInv, FoundInv, [Next]_vars
             PROVE  FoundInv'
    OBVIOUS
<1> USE NamesDiffer, NameType
        DEF TypeInv, KillInv, FoundInv, TableInv, RegisteredRuns, RunningIsKnown,
            PendingRuns, ClearedIsFree, OnlyRequester, OneProcess, Entry, Killing, Locked,
            Killer, Kind, Subscribe, Channel, Alive,
            Goto, vars, proxies, activation, threads, killing, registry, stopping
<1>1. ASSUME NEW i \in Incarnation, Start(i) PROVE FoundInv'
    BY <1>1 DEF Start
<1>2. ASSUME NEW i \in Incarnation, Ask(i) PROVE FoundInv'
    BY <1>2 DEF Ask, Wake, ActivationUnlocked
<1>3. ASSUME NEW i \in Incarnation, Acknowledge(i) PROVE FoundInv'
    BY <1>3 DEF Acknowledge, Wake, ActivationUnlocked
<1>4. ASSUME NEW i \in Incarnation, Crash(i) PROVE FoundInv'
    BY <1>4 DEF Crash, Lives, Die, ActivationUnlocked
<1>5. ASSUME NEW i \in Incarnation, Quit(i) PROVE FoundInv'
    BY <1>5 DEF Quit, Lives, Die
<1>6. ASSUME NEW i \in Incarnation, AliveNotice(i) PROVE FoundInv'
    BY <1>6 DEF AliveNotice, proxy_thread_terminating_set
<1>7. ASSUME NEW i \in Incarnation, AliveAwake(i) PROVE FoundInv'
    BY <1>7 DEF AliveAwake, proxy_terminator_awake, Wake, TerminatorUnlocked
<1>8. ASSUME NEW x \in Killer, KillLock(x) PROVE FoundInv'
    BY <1>8 DEF KillLock
<1>9. ASSUME NEW x \in Killer, KillStop(x) PROVE FoundInv'
    BY <1>9 DEF KillStop, NextKind, thread_table_get, proxy_alive_stop
<1>10. ASSUME NEW x \in Killer, KillJoin(x) PROVE FoundInv'
    BY <1>10 DEF KillJoin, NextKind, thread_table_remove, shm_unlink
<1>11. ASSUME NEW x \in Killer, KillUnlock(x) PROVE FoundInv'
    BY <1>11 DEF KillUnlock
<1>12. ASSUME ActivatorIdle PROVE FoundInv'
    BY <1>12 DEF ActivatorIdle, ActivatorLoop
<1>13. ASSUME ActivatorExit PROVE FoundInv'
    BY <1>13 DEF ActivatorExit
<1>14. ASSUME ActivatorRequest PROVE FoundInv'
    BY <1>14 DEF ActivatorRequest, proxy_thread_zombie
<1>15. ASSUME ActivatorUnmapped PROVE FoundInv'
    BY <1>15 DEF ActivatorUnmapped, ActivatorLoop, shm_get
<1>16. ASSUME ActivatorCreate PROVE FoundInv'
    BY <1>16 DEF ActivatorCreate, shm_get
<1>17. ASSUME ActivatorRelock PROVE FoundInv'
    BY <1>17 DEF ActivatorRelock
<1>18. ASSUME ActivatorAnswer PROVE FoundInv'
    BY <1>18 DEF ActivatorAnswer
<1>19. ASSUME ActivatorRefused PROVE FoundInv'
    BY <1>19 DEF ActivatorRefused, ActivatorLoop
<1>20. ASSUME ActivatorStop PROVE FoundInv'
    BY <1>20 DEF ActivatorStop, proxy_alive_stop
<1>21. ASSUME ActivatorJoin PROVE FoundInv'
    BY <1>21 DEF ActivatorJoin, ActivatorLoop, shm_unlink
<1>22. ASSUME ActivatorSet PROVE FoundInv'
    <2> DEFINE r == requester  k == kind["activator"]
    <2>1. /\ r \in Incarnation /\ alive[r] # "none" /\ k \in Kind
          /\ pc["activator"] = "decide" /\ outcome = "success"
        BY <1>22 DEF ActivatorSet, RequestInv, Working
    <2>2. table[k][NameOf(r)] = None
        BY <2>1 DEF TableInv, Cleared, Pending
    <2>3. table' = [table EXCEPT ![k][NameOf(r)] = r]
        BY <1>22 DEF ActivatorSet, thread_table_set
    <2>4. \A x \in Killer, l \in Kind : found[x][l] # None => x # "activator"
        BY <2>1
    <2>5. /\ UNCHANGED <<found, victim>>
          /\ \A x \in Killer : x # "activator" => pc'[x] = pc[x] /\ kind'[x] = kind[x]
        BY <1>22 DEF ActivatorSet, NextKind
    <2> QED
        BY <2>1, <2>2, <2>3, <2>4, <2>5
<1>23. ASSUME ActivatorSignal PROVE FoundInv'
    BY <1>23 DEF ActivatorSignal, ActivatorLoop
<1>24. ASSUME TerminatorStart PROVE FoundInv'
    BY <1>24 DEF TerminatorStart
<1>25. ASSUME TerminatorAwake PROVE FoundInv'
    BY <1>25 DEF TerminatorAwake
<1>26. ASSUME TerminatorPop PROVE FoundInv'
    BY <1>26 DEF TerminatorPop
<1>27. ASSUME TerminatorSleep PROVE FoundInv'
    BY <1>27 DEF TerminatorSleep
<1>28. ASSUME TerminatorDrop PROVE FoundInv'
    BY <1>28 DEF TerminatorDrop, proxy_thread_terminating_drop
<1>29. ASSUME NEW n \in Name, MainKill(n) PROVE FoundInv'
    BY <1>29 DEF MainKill, proxy_thread_terminating_set
<1>30. ASSUME MainStop PROVE FoundInv'
    BY <1>30 DEF MainStop
<1>31. ASSUME MainDrop PROVE FoundInv'
    BY <1>31 DEF MainDrop, proxy_thread_terminating_drop
<1>32. ASSUME MainEndActivator PROVE FoundInv'
    BY <1>32 DEF MainEndActivator, Wake, ActivationUnlocked
<1>33. ASSUME MainEndTerminator PROVE FoundInv'
    BY <1>33 DEF MainEndTerminator, Wake, TerminatorUnlocked
<1>34. ASSUME MainCleanUp PROVE FoundInv'
    BY <1>34 DEF MainCleanUp
<1>35. ASSUME UNCHANGED vars PROVE FoundInv'
    BY <1>35
<1> QED
    <2> HIDE DEF TypeInv, KillInv, FoundInv, TableInv, RegisteredRuns, RunningIsKnown,
            PendingRuns, ClearedIsFree, OnlyRequester, OneProcess, Entry, Killing, Locked,
            Killer, Kind, Subscribe, Channel, Alive
    <2> QED
        BY <1>1, <1>2, <1>3, <1>4, <1>5, <1>6, <1>7, <1>8, <1>9, <1>10, <1>11, <1>12, <1>13,
           <1>14, <1>15, <1>16, <1>17, <1>18, <1>19, <1>20, <1>21, <1>22, <1>23, <1>24, <1>25,
           <1>26, <1>27, <1>28, <1>29, <1>30, <1>31, <1>32, <1>33, <1>34, <1>35
           DEF Next, ActivatorStep, TerminatorStep, MainStep, KillStep, Killer

LEMMA OrderInvStep ==
    TypeInv /\ KillInv /\ RequestInv /\ TableInv /\ OrderInv /\ [Next]_vars
    => OrderInv'
<1> SUFFICES ASSUME TypeInv, KillInv, RequestInv, TableInv, OrderInv, [Next]_vars
             PROVE  OrderInv'
    OBVIOUS
<1> USE NamesDiffer, NameType, NumberType
        DEF TypeInv, KillInv, RequestInv, TableInv, RegisteredRuns, RunningIsKnown,
            PendingRuns, ClearedIsFree, OrderInv, Succession,
            ServedInTurn, LastServed, Pending, Working, Entry, Killing, Locked, Killer,
            Kind, Subscribe, Channel, Alive,
            Goto, vars, proxies, activation, threads, killing, registry, stopping
<1>1. ASSUME NEW i \in Incarnation, Start(i) PROVE OrderInv'
    <2>1. /\ process[i] = "new" /\ process' = [process EXCEPT ![i] = "started"]
          /\ UNCHANGED <<requester, served, state, alive, pc, kind>>
        BY <1>1 DEF Start
    <2>2. \A j \in Incarnation : NameOf(j) = NameOf(i) /\ NumberOf(j) < NumberOf(i) =>
              process[j] = "dead"
        BY <1>1, Predecessor DEF Start
    <2>3. Succession'
        BY <2>1, <2>2
    <2> QED
        BY <2>1, <2>3
<1>2. ASSUME NEW i \in Incarnation, Ask(i) PROVE OrderInv'
    <2>1. /\ process[i] = "started" /\ process' = [process EXCEPT ![i] = "asked"]
          /\ requester' = i /\ pc["activator"] \in {"wait", "exit"}
          /\ UNCHANGED <<served, alive, pc, kind>>
        BY <1>2 DEF Ask, ActivationUnlocked
    <2>2. \A j \in served : NameOf(j) = NameOf(i) => NumberOf(j) < NumberOf(i)
        <3> SUFFICES ASSUME NEW j \in served, NameOf(j) = NameOf(i)
                     PROVE  NumberOf(j) < NumberOf(i)
            OBVIOUS
        <3>1. j \in Incarnation /\ process[j] \notin {"new", "started"}
            OBVIOUS
        <3>2. NumberOf(j) # NumberOf(i)
            BY <2>1, <3>1, SameIncarnation
        <3>3. ~(NumberOf(i) < NumberOf(j))
            BY <2>1, <3>1
        <3> QED
            BY <3>1, <3>2, <3>3
    <2>3. Succession'
        BY <2>1
    <2>4. \A k \in Kind : ~Pending(k)'
        BY <2>1
    <2> HIDE DEF Pending
    <2>5. ServedInTurn'
        BY <2>1, <2>2, <2>4
    <2> QED
        BY <2>1, <2>3, <2>5
<1>3. ASSUME NEW i \in Incarnation, Acknowledge(i) PROVE OrderInv'
    BY <1>3 DEF Acknowledge, Wake, ActivationUnlocked
<1>4. ASSUME NEW i \in Incarnation, Crash(i) PROVE OrderInv'
    BY <1>4 DEF Crash, Lives, Die, ActivationUnlocked
<1>5. ASSUME NEW i \in Incarnation, Quit(i) PROVE OrderInv'
    BY <1>5 DEF Quit, Lives, Die
<1>6. ASSUME NEW i \in Incarnation, AliveNotice(i) PROVE OrderInv'
    BY <1>6 DEF AliveNotice, proxy_thread_terminating_set
<1>7. ASSUME NEW i \in Incarnation, AliveAwake(i) PROVE OrderInv'
    BY <1>7 DEF AliveAwake, proxy_terminator_awake, Wake, TerminatorUnlocked
<1>8. ASSUME NEW x \in Killer, KillLock(x) PROVE OrderInv'
    BY <1>8 DEF KillLock
<1>9. ASSUME NEW x \in Killer, KillStop(x) PROVE OrderInv'
    BY <1>9 DEF KillStop, NextKind, thread_table_get, proxy_alive_stop
<1>10. ASSUME NEW x \in Killer, KillJoin(x) PROVE OrderInv'
    BY <1>10 DEF KillJoin, NextKind, thread_table_remove, shm_unlink
<1>11. ASSUME NEW x \in Killer, KillUnlock(x) PROVE OrderInv'
    BY <1>11 DEF KillUnlock
<1>12. ASSUME ActivatorIdle PROVE OrderInv'
    BY <1>12 DEF ActivatorIdle, ActivatorLoop
<1>13. ASSUME ActivatorExit PROVE OrderInv'
    BY <1>13 DEF ActivatorExit
<1>14. ASSUME ActivatorRequest PROVE OrderInv'
    BY <1>14 DEF ActivatorRequest, proxy_thread_zombie
<1>15. ASSUME ActivatorUnmapped PROVE OrderInv'
    BY <1>15 DEF ActivatorUnmapped, ActivatorLoop, shm_get
<1>16. ASSUME ActivatorCreate PROVE OrderInv'
    BY <1>16 DEF ActivatorCreate, shm_get
<1>17. ASSUME ActivatorRelock PROVE OrderInv'
    BY <1>17 DEF ActivatorRelock
<1>18. ASSUME ActivatorAnswer PROVE OrderInv'
    BY <1>18 DEF ActivatorAnswer
<1>19. ASSUME ActivatorRefused PROVE OrderInv'
    BY <1>19 DEF ActivatorRefused, ActivatorLoop
<1>20. ASSUME ActivatorStop PROVE OrderInv'
    BY <1>20 DEF ActivatorStop, proxy_alive_stop
<1>21. ASSUME ActivatorJoin PROVE OrderInv'
    BY <1>21 DEF ActivatorJoin, ActivatorLoop, shm_unlink
<1>22. ASSUME ActivatorSet PROVE OrderInv'
    BY <1>22 DEF ActivatorSet, NextKind, thread_table_set
<1>23. ASSUME ActivatorSignal PROVE OrderInv'
    BY <1>23 DEF ActivatorSignal, ActivatorLoop
<1>24. ASSUME TerminatorStart PROVE OrderInv'
    BY <1>24 DEF TerminatorStart
<1>25. ASSUME TerminatorAwake PROVE OrderInv'
    BY <1>25 DEF TerminatorAwake
<1>26. ASSUME TerminatorPop PROVE OrderInv'
    BY <1>26 DEF TerminatorPop
<1>27. ASSUME TerminatorSleep PROVE OrderInv'
    BY <1>27 DEF TerminatorSleep
<1>28. ASSUME TerminatorDrop PROVE OrderInv'
    BY <1>28 DEF TerminatorDrop, proxy_thread_terminating_drop
<1>29. ASSUME NEW n \in Name, MainKill(n) PROVE OrderInv'
    BY <1>29 DEF MainKill, proxy_thread_terminating_set
<1>30. ASSUME MainStop PROVE OrderInv'
    BY <1>30 DEF MainStop
<1>31. ASSUME MainDrop PROVE OrderInv'
    BY <1>31 DEF MainDrop, proxy_thread_terminating_drop
<1>32. ASSUME MainEndActivator PROVE OrderInv'
    BY <1>32 DEF MainEndActivator, Wake, ActivationUnlocked
<1>33. ASSUME MainEndTerminator PROVE OrderInv'
    BY <1>33 DEF MainEndTerminator, Wake, TerminatorUnlocked
<1>34. ASSUME MainCleanUp PROVE OrderInv'
    BY <1>34 DEF MainCleanUp
<1>35. ASSUME UNCHANGED vars PROVE OrderInv'
    BY <1>35
<1> QED
    <2> HIDE DEF TypeInv, KillInv, RequestInv, TableInv, RegisteredRuns, RunningIsKnown,
            PendingRuns, ClearedIsFree, OrderInv, Succession,
            ServedInTurn, LastServed, Pending, Working, Entry, Killing, Locked, Killer,
            Kind, Subscribe, Channel, Alive
    <2> QED
        BY <1>1, <1>2, <1>3, <1>4, <1>5, <1>6, <1>7, <1>8, <1>9, <1>10, <1>11, <1>12, <1>13,
           <1>14, <1>15, <1>16, <1>17, <1>18, <1>19, <1>20, <1>21, <1>22, <1>23, <1>24, <1>25,
           <1>26, <1>27, <1>28, <1>29, <1>30, <1>31, <1>32, <1>33, <1>34, <1>35
           DEF Next, ActivatorStep, TerminatorStep, MainStep, KillStep, Killer

LEMMA OneAliveThread ==
    ASSUME TypeInv, OneIncarnation, NEW i \in Incarnation, NEW j \in Incarnation,
           <<i, Alive>> \in running, <<j, Alive>> \in running, NameOf(i) = NameOf(j)
    PROVE  i = j
BY DEF OneIncarnation, TypeInv, Kind, Alive

LEMMA DeathInvStep ==
    TypeInv /\ KillInv /\ RequestInv /\ TableInv /\ FoundInv /\ OneIncarnation /\
    DeathInv /\ [Next]_vars
    => DeathInv'
<1> SUFFICES ASSUME TypeInv, KillInv, RequestInv, TableInv, FoundInv, OneIncarnation, DeathInv,
                    [Next]_vars
             PROVE  DeathInv'
    OBVIOUS
<1> USE NamesDiffer, NameType
        DEF TypeInv, KillInv, RequestInv, TableInv, RegisteredRuns, RunningIsKnown,
            PendingRuns, ClearedIsFree, FoundInv,
            OneIncarnation, OwnSegments, DeathInv, Watches, Notes, NotedAreDead,
            Queued, FoundAreDying, RequesterIsNew, Pending, Cleared, Entry, Killing, Locked,
            Killer, Kind, Subscribe, Channel, Alive,
            Goto, vars, proxies, activation, threads, killing, registry, stopping
<1>1. ASSUME NEW i \in Incarnation, Start(i) PROVE DeathInv'
    BY <1>1 DEF Start
<1>2. ASSUME NEW i \in Incarnation, Ask(i) PROVE DeathInv'
    BY <1>2 DEF Ask, Wake, ActivationUnlocked
<1>3. ASSUME NEW i \in Incarnation, Acknowledge(i) PROVE DeathInv'
    BY <1>3 DEF Acknowledge, Wake, ActivationUnlocked
<1>4. ASSUME NEW i \in Incarnation, Crash(i) PROVE DeathInv'
    BY <1>4 DEF Crash, Lives, Die, ActivationUnlocked
<1>5. ASSUME NEW i \in Incarnation, Quit(i) PROVE DeathInv'
    BY <1>5 DEF Quit, Lives, Die
<1>6. ASSUME NEW i \in Incarnation, AliveNotice(i) PROVE DeathInv'
    <2> SUFFICES ASSUME OwnSegments, pc["main"] = "run" PROVE DeathInv'
        BY <1>6 DEF AliveNotice
    <2> DEFINE n == NameOf(i)
    <2>1. /\ alive[i] = "watch" /\ alive' = [alive EXCEPT ![i] = "noted"]
          /\ zombies' = zombies \union {n}
          /\ UNCHANGED <<watched, process, queue, victim, pc, running, found, segment,
                          requester,
                         table, kind>>
        BY <1>6 DEF AliveNotice, proxy_thread_terminating_set
    <2>2. process[i] = "dead"
        BY <1>6 DEF AliveNotice
    <2>9. Watches /\ Notes /\ NotedAreDead /\ Queued /\ FoundAreDying /\ RequesterIsNew
        OBVIOUS
    <2>3. alive \in [Incarnation -> {"none", "watch", "noted", "exited"}]
        OBVIOUS
    <2>4. pc["activator"] \in Killing /\ <<i, Alive>> \in running => table[Alive][NameOf(i)] = i
        <3> SUFFICES ASSUME pc["activator"] \in Killing, <<i, Alive>> \in running
                     PROVE  table[Alive][NameOf(i)] = i
            OBVIOUS
        <3>1. ~Pending(Alive)
            OBVIOUS
        <3> HIDE DEF Pending
        <3>2. Alive \in Kind /\ RunningIsKnown
            OBVIOUS
        <3> QED
            BY <3>1, <3>2
    <2>14. i # None
        OBVIOUS
    <2>5. \A k \in Kind : found["terminator"][k] # None => found["terminator"][k] \in Incarnation
        OBVIOUS
    <2> HIDE DEF TypeInv, KillInv, RequestInv, TableInv, RegisteredRuns, RunningIsKnown,
                 PendingRuns, ClearedIsFree, FoundInv, OneIncarnation, OwnSegments, DeathInv,
                 Watches, Notes, NotedAreDead, Queued, FoundAreDying, RequesterIsNew, Pending,
                 Cleared, Kind, Alive, Killing, Locked
    <2>6. n \notin zombies /\ <<i, Alive>> \in running
        BY <2>1, <2>9 DEF Watches
    <2>7. Watches'
        BY <2>1, <2>3, <2>6, <2>9, OneAliveThread DEF Watches
    <2>8. Notes'
        BY <2>1, <2>3, <2>6, <2>9 DEF Notes, Queued
    <2>10. NotedAreDead'
        BY <2>1, <2>2, <2>3, <2>9 DEF NotedAreDead
    <2>11. Queued'
        BY <2>1, <2>9 DEF Queued
    <2>12. FoundAreDying'
        BY <2>1, <2>3, <2>5, <2>9 DEF FoundAreDying
    <2>13. RequesterIsNew'
        BY <2>1, <2>4, <2>6, <2>9, <2>14 DEF RequesterIsNew
    <2> QED
        BY <2>7, <2>8, <2>10, <2>11, <2>12, <2>13 DEF DeathInv
<1>7. ASSUME NEW i \in Incarnation, AliveAwake(i) PROVE DeathInv'
    <2> SUFFICES ASSUME OwnSegments, pc["main"] = "run" PROVE DeathInv'
        BY <1>7 DEF AliveAwake
    <2> DEFINE n == NameOf(i)
    <2>1. /\ alive[i] = "noted" /\ alive' = [alive EXCEPT ![i] = "exited"]
          /\ queue' = Append(queue, n)
          /\ pc["terminator"] \notin Killing
          /\ UNCHANGED <<watched, process, zombies, victim, pc, running, found, segment,
                          requester,
                         table, kind>>
        BY <1>7 DEF AliveAwake, proxy_terminator_awake, TerminatorUnlocked
    <2>9. Watches /\ Notes /\ NotedAreDead /\ Queued /\ FoundAreDying /\ RequesterIsNew
        OBVIOUS
    <2>2. /\ alive \in [Incarnation -> {"none", "watch", "noted", "exited"}]
          /\ queue \in Seq(Name) /\ n \in Name
        OBVIOUS
    <2>3. \A k \in Kind : found["terminator"][k] # None => found["terminator"][k] \in Incarnation
        OBVIOUS
    <2> HIDE DEF TypeInv, KillInv, RequestInv, TableInv, RegisteredRuns, RunningIsKnown,
                 PendingRuns, ClearedIsFree, FoundInv, OneIncarnation, OwnSegments, DeathInv,
                 Watches, Notes, NotedAreDead, Queued, FoundAreDying, RequesterIsNew, Pending,
                 Cleared, Kind, Alive, Killing, Locked
    <2>4. /\ Len(queue) \in Nat /\ Len(queue') = Len(queue) + 1
          /\ \A a \in 1..Len(queue') : queue'[a] = IF a \in 1..Len(queue) THEN queue[a] ELSE n
        BY <2>1, <2>2
    <2>5. /\ n \in zombies /\ <<i, Alive>> \in running
          /\ \A a \in 1..Len(queue) : queue[a] # n
        BY <2>1, <2>9 DEF Notes
    <2>6. \A j \in Incarnation : alive'[j] = "noted" => alive[j] = "noted" /\ NameOf(j) # n
        BY <2>1, <2>2, <2>5, <2>9, OneAliveThread DEF Notes
    <2>7. Watches'
        BY <2>1, <2>2, <2>9 DEF Watches
    <2>8. Notes'
        BY <2>1, <2>4, <2>6, <2>9 DEF Notes
    <2>10. NotedAreDead'
        BY <2>1, <2>2, <2>9 DEF NotedAreDead
    <2>11. Queued'
        BY <2>1, <2>4, <2>5, <2>9 DEF Queued
    <2>12. FoundAreDying'
        BY <2>1, <2>2, <2>3, <2>9 DEF FoundAreDying
    <2>13. RequesterIsNew'
        BY <2>1, <2>9 DEF RequesterIsNew
    <2> QED
        BY <2>7, <2>8, <2>10, <2>11, <2>12, <2>13 DEF DeathInv
<1>8. ASSUME NEW x \in Killer, KillLock(x) PROVE DeathInv'
    BY <1>8 DEF KillLock
<1>9. ASSUME NEW x \in Killer, KillStop(x) PROVE DeathInv'
    <2> DEFINE t == table[kind[x]][victim[x]]
    <2>1. /\ pc[x] = "stop" /\ pc'[x] \in {"stop", "join"}
          /\ pc' = [pc EXCEPT ![x] = pc'[x]]
          /\ found' = [found EXCEPT ![x][kind[x]] = t]
          /\ UNCHANGED <<watched, process, queue, zombies, alive, victim, running, segment,
                         requester, table>>
        BY <1>9 DEF KillStop, NextKind, thread_table_get
    <2>2. \A y \in Killer : /\ pc'[y] = "run" <=> pc[y] = "run"
                            /\ pc'[y] \in Killing <=> pc[y] \in Killing
        BY <2>1
    <2> SUFFICES ASSUME OwnSegments, pc["main"] = "run" PROVE DeathInv'
        BY <2>1, <2>2
    <2>9. Watches /\ Notes /\ NotedAreDead /\ Queued /\ FoundAreDying /\ RequesterIsNew
        OBVIOUS
    <2>11. victim[x] \in Name /\ kind[x] \in Kind
        BY <2>1
    <2>12. t \in Entry /\ RegisteredRuns /\ RunningIsKnown
        BY <2>11
    <2>4. /\ found \in [Killer -> [Kind -> Entry]]
          /\ alive \in [Incarnation -> {"none", "watch", "noted", "exited"}]
          /\ pc["terminator"] = "stop" => pc["terminator"] \in Killing
          /\ "activator" \in Killer /\ "terminator" \in Killer
        OBVIOUS
    <2> HIDE DEF TypeInv, KillInv, RequestInv, TableInv, RegisteredRuns, RunningIsKnown,
                 PendingRuns, ClearedIsFree, FoundInv, OneIncarnation, OwnSegments, DeathInv,
                 Watches, Notes, NotedAreDead, Queued, FoundAreDying, RequesterIsNew, Pending,
                 Cleared, Kind, Alive, Killing, Locked
    <2>3. t # None => NameOf(t) = victim[x] /\ t \in Incarnation /\ alive[t] # "none"
        BY <2>11, <2>12 DEF RegisteredRuns, RunningIsKnown
    <2>5. x = "terminator" /\ t # None => alive[t] \in {"noted", "exited"}
        <3> SUFFICES ASSUME x = "terminator", t # None PROVE alive[t] \in {"noted", "exited"}
            OBVIOUS
        <3>1. victim[x] \in zombies
            BY <2>1, <2>4, <2>9 DEF Queued
        <3>2. alive[t] # "watch"
            BY <2>3, <2>9, <3>1 DEF Watches
        <3> QED
            BY <2>3, <2>4, <3>2
    <2>6. FoundAreDying'
        BY <2>1, <2>3, <2>4, <2>5, <2>9 DEF FoundAreDying
    <2>7. Watches' /\ NotedAreDead'
        BY <2>1, <2>9 DEF Watches, NotedAreDead
    <2>8. Notes' /\ Queued'
        BY <2>1, <2>2, <2>4, <2>9 DEF Notes, Queued
    <2>10. RequesterIsNew'
        BY <2>1, <2>2, <2>4, <2>9 DEF RequesterIsNew
    <2> QED
        BY <2>6, <2>7, <2>8, <2>10 DEF DeathInv
<1>10. ASSUME NEW x \in Killer, KillJoin(x) PROVE DeathInv'
    BY <1>10 DEF KillJoin, NextKind, thread_table_remove, shm_unlink
<1>11. ASSUME NEW x \in Killer, KillUnlock(x) PROVE DeathInv'
    BY <1>11 DEF KillUnlock
<1>12. ASSUME ActivatorIdle PROVE DeathInv'
    BY <1>12 DEF ActivatorIdle, ActivatorLoop
<1>13. ASSUME ActivatorExit PROVE DeathInv'
    BY <1>13 DEF ActivatorExit
<1>14. ASSUME ActivatorRequest PROVE DeathInv'
    BY <1>14 DEF ActivatorRequest, proxy_thread_zombie
<1>15. ASSUME ActivatorUnmapped PROVE DeathInv'
    BY <1>15 DEF ActivatorUnmapped, ActivatorLoop, shm_get
<1>16. ASSUME ActivatorCreate PROVE DeathInv'
    BY <1>16 DEF ActivatorCreate, shm_get
<1>17. ASSUME ActivatorRelock PROVE DeathInv'
    BY <1>17 DEF ActivatorRelock
<1>18. ASSUME ActivatorAnswer PROVE DeathInv'
    BY <1>18 DEF ActivatorAnswer
<1>19. ASSUME ActivatorRefused PROVE DeathInv'
    BY <1>19 DEF ActivatorRefused, ActivatorLoop
<1>20. ASSUME ActivatorStop PROVE DeathInv'
    BY <1>20 DEF ActivatorStop, proxy_alive_stop
<1>21. ASSUME ActivatorJoin PROVE DeathInv'
    BY <1>21 DEF ActivatorJoin, ActivatorLoop, shm_unlink
<1>22. ASSUME ActivatorSet PROVE DeathInv'
    BY <1>22 DEF ActivatorSet, NextKind, thread_table_set
<1>23. ASSUME ActivatorSignal PROVE DeathInv'
    BY <1>23 DEF ActivatorSignal, ActivatorLoop
<1>24. ASSUME TerminatorStart PROVE DeathInv'
    BY <1>24 DEF TerminatorStart
<1>25. ASSUME TerminatorAwake PROVE DeathInv'
    BY <1>25 DEF TerminatorAwake
<1>26. ASSUME TerminatorPop PROVE DeathInv'
    BY <1>26 DEF TerminatorPop
<1>27. ASSUME TerminatorSleep PROVE DeathInv'
    BY <1>27 DEF TerminatorSleep
<1>28. ASSUME TerminatorDrop PROVE DeathInv'
    BY <1>28 DEF TerminatorDrop, proxy_thread_terminating_drop
<1>29. ASSUME NEW n \in Name, MainKill(n) PROVE DeathInv'
    BY <1>29 DEF MainKill, proxy_thread_terminating_set
<1>30. ASSUME MainStop PROVE DeathInv'
    BY <1>30 DEF MainStop
<1>31. ASSUME MainDrop PROVE DeathInv'
    BY <1>31 DEF MainDrop, proxy_thread_terminating_drop
<1>32. ASSUME MainEndActivator PROVE DeathInv'
    BY <1>32 DEF MainEndActivator, Wake, ActivationUnlocked
<1>33. ASSUME MainEndTerminator PROVE DeathInv'
    BY <1>33 DEF MainEndTerminator, Wake, TerminatorUnlocked
<1>34. ASSUME MainCleanUp PROVE DeathInv'
    BY <1>34 DEF MainCleanUp
<1>35. ASSUME UNCHANGED vars PROVE DeathInv'
    BY <1>35
<1> QED
    <2> HIDE DEF TypeInv, KillInv, RequestInv, TableInv, RegisteredRuns, RunningIsKnown,
            PendingRuns, ClearedIsFree, FoundInv,
            OneIncarnation, OwnSegments, DeathInv, Watches, Notes, NotedAreDead,
            Queued, FoundAreDying, RequesterIsNew, Pending, Cleared, Entry, Killing, Locked,
            Killer, Kind, Subscribe, Channel, Alive
    <2> QED
        BY <1>1, <1>2, <1>3, <1>4, <1>5, <1>6, <1>7, <1>8, <1>9, <1>10, <1>11, <1>12, <1>13,
           <1>14, <1>15, <1>16, <1>17, <1>18, <1>19, <1>20, <1>21, <1>22, <1>23, <1>24, <1>25,
           <1>26, <1>27, <1>28, <1>29, <1>30, <1>31, <1>32, <1>33, <1>34, <1>35
           DEF Next, ActivatorStep, TerminatorStep, MainStep, KillStep, Killer

(* As long as main has not destroyed the tables, what runs under a name is  *)
(* of one process: it is registered, or it is the requester.                *)
LEMMA OneRuns ==
    TypeInv /\ KillInv /\ RequestInv /\ TableInv /\ pc["main"] # "exit" => OneIncarnation
<1> SUFFICES ASSUME TypeInv, KillInv, RequestInv, TableInv, pc["main"] # "exit",
                    NEW i \in Incarnation, NEW j \in Incarnation, NEW k \in Kind,
                        NEW l \in Kind,
                    <<i, k>> \in running, <<j, l>> \in running, NameOf(i) = NameOf(j)
             PROVE  i = j
    BY DEF OneIncarnation, TypeInv
<1>1. /\ table[k][NameOf(i)] = i \/ (i = requester /\ Pending(k))
      /\ table[l][NameOf(j)] = j \/ (j = requester /\ Pending(l))
    BY DEF TableInv, RunningIsKnown
<1>2. NameOf(i) \in Name /\ i # None /\ j # None
    BY NameType, NamesDiffer
<1>3. ASSUME NEW m \in Kind, NEW p \in Kind, Pending(m), NameOf(requester) \in Name
      PROVE  table[p][NameOf(requester)] \in {None, requester}
    <2>1. CASE pc["activator"] = "decide"
        BY <1>3, <2>1 DEF Pending, TableInv, OnlyRequester
    <2>2. CASE pc["activator"] # "decide"
        BY <1>3, <2>2 DEF Pending, Cleared, TableInv, ClearedIsFree
    <2> QED
        BY <2>1, <2>2
<1> QED
    BY <1>1, <1>2, <1>3 DEF TableInv, OneProcess

(* Only the activator creates threads.                                      *)
LEMMA RunningShrinks == TypeInv /\ [Next]_vars /\ ~ActivatorCreate => running' \subseteq running
<1> SUFFICES ASSUME TypeInv, [Next]_vars, ~ActivatorCreate PROVE running' \subseteq running
    OBVIOUS
<1> USE DEF threads, Goto
<1>1. ASSUME NEW i \in Incarnation, Start(i) \/ Ask(i) \/ Acknowledge(i) \/ Crash(i) \/
             Quit(i) \/ AliveNotice(i) \/ AliveAwake(i)
      PROVE  running' \subseteq running
    BY <1>1 DEF Start, Ask, Acknowledge, Crash, Quit, Die, AliveNotice, AliveAwake
<1>2. ASSUME NEW x \in Killer, KillLock(x) \/ KillStop(x) \/ KillJoin(x) \/ KillUnlock(x)
      PROVE  running' \subseteq running
    BY <1>2 DEF KillLock, KillStop, KillJoin, KillUnlock
<1>3. ASSUME ActivatorIdle \/ ActivatorExit \/ ActivatorRequest \/ ActivatorUnmapped \/
             ActivatorRelock \/ ActivatorAnswer \/ ActivatorRefused \/ ActivatorStop \/
             ActivatorJoin \/ ActivatorSet \/ ActivatorSignal
      PROVE  running' \subseteq running
    BY <1>3 DEF ActivatorIdle, ActivatorExit, ActivatorRequest, ActivatorUnmapped,
       ActivatorRelock, ActivatorAnswer, ActivatorRefused, ActivatorStop, ActivatorJoin,
       ActivatorSet, ActivatorSignal
<1>4. ASSUME TerminatorStart \/ TerminatorAwake \/ TerminatorPop \/ TerminatorSleep \/
             TerminatorDrop
      PROVE  running' \subseteq running
    BY <1>4 DEF TerminatorStart, TerminatorAwake, TerminatorPop, TerminatorSleep, TerminatorDrop
<1>5. ASSUME NEW n \in Name, MainKill(n) PROVE running' \subseteq running
    BY <1>5 DEF MainKill
<1>6. ASSUME MainStop \/ MainDrop \/ MainEndActivator \/ MainEndTerminator \/ MainCleanUp
      PROVE  running' \subseteq running
    BY <1>6 DEF MainStop, MainDrop, MainEndActivator, MainEndTerminator, MainCleanUp
<1>7. ASSUME UNCHANGED vars PROVE running' \subseteq running
    BY <1>7 DEF vars
<1> QED
    BY <1>1, <1>2, <1>3, <1>4, <1>5, <1>6, <1>7
       DEF Next, ActivatorStep, TerminatorStep, MainStep, KillStep, Killer

LEMMA OneRunsStep ==
    /\ TypeInv /\ KillInv /\ RequestInv /\ TableInv /\ OneIncarnation /\ [Next]_vars
    /\ (TypeInv /\ KillInv /\ RequestInv /\ TableInv)'
    => OneIncarnation'
<1> SUFFICES ASSUME TypeInv, KillInv, RequestInv, TableInv, OneIncarnation, [Next]_vars,
                    (TypeInv /\ KillInv /\ RequestInv /\ TableInv)'
             PROVE  OneIncarnation'
    OBVIOUS
<1>1. CASE pc'["main"] # "exit"
    <2>1. (TypeInv /\ KillInv /\ RequestInv /\ TableInv /\ pc["main"] # "exit" => OneIncarnation)'
        BY OneRuns, PTL
    <2> QED
        BY <1>1, <2>1
<1>2. CASE pc'["main"] = "exit"
    <2>1. running' \subseteq running
        <3>1. ASSUME ActivatorCreate PROVE FALSE
            BY <1>2, <3>1 DEF ActivatorCreate, Goto, KillInv, TypeInv
        <3> QED
            BY <3>1, RunningShrinks
    <2> QED
        BY <2>1 DEF OneIncarnation
<1> QED
    BY <1>1, <1>2

LEMMA LifeInit == Init => LifeInv
<1> SUFFICES ASSUME Init PROVE LifeInv
    OBVIOUS
<1> USE DEF Init
<1>1. TypeInv
    BY TypeInit
<1>2. \A x \in Killer : pc[x] \in {"wait", "start", "run"} /\ kind[x] = Subscribe
    BY DEF Killer
<1>3. \A x \in Killer, k \in Kind : found[x][k] = None
    OBVIOUS
<1>4. KillInv
    BY <1>1, <1>2, <1>3, NamesDiffer DEF KillInv, Killing, Locked, Killer
<1>5. RequestInv
    BY <1>2 DEF RequestInv, Working, Killing, Locked, Killer
<1>6. \A k \in Kind : ~Pending(k) /\ ~Cleared(k)
    BY <1>2 DEF Pending, Cleared, Killer
<1>7. TableInv
    BY <1>6 DEF TableInv, RegisteredRuns, RunningIsKnown, PendingRuns, ClearedIsFree,
                OnlyRequester, OneProcess
<1>8. FoundInv /\ OneIncarnation
    BY <1>3 DEF FoundInv, OneIncarnation
<1>9. DeathInv
    BY <1>2, <1>3 DEF DeathInv, Watches, Notes, NotedAreDead, Queued, FoundAreDying,
                      RequesterIsNew, Killing, Locked, Killer
<1>10. OrderInv
    BY <1>6 DEF OrderInv, Succession, ServedInTurn, LastServed
<1> QED
    BY <1>1, <1>4, <1>5, <1>7, <1>8, <1>9, <1>10 DEF LifeInv

LEMMA LifeStep == LifeInv /\ [Next]_vars => LifeInv'
BY TypeInvStep, KillInvStep, RequestInvStep, TableInvStep, FoundInvStep, OrderInvStep,
   DeathInvStep, OneRunsStep DEF LifeInv

LEMMA LifeInvariant == Spec => []LifeInv
BY LifeInit, LifeStep, PTL DEF Spec

(* The types of the lifecycle's variables (proxyactivator.c, proxy.c).       *)
THEOREM LifecycleTypeCorrect == Spec => []TypeOK
BY LifeInvariant, TypeEq, PTL DEF LifeInv

(* However activator, terminator and main kill, re-register and give up, a  *)
(* context is there as long as its thread runs, until main destroys the     *)
(* tables (proxy.c:95-117, proxyactivator.c:348-364, work.c:263).           *)
THEOREM ContextsOutliveThreads == Spec => []ContextOutlivesThread
<1>1. LifeInv => ContextOutlivesThread
    BY DEF LifeInv, TypeInv, TableInv, RunningIsKnown, ContextOutlivesThread
<1> QED
    BY LifeInvariant, <1>1, PTL

(* At most one process of a name has threads (proxyactivator.c:246).        *)
THEOREM OneIncarnationRuns == Spec => []OneIncarnation
BY LifeInvariant, PTL DEF LifeInv

(* A terminator that comes late stops no living process (proxyterminator.c:63). *)
THEOREM LivingAreSpared == Spec => []TerminatorSparesLiving
<1>1. LifeInv => TerminatorSparesLiving
    BY NamesDiffer DEF LifeInv, TypeInv, DeathInv, NotedAreDead, FoundAreDying,
                       TerminatorSparesLiving, Entry, Killer
<1> QED
    BY LifeInvariant, <1>1, PTL

(* What the tables show of a name is its channel table's entry.             *)
Serving == [n \in Name |-> IF table[Channel][n] = None THEN 0 ELSE table[Channel][n][2]]
Latest == [n \in Name |-> LatestServed(n)]

(* The greatest number of the name's processes in S.                        *)
Greatest(S, n) ==
    LET ks == {i[2] : i \in {j \in S : NameOf(j) = n}} IN
    IF ks = {} THEN 0 ELSE CHOOSE k \in ks : \A l \in ks : l <= k

LEMMA GreatestIsReached ==
    ASSUME NEW S \in SUBSET Incarnation, NEW n \in Name,
           \A i \in S : \E j \in S : NameOf(j) = NameOf(i)
               /\ \A l \in S : NameOf(l) = NameOf(i) => NumberOf(l) <= NumberOf(j)
    PROVE  /\ \A i \in S : NameOf(i) = n => NumberOf(i) <= Greatest(S, n)
           /\ \/ Greatest(S, n) = 0 /\ \A i \in S : NameOf(i) # n
              \/ \E i \in S : NameOf(i) = n /\ NumberOf(i) = Greatest(S, n)
<1> DEFINE ks == {i[2] : i \in {j \in S : NameOf(j) = n}}
<1>1. CASE \A i \in S : NameOf(i) # n
    <2>1. ks = {}
        BY <1>1
    <2> QED
        BY <1>1, <2>1 DEF Greatest
<1>2. CASE \E i \in S : NameOf(i) = n
    <2>1. PICK j \in S : NameOf(j) = n /\ \A l \in S : NameOf(l) = n => NumberOf(l) <= NumberOf(j)
        BY <1>2
    <2>2. j[2] \in ks /\ \A l \in ks : l <= j[2]
        BY <2>1 DEF NumberOf
    <2>3. ks # {}
        BY <2>2
    <2> DEFINE top == CHOOSE k \in ks : \A l \in ks : l <= k
    <2>4. Greatest(S, n) = top
        BY <2>3 DEF Greatest
    <2>5. top \in ks /\ \A l \in ks : l <= top
        BY <2>2
    <2> QED
        BY <2>4, <2>5 DEF NumberOf
<1> QED
    BY <1>1, <1>2

LEMMA LifeStutter ==
    ASSUME TypeInv, UNCHANGED served, UNCHANGED table[Channel]
    PROVE  UNCHANGED <<Serving, Latest>>
BY DEF Serving, Latest, LatestServed

(* Joining the channel thread lets go of the process.                       *)
LEMMA LifeRelease ==
    ASSUME LifeInv, NEW x \in Killer, KillJoin(x)
    PROVE  Life!Next \/ UNCHANGED <<Serving, Latest>>
<1> DEFINE n == victim[x]  i == found[x][Channel]
<1>1. TypeInv /\ n \in Name /\ pc[x] = "join" /\ served' = served
    BY DEF LifeInv, KillInv, Killing, Locked, KillJoin
<1>2. CASE kind[x] # Channel \/ i = None
    <2>1. table'[Channel] = table[Channel]
        BY <1>1, <1>2 DEF KillJoin, thread_table_remove, TypeInv, Kind, Channel
    <2> QED
        BY <1>1, <2>1, LifeStutter
<1>3. CASE kind[x] = Channel /\ i # None
    <2>1. table[Channel][n] = i /\ i \in Incarnation
        BY <1>1, <1>3, NamesDiffer DEF LifeInv, FoundInv, TypeInv, Entry, Kind, Channel
    <2>2. table' = [table EXCEPT ![Channel][n] = None]
        BY <1>3 DEF KillJoin, thread_table_remove
    <2>6. \A m \in Name : table'[Channel][m] = IF m = n THEN None ELSE table[Channel][m]
        BY <1>1, <2>2 DEF TypeInv, Kind, Channel
    <2>3. Serving' = [Serving EXCEPT ![n] = 0]
        BY <1>1, <2>6 DEF Serving
    <2>4. Latest' = Latest
        BY <1>1 DEF Latest, LatestServed
    <2>5. Serving[n] # 0
        BY <1>1, <2>1, NamesDiffer DEF Serving, Incarnation
    <2> QED
        BY <1>1, <2>3, <2>4, <2>5 DEF Life!Next, Life!Release, Serving, Latest
<1> QED
    BY <1>2, <1>3

(* Registering the channel thread takes a process later than all before.    *)
LEMMA LifeTake ==
    ASSUME LifeInv, LifeInv', ActivatorSet
    PROVE  Life!Next \/ UNCHANGED <<Serving, Latest>>
<1> DEFINE r == requester  n == NameOf(r)
<1>1. /\ TypeInv /\ r \in Incarnation /\ n \in Name /\ alive[r] # "none"
      /\ pc["activator"] = "decide"
    BY NameType DEF LifeInv, RequestInv, Working, ActivatorSet
<1>2. CASE kind["activator"] # Channel
    <2>1. table'[Channel] = table[Channel] /\ served' = served
        BY <1>1, <1>2 DEF ActivatorSet, thread_table_set, TypeInv, Kind, Channel
    <2> QED
        BY <1>1, <2>1, LifeStutter
<1>3. CASE kind["activator"] = Channel
    <2>1. Pending(Channel) /\ Channel \in Kind
        BY <1>1, <1>3, NamesDiffer DEF Pending, Channel, Kind
    <2>2. table[Channel][n] = None
        BY <2>1 DEF LifeInv, TableInv, ClearedIsFree, Cleared
    <2>3. r \notin served /\ \A i \in served : NameOf(i) = n => NumberOf(i) < NumberOf(r)
        BY <1>1, <2>1, NamesDiffer DEF LifeInv, OrderInv, ServedInTurn, Working, Channel
    <2>4. table' = [table EXCEPT ![Channel][n] = r] /\ served' = served \union {r}
        BY <1>3 DEF ActivatorSet, thread_table_set
    <2>5. LastServed /\ LastServed' /\ TypeInv'
        BY DEF LifeInv, OrderInv
    <2>6. r[2] \in 1..MaxIncarnation /\ NumberOf(r) = r[2]
        BY <1>1 DEF Incarnation, NumberOf
    <2>7. \A i \in Incarnation : NumberOf(i) \in Nat
        BY NumberType
    <2>13. served \in SUBSET Incarnation /\ served' \in SUBSET Incarnation
        BY <1>1, <2>5 DEF TypeInv
    <2>14. \A m \in Name : LatestServed(m) = Greatest(served, m)
                           /\ LatestServed(m)' = Greatest(served', m)
        BY DEF LatestServed, Greatest
    <2>8. Latest[n] < r[2]
        <3>1. \/ Greatest(served, n) = 0
              \/ \E i \in served : NameOf(i) = n /\ NumberOf(i) = Greatest(served, n)
            BY <1>1, <2>5, <2>13, GreatestIsReached DEF LastServed
        <3> QED
            BY <1>1, <2>3, <2>6, <2>14, <3>1 DEF Latest
    <2>9. ASSUME NEW m \in Name
          PROVE  LatestServed(m)' = IF m = n THEN r[2] ELSE LatestServed(m)
        <3>1. CASE m = n
            <4>1. /\ \A i \in served' : NameOf(i) = n => NumberOf(i) <= Greatest(served', n)
                  /\ \/ Greatest(served', n) = 0 /\ \A i \in served' : NameOf(i) # n
                     \/ \E i \in served' : NameOf(i) = n /\ NumberOf(i) = Greatest(served', n)
                BY <1>1, <2>5, <2>13, GreatestIsReached DEF LastServed
            <4>2. PICK i \in served' : NameOf(i) = n /\ NumberOf(i) = Greatest(served', n)
                BY <2>4, <4>1
            <4>3. NumberOf(r) <= NumberOf(i)
                BY <2>4, <4>1, <4>2
            <4>4. NumberOf(i) <= NumberOf(r)
                BY <2>3, <2>4, <2>6, <2>7, <2>13, <4>2
            <4>5. NumberOf(i) = NumberOf(r)
                BY <2>7, <2>13, <2>4, <4>3, <4>4
            <4> QED
                BY <2>6, <2>14, <3>1, <4>2, <4>5
        <3>2. CASE m # n
            <4>1. {j \in served' : NameOf(j) = m} = {j \in served : NameOf(j) = m}
                BY <2>4, <3>2
            <4>2. Greatest(served', m) = Greatest(served, m)
                <5> DEFINE ks(S) == {i[2] : i \in {j \in S : NameOf(j) = m}}
                           top(K) == IF K = {} THEN 0 ELSE CHOOSE k \in K : \A l \in K : l <= k
                <5>1. ks(served') = ks(served)
                    BY <4>1
                <5>2. Greatest(served', m) = top(ks(served')) /\ Greatest(served,
                    m) = top(ks(served))
                    BY DEF Greatest
                <5> HIDE DEF ks
                <5> QED
                    BY <5>1, <5>2
            <4> QED
                BY <2>14, <3>2, <4>2
        <3> QED
            BY <3>1, <3>2
    <2>10. Latest' = [Latest EXCEPT ![n] = r[2]]
        BY <1>1, <2>9 DEF Latest
    <2>11. Serving' = [Serving EXCEPT ![n] = r[2]] /\ Serving[n] = 0
        <3>1. \A m \in Name : table'[Channel][m] = IF m = n THEN r ELSE table[Channel][m]
            BY <1>1, <2>4 DEF TypeInv, Kind, Channel
        <3>2. r # None
            BY <1>1, NamesDiffer
        <3> QED
            BY <1>1, <2>2, <3>1, <3>2 DEF Serving
    <2>12. /\ Serving[n] = 0 /\ r[2] > Latest[n]
           /\ Serving' = [Serving EXCEPT ![n] = r[2]]
           /\ Latest' = [Latest EXCEPT ![n] = r[2]]
        BY <1>1, <2>6, <2>7, <2>8, <2>10, <2>11, <2>13
    <2> HIDE DEF n, r
    <2>15. \E m \in Name, k \in 1..MaxIncarnation :
              /\ Serving[m] = 0 /\ k > Latest[m]
              /\ Serving' = [Serving EXCEPT ![m] = k]
              /\ Latest' = [Latest EXCEPT ![m] = k]
        BY <1>1, <2>6, <2>12
    <2> QED
        BY <2>15 DEF Life!Next, Life!Take, Serving, Latest
<1> QED
    BY <1>2, <1>3

LEMMA LifeReleaseAll == ASSUME MainCleanUp PROVE Life!Next
<1>1. Serving' = [n \in Name |-> 0]
    BY DEF MainCleanUp, Serving, Kind, Channel
<1>2. Latest' = Latest
    BY DEF MainCleanUp, Latest, LatestServed
<1> QED
    BY <1>1, <1>2 DEF Life!Next, Life!ReleaseAll, Serving, Latest

(* Nothing else touches the channel table.                                 *)
LEMMA LifeQuiet ==
    ASSUME TypeInv, [Next]_vars, \A x \in Killer : ~KillJoin(x), ~ActivatorSet, ~MainCleanUp
    PROVE  UNCHANGED <<table, served>>
<1> USE DEF registry, Goto
<1>1. ASSUME NEW i \in Incarnation, Start(i) \/ Ask(i) \/ Acknowledge(i) \/ Crash(i) \/
             Quit(i) \/ AliveNotice(i) \/ AliveAwake(i)
      PROVE  UNCHANGED <<table, served>>
    BY <1>1 DEF Start, Ask, Acknowledge, Crash, Quit, AliveNotice, AliveAwake, Die
<1>2. ASSUME NEW x \in Killer, KillLock(x) \/ KillStop(x) \/ KillUnlock(x)
      PROVE  UNCHANGED <<table, served>>
    BY <1>2 DEF KillLock, KillStop, KillUnlock
<1>3. ASSUME ActivatorIdle \/ ActivatorExit \/ ActivatorRequest \/ ActivatorUnmapped \/
             ActivatorCreate \/ ActivatorRelock \/ ActivatorAnswer \/ ActivatorRefused \/
             ActivatorStop \/ ActivatorJoin \/ ActivatorSignal
      PROVE  UNCHANGED <<table, served>>
    BY <1>3 DEF ActivatorIdle, ActivatorExit, ActivatorRequest, ActivatorUnmapped,
       ActivatorCreate, ActivatorRelock, ActivatorAnswer, ActivatorRefused, ActivatorStop,
       ActivatorJoin, ActivatorSignal
<1>4. ASSUME TerminatorStart \/ TerminatorAwake \/ TerminatorPop \/ TerminatorSleep \/
             TerminatorDrop
      PROVE  UNCHANGED <<table, served>>
    BY <1>4 DEF TerminatorStart, TerminatorAwake, TerminatorPop, TerminatorSleep, TerminatorDrop
<1>5. ASSUME NEW n \in Name, MainKill(n)
      PROVE  UNCHANGED <<table, served>>
    BY <1>5 DEF MainKill
<1>6. ASSUME MainStop \/ MainDrop \/ MainEndActivator \/ MainEndTerminator
      PROVE  UNCHANGED <<table, served>>
    BY <1>6 DEF MainStop, MainDrop, MainEndActivator, MainEndTerminator
<1>7. ASSUME UNCHANGED vars PROVE UNCHANGED <<table, served>>
    BY <1>7 DEF vars
<1> QED
    BY <1>1, <1>2, <1>3, <1>4, <1>5, <1>6, <1>7
       DEF Next, ActivatorStep, TerminatorStep, MainStep, KillStep, Killer

(* The thread tables implement the life of a proxy that ProxyLife states:   *)
(* whatever the threads do, a process is taken once, after those before it  *)
(* were let go (proxychannelthreadtable.c:42, proxy.c:95-117, work.c:263).  *)
THEOREM TablesImplementLife == Spec => LifeSpec
<1>1. Init => Life!Init
    <2> SUFFICES ASSUME Init PROVE Life!Init
        OBVIOUS
    <2>1. Serving = [n \in Name |-> 0]
        BY DEF Init, Serving, Kind, Channel
    <2>2. Latest = [n \in Name |-> 0]
        BY DEF Init, Latest, LatestServed
    <2> QED
        BY <2>1, <2>2 DEF Life!Init, Serving, Latest
<1>2. LifeInv /\ LifeInv' /\ [Next]_vars => [Life!Next]_(Life!vars)
    <2> SUFFICES ASSUME LifeInv, LifeInv', [Next]_vars
                 PROVE  Life!Next \/ UNCHANGED <<Serving, Latest>>
        BY DEF Life!vars, Serving, Latest
    <2>1. ASSUME NEW x \in Killer, KillJoin(x) PROVE Life!Next \/ UNCHANGED <<Serving, Latest>>
        BY <2>1, LifeRelease
    <2>2. CASE ActivatorSet
        BY <2>2, LifeTake
    <2>3. CASE MainCleanUp
        BY <2>3, LifeReleaseAll
    <2>4. CASE (\A x \in Killer : ~KillJoin(x)) /\ ~ActivatorSet /\ ~MainCleanUp
        <3>1. TypeInv /\ UNCHANGED <<table, served>>
            BY <2>4, LifeQuiet DEF LifeInv
        <3> QED
            BY <3>1, LifeStutter
    <2> QED
        BY <2>1, <2>2, <2>3, <2>4
<1> QED
    BY <1>1, <1>2, LifeInvariant, PTL DEF Spec, LifeSpec, Life!Spec

-----------------------------------------------------------------------------
(***************************************************************************)
(* The safety core of KillEndsOrCycle: what a killer that joins an alive   *)
(* thread waits for.                                                       *)
(***************************************************************************)
(* The segments of a name are those of the process that lives, or of none.  *)
SegmentsOfLast == \A i \in Incarnation : Lives(i) => segment[NameOf(i)] \in {None, i}

(* Who acknowledges has lived since its threads were created, and had its   *)
(* own segments then.                                                       *)
Acknowledged ==
    /\ pc["activator"] \in {"window", "answer"} /\ outcome = "success"
          /\ (process[requester] # "dead" \/ state = "DONE") => watched[requester] = requester
    /\ pc["activator"] = "decide" /\ outcome = "success" => watched[requester] = requester

(* The alive thread that is registered for a process watches that process.  *)
RegisteredWatches ==
    \A k \in Kind, n \in Name : table[k][n] # None => watched[table[k][n]] = table[k][n]

(* A process whose alive thread was stopped was told to end, if it was not  *)
(* known to be dead.                                                        *)
Told ==
    \A x \in Killer : found[x][Alive] # None =>
        /\ alive[found[x][Alive]] # "none"
        /\ alive[found[x][Alive]] = "watch" => found[x][Alive] \in sigterm

(* Where the terminator can be.                                             *)
TerminatorPc ==
    pc["terminator"] \in
        {"start", "wait", "pop", "kill", "stop", "join", "unlock", "killed", "exit"}

WatchInv == SegmentsOfLast /\ Acknowledged /\ RegisteredWatches /\ Told /\ TerminatorPc

(* What is registered was activated.                                        *)
LEMMA RegisteredIsActivated ==
    ASSUME TypeInv, TableInv, NEW k \in Kind, NEW n \in Name, table[k][n] # None
    PROVE  alive[table[k][n]] # "none"
<1>1. PICK i \in Incarnation : i = table[k][n]
    BY DEF TypeInv, Entry
<1>2. <<i, k>> \in running
    BY <1>1 DEF TableInv, RegisteredRuns
<1> QED
    BY <1>1, <1>2 DEF TableInv, RunningIsKnown

(* A new process makes new segments; a kill takes the name's away.          *)
LEMMA SegmentsStep ==
    TypeInv /\ OrderInv /\ SegmentsOfLast /\ [Next]_vars
    => SegmentsOfLast'
<1> SUFFICES ASSUME TypeInv, OrderInv, SegmentsOfLast, [Next]_vars
             PROVE  SegmentsOfLast'
    OBVIOUS
<1> USE NamesDiffer, NameType
        DEF TypeInv, SegmentsOfLast, Lives, Entry, Killing, Locked, Killer, Kind, Subscribe,
            Channel, Alive,
            Goto, vars, proxies, activation, threads, killing, registry, stopping
<1>1. ASSUME NEW i \in Incarnation, Start(i) PROVE SegmentsOfLast'
    <2>1. /\ process[i] = "new" /\ process' = [process EXCEPT ![i] = "started"]
          /\ segment' = [segment EXCEPT ![NameOf(i)] = i]
          /\ \A j \in Incarnation : NameOf(j) = NameOf(i) /\ NumberOf(j) < NumberOf(i) =>
                process[j] = "dead"
        BY <1>1, Predecessor DEF Start
    <2>2. \A j \in Incarnation : NameOf(j) = NameOf(i) /\ j # i => ~Lives(j)
        <3> SUFFICES ASSUME NEW j \in Incarnation, NameOf(j) = NameOf(i), j # i
                     PROVE  process[j] \in {"new", "dead"}
            OBVIOUS
        <3>1. NumberOf(i) # NumberOf(j)
            BY SameIncarnation
        <3>2. CASE NumberOf(j) < NumberOf(i)
            BY <2>1, <3>2
        <3>3. CASE NumberOf(i) < NumberOf(j)
            BY <2>1, <3>3 DEF OrderInv, Succession
        <3> QED
            BY <3>1, <3>2, <3>3, NumberType
    <2> QED
        BY <2>1, <2>2
<1>2. ASSUME NEW i \in Incarnation, Ask(i) PROVE SegmentsOfLast'
    BY <1>2 DEF Ask, Wake, ActivationUnlocked
<1>3. ASSUME NEW i \in Incarnation, Acknowledge(i) PROVE SegmentsOfLast'
    BY <1>3 DEF Acknowledge, Wake, ActivationUnlocked
<1>4. ASSUME NEW i \in Incarnation, Crash(i) PROVE SegmentsOfLast'
    BY <1>4 DEF Crash, Lives, Die, ActivationUnlocked
<1>5. ASSUME NEW i \in Incarnation, Quit(i) PROVE SegmentsOfLast'
    BY <1>5 DEF Quit, Lives, Die
<1>6. ASSUME NEW i \in Incarnation, AliveNotice(i) PROVE SegmentsOfLast'
    BY <1>6 DEF AliveNotice, proxy_thread_terminating_set
<1>7. ASSUME NEW i \in Incarnation, AliveAwake(i) PROVE SegmentsOfLast'
    BY <1>7 DEF AliveAwake, proxy_terminator_awake, Wake, TerminatorUnlocked
<1>8. ASSUME NEW x \in Killer, KillLock(x) PROVE SegmentsOfLast'
    BY <1>8 DEF KillLock
<1>9. ASSUME NEW x \in Killer, KillStop(x) PROVE SegmentsOfLast'
    BY <1>9 DEF KillStop, NextKind, thread_table_get, proxy_alive_stop
<1>10. ASSUME NEW x \in Killer, KillJoin(x) PROVE SegmentsOfLast'
    BY <1>10 DEF KillJoin, NextKind, thread_table_remove, shm_unlink
<1>11. ASSUME NEW x \in Killer, KillUnlock(x) PROVE SegmentsOfLast'
    BY <1>11 DEF KillUnlock
<1>12. ASSUME ActivatorIdle PROVE SegmentsOfLast'
    BY <1>12 DEF ActivatorIdle, ActivatorLoop
<1>13. ASSUME ActivatorExit PROVE SegmentsOfLast'
    BY <1>13 DEF ActivatorExit
<1>14. ASSUME ActivatorRequest PROVE SegmentsOfLast'
    BY <1>14 DEF ActivatorRequest, proxy_thread_zombie
<1>15. ASSUME ActivatorUnmapped PROVE SegmentsOfLast'
    BY <1>15 DEF ActivatorUnmapped, ActivatorLoop, shm_get
<1>16. ASSUME ActivatorCreate PROVE SegmentsOfLast'
    BY <1>16 DEF ActivatorCreate, shm_get
<1>17. ASSUME ActivatorRelock PROVE SegmentsOfLast'
    BY <1>17 DEF ActivatorRelock
<1>18. ASSUME ActivatorAnswer PROVE SegmentsOfLast'
    BY <1>18 DEF ActivatorAnswer
<1>19. ASSUME ActivatorRefused PROVE SegmentsOfLast'
    BY <1>19 DEF ActivatorRefused, ActivatorLoop
<1>20. ASSUME ActivatorStop PROVE SegmentsOfLast'
    BY <1>20 DEF ActivatorStop, proxy_alive_stop
<1>21. ASSUME ActivatorJoin PROVE SegmentsOfLast'
    BY <1>21 DEF ActivatorJoin, ActivatorLoop, shm_unlink
<1>22. ASSUME ActivatorSet PROVE SegmentsOfLast'
    BY <1>22 DEF ActivatorSet, NextKind, thread_table_set
<1>23. ASSUME ActivatorSignal PROVE SegmentsOfLast'
    BY <1>23 DEF ActivatorSignal, ActivatorLoop
<1>24. ASSUME TerminatorStart PROVE SegmentsOfLast'
    BY <1>24 DEF TerminatorStart
<1>25. ASSUME TerminatorAwake PROVE SegmentsOfLast'
    BY <1>25 DEF TerminatorAwake
<1>26. ASSUME TerminatorPop PROVE SegmentsOfLast'
    BY <1>26 DEF TerminatorPop
<1>27. ASSUME TerminatorSleep PROVE SegmentsOfLast'
    BY <1>27 DEF TerminatorSleep
<1>28. ASSUME TerminatorDrop PROVE SegmentsOfLast'
    BY <1>28 DEF TerminatorDrop, proxy_thread_terminating_drop
<1>29. ASSUME NEW n \in Name, MainKill(n) PROVE SegmentsOfLast'
    BY <1>29 DEF MainKill, proxy_thread_terminating_set
<1>30. ASSUME MainStop PROVE SegmentsOfLast'
    BY <1>30 DEF MainStop
<1>31. ASSUME MainDrop PROVE SegmentsOfLast'
    BY <1>31 DEF MainDrop, proxy_thread_terminating_drop
<1>32. ASSUME MainEndActivator PROVE SegmentsOfLast'
    BY <1>32 DEF MainEndActivator, Wake, ActivationUnlocked
<1>33. ASSUME MainEndTerminator PROVE SegmentsOfLast'
    BY <1>33 DEF MainEndTerminator, Wake, TerminatorUnlocked
<1>34. ASSUME MainCleanUp PROVE SegmentsOfLast'
    BY <1>34 DEF MainCleanUp
<1>35. ASSUME UNCHANGED vars PROVE SegmentsOfLast'
    BY <1>35
<1> QED
    <2> HIDE DEF TypeInv, SegmentsOfLast, Lives, Entry, Killing, Locked,
            Killer, Kind, Subscribe, Channel, Alive
    <2> QED
        BY <1>1, <1>2, <1>3, <1>4, <1>5, <1>6, <1>7, <1>8, <1>9, <1>10, <1>11, <1>12, <1>13,
           <1>14, <1>15, <1>16, <1>17, <1>18, <1>19, <1>20, <1>21, <1>22, <1>23, <1>24, <1>25,
           <1>26, <1>27, <1>28, <1>29, <1>30, <1>31, <1>32, <1>33, <1>34, <1>35
           DEF Next, ActivatorStep, TerminatorStep, MainStep, KillStep, Killer

(* An acknowledgement is the requester's own.                               *)
LEMMA AcknowledgedStep ==
    TypeInv /\ KillInv /\ RequestInv /\ SegmentsOfLast /\ Acknowledged /\ [Next]_vars
    => Acknowledged'
<1> SUFFICES ASSUME TypeInv, KillInv, RequestInv, SegmentsOfLast, Acknowledged, [Next]_vars
             PROVE  Acknowledged'
    OBVIOUS
<1> USE NamesDiffer, NameType
        DEF TypeInv, KillInv, RequestInv, Acknowledged, Working, Entry, Killing, Locked,
            Killer, Kind, Subscribe, Channel, Alive,
            Goto, vars, proxies, activation, threads, killing, registry, stopping
<1>1. ASSUME NEW i \in Incarnation, Start(i) PROVE Acknowledged'
    BY <1>1 DEF Start
<1>2. ASSUME NEW i \in Incarnation, Ask(i) PROVE Acknowledged'
    BY <1>2 DEF Ask, Wake, ActivationUnlocked
<1>3. ASSUME NEW i \in Incarnation, Acknowledge(i) PROVE Acknowledged'
    BY <1>3 DEF Acknowledge, Wake, ActivationUnlocked
<1>4. ASSUME NEW i \in Incarnation, Crash(i) PROVE Acknowledged'
    BY <1>4 DEF Crash, Lives, Die, ActivationUnlocked
<1>5. ASSUME NEW i \in Incarnation, Quit(i) PROVE Acknowledged'
    BY <1>5 DEF Quit, Lives, Die
<1>6. ASSUME NEW i \in Incarnation, AliveNotice(i) PROVE Acknowledged'
    BY <1>6 DEF AliveNotice, proxy_thread_terminating_set
<1>7. ASSUME NEW i \in Incarnation, AliveAwake(i) PROVE Acknowledged'
    BY <1>7 DEF AliveAwake, proxy_terminator_awake, Wake, TerminatorUnlocked
<1>8. ASSUME NEW x \in Killer, KillLock(x) PROVE Acknowledged'
    BY <1>8 DEF KillLock
<1>9. ASSUME NEW x \in Killer, KillStop(x) PROVE Acknowledged'
    BY <1>9 DEF KillStop, NextKind, thread_table_get, proxy_alive_stop
<1>10. ASSUME NEW x \in Killer, KillJoin(x) PROVE Acknowledged'
    BY <1>10 DEF KillJoin, NextKind, thread_table_remove, shm_unlink
<1>11. ASSUME NEW x \in Killer, KillUnlock(x) PROVE Acknowledged'
    BY <1>11 DEF KillUnlock
<1>12. ASSUME ActivatorIdle PROVE Acknowledged'
    BY <1>12 DEF ActivatorIdle, ActivatorLoop
<1>13. ASSUME ActivatorExit PROVE Acknowledged'
    BY <1>13 DEF ActivatorExit
<1>14. ASSUME ActivatorRequest PROVE Acknowledged'
    BY <1>14 DEF ActivatorRequest, proxy_thread_zombie
<1>15. ASSUME ActivatorUnmapped PROVE Acknowledged'
    BY <1>15 DEF ActivatorUnmapped, ActivatorLoop, shm_get
<1>16. ASSUME ActivatorCreate PROVE Acknowledged'
    <2>1. /\ pc["activator"] = "killed" /\ pc' = [pc EXCEPT !["activator"] = "window"]
          /\ segment[NameOf(requester)] # None /\ UNCHANGED <<process, requester>>
          /\ watched' = [watched EXCEPT ![requester] = segment[NameOf(requester)]]
        BY <1>16 DEF ActivatorCreate, shm_get
    <2>2. requester \in Incarnation /\ process[requester] \notin {"new", "started"}
        BY <2>1, NamesDiffer
    <2>3. process[requester] # "dead" => segment[NameOf(requester)] = requester
        BY <2>1, <2>2 DEF SegmentsOfLast, Lives
    <2>4. state' = "SUCCESS"
        BY <1>16 DEF ActivatorCreate
    <2> QED
        BY <2>1, <2>2, <2>3, <2>4
<1>17. ASSUME ActivatorRelock PROVE Acknowledged'
    BY <1>17 DEF ActivatorRelock
<1>18. ASSUME ActivatorAnswer PROVE Acknowledged'
    BY <1>18 DEF ActivatorAnswer
<1>19. ASSUME ActivatorRefused PROVE Acknowledged'
    BY <1>19 DEF ActivatorRefused, ActivatorLoop
<1>20. ASSUME ActivatorStop PROVE Acknowledged'
    BY <1>20 DEF ActivatorStop, proxy_alive_stop
<1>21. ASSUME ActivatorJoin PROVE Acknowledged'
    BY <1>21 DEF ActivatorJoin, ActivatorLoop, shm_unlink
<1>22. ASSUME ActivatorSet PROVE Acknowledged'
    BY <1>22 DEF ActivatorSet, NextKind, thread_table_set
<1>23. ASSUME ActivatorSignal PROVE Acknowledged'
    BY <1>23 DEF ActivatorSignal, ActivatorLoop
<1>24. ASSUME TerminatorStart PROVE Acknowledged'
    BY <1>24 DEF TerminatorStart
<1>25. ASSUME TerminatorAwake PROVE Acknowledged'
    BY <1>25 DEF TerminatorAwake
<1>26. ASSUME TerminatorPop PROVE Acknowledged'
    BY <1>26 DEF TerminatorPop
<1>27. ASSUME TerminatorSleep PROVE Acknowledged'
    BY <1>27 DEF TerminatorSleep
<1>28. ASSUME TerminatorDrop PROVE Acknowledged'
    BY <1>28 DEF TerminatorDrop, proxy_thread_terminating_drop
<1>29. ASSUME NEW n \in Name, MainKill(n) PROVE Acknowledged'
    BY <1>29 DEF MainKill, proxy_thread_terminating_set
<1>30. ASSUME MainStop PROVE Acknowledged'
    BY <1>30 DEF MainStop
<1>31. ASSUME MainDrop PROVE Acknowledged'
    BY <1>31 DEF MainDrop, proxy_thread_terminating_drop
<1>32. ASSUME MainEndActivator PROVE Acknowledged'
    BY <1>32 DEF MainEndActivator, Wake, ActivationUnlocked
<1>33. ASSUME MainEndTerminator PROVE Acknowledged'
    BY <1>33 DEF MainEndTerminator, Wake, TerminatorUnlocked
<1>34. ASSUME MainCleanUp PROVE Acknowledged'
    BY <1>34 DEF MainCleanUp
<1>35. ASSUME UNCHANGED vars PROVE Acknowledged'
    BY <1>35
<1> QED
    <2> HIDE DEF TypeInv, KillInv, RequestInv, Acknowledged, Working, Entry, Killing, Locked,
            Killer, Kind, Subscribe, Channel, Alive
    <2> QED
        BY <1>1, <1>2, <1>3, <1>4, <1>5, <1>6, <1>7, <1>8, <1>9, <1>10, <1>11, <1>12, <1>13,
           <1>14, <1>15, <1>16, <1>17, <1>18, <1>19, <1>20, <1>21, <1>22, <1>23, <1>24, <1>25,
           <1>26, <1>27, <1>28, <1>29, <1>30, <1>31, <1>32, <1>33, <1>34, <1>35
           DEF Next, ActivatorStep, TerminatorStep, MainStep, KillStep, Killer

(* Only an acknowledged activation is registered.                           *)
LEMMA RegisteredStep ==
    TypeInv /\ KillInv /\ RequestInv /\ TableInv /\ Acknowledged /\ RegisteredWatches
        /\ [Next]_vars
    => RegisteredWatches'
<1> SUFFICES ASSUME TypeInv, KillInv, RequestInv, TableInv, Acknowledged,
                    RegisteredWatches, [Next]_vars
             PROVE  RegisteredWatches'
    OBVIOUS
<1> USE NamesDiffer, NameType
        DEF TypeInv, RegisteredWatches, Entry, Killing, Locked, Killer, Kind, Subscribe,
            Channel, Alive,
            Goto, vars, proxies, activation, threads, killing, registry, stopping
<1>1. ASSUME NEW i \in Incarnation, Start(i) PROVE RegisteredWatches'
    BY <1>1 DEF Start
<1>2. ASSUME NEW i \in Incarnation, Ask(i) PROVE RegisteredWatches'
    BY <1>2 DEF Ask, Wake, ActivationUnlocked
<1>3. ASSUME NEW i \in Incarnation, Acknowledge(i) PROVE RegisteredWatches'
    BY <1>3 DEF Acknowledge, Wake, ActivationUnlocked
<1>4. ASSUME NEW i \in Incarnation, Crash(i) PROVE RegisteredWatches'
    BY <1>4 DEF Crash, Lives, Die, ActivationUnlocked
<1>5. ASSUME NEW i \in Incarnation, Quit(i) PROVE RegisteredWatches'
    BY <1>5 DEF Quit, Lives, Die
<1>6. ASSUME NEW i \in Incarnation, AliveNotice(i) PROVE RegisteredWatches'
    BY <1>6 DEF AliveNotice, proxy_thread_terminating_set
<1>7. ASSUME NEW i \in Incarnation, AliveAwake(i) PROVE RegisteredWatches'
    BY <1>7 DEF AliveAwake, proxy_terminator_awake, Wake, TerminatorUnlocked
<1>8. ASSUME NEW x \in Killer, KillLock(x) PROVE RegisteredWatches'
    BY <1>8 DEF KillLock
<1>9. ASSUME NEW x \in Killer, KillStop(x) PROVE RegisteredWatches'
    BY <1>9 DEF KillStop, NextKind, thread_table_get, proxy_alive_stop
<1>10. ASSUME NEW x \in Killer, KillJoin(x) PROVE RegisteredWatches'
    BY <1>10 DEF KillJoin, NextKind, thread_table_remove, shm_unlink
<1>11. ASSUME NEW x \in Killer, KillUnlock(x) PROVE RegisteredWatches'
    BY <1>11 DEF KillUnlock
<1>12. ASSUME ActivatorIdle PROVE RegisteredWatches'
    BY <1>12 DEF ActivatorIdle, ActivatorLoop
<1>13. ASSUME ActivatorExit PROVE RegisteredWatches'
    BY <1>13 DEF ActivatorExit
<1>14. ASSUME ActivatorRequest PROVE RegisteredWatches'
    BY <1>14 DEF ActivatorRequest, proxy_thread_zombie
<1>15. ASSUME ActivatorUnmapped PROVE RegisteredWatches'
    BY <1>15 DEF ActivatorUnmapped, ActivatorLoop, shm_get
<1>16. ASSUME ActivatorCreate PROVE RegisteredWatches'
    <2>1. /\ pc["activator"] = "killed" /\ requester \in Incarnation
          /\ alive[requester] = "none"
        BY <1>16 DEF ActivatorCreate, KillInv, RequestInv, Working
    <2>2. \A k \in Kind, n \in Name : table[k][n] # requester
        BY <2>1, NamesDiffer, RegisteredIsActivated
    <2>3. /\ watched' = [watched EXCEPT ![requester] = segment[NameOf(requester)]]
          /\ UNCHANGED table
        BY <1>16 DEF ActivatorCreate, shm_get
    <2> QED
        BY <2>1, <2>2, <2>3
<1>17. ASSUME ActivatorRelock PROVE RegisteredWatches'
    BY <1>17 DEF ActivatorRelock
<1>18. ASSUME ActivatorAnswer PROVE RegisteredWatches'
    BY <1>18 DEF ActivatorAnswer
<1>19. ASSUME ActivatorRefused PROVE RegisteredWatches'
    BY <1>19 DEF ActivatorRefused, ActivatorLoop
<1>20. ASSUME ActivatorStop PROVE RegisteredWatches'
    BY <1>20 DEF ActivatorStop, proxy_alive_stop
<1>21. ASSUME ActivatorJoin PROVE RegisteredWatches'
    BY <1>21 DEF ActivatorJoin, ActivatorLoop, shm_unlink
<1>22. ASSUME ActivatorSet PROVE RegisteredWatches'
    <2>1. requester \in Incarnation /\ watched[requester] = requester
        BY <1>22 DEF ActivatorSet, RequestInv, Working, Acknowledged
    <2>2. /\ table' = [table EXCEPT ![kind["activator"]][NameOf(requester)] = requester]
          /\ UNCHANGED watched
        BY <1>22 DEF ActivatorSet, thread_table_set
    <2> QED
        BY <2>1, <2>2
<1>23. ASSUME ActivatorSignal PROVE RegisteredWatches'
    BY <1>23 DEF ActivatorSignal, ActivatorLoop
<1>24. ASSUME TerminatorStart PROVE RegisteredWatches'
    BY <1>24 DEF TerminatorStart
<1>25. ASSUME TerminatorAwake PROVE RegisteredWatches'
    BY <1>25 DEF TerminatorAwake
<1>26. ASSUME TerminatorPop PROVE RegisteredWatches'
    BY <1>26 DEF TerminatorPop
<1>27. ASSUME TerminatorSleep PROVE RegisteredWatches'
    BY <1>27 DEF TerminatorSleep
<1>28. ASSUME TerminatorDrop PROVE RegisteredWatches'
    BY <1>28 DEF TerminatorDrop, proxy_thread_terminating_drop
<1>29. ASSUME NEW n \in Name, MainKill(n) PROVE RegisteredWatches'
    BY <1>29 DEF MainKill, proxy_thread_terminating_set
<1>30. ASSUME MainStop PROVE RegisteredWatches'
    BY <1>30 DEF MainStop
<1>31. ASSUME MainDrop PROVE RegisteredWatches'
    BY <1>31 DEF MainDrop, proxy_thread_terminating_drop
<1>32. ASSUME MainEndActivator PROVE RegisteredWatches'
    BY <1>32 DEF MainEndActivator, Wake, ActivationUnlocked
<1>33. ASSUME MainEndTerminator PROVE RegisteredWatches'
    BY <1>33 DEF MainEndTerminator, Wake, TerminatorUnlocked
<1>34. ASSUME MainCleanUp PROVE RegisteredWatches'
    BY <1>34 DEF MainCleanUp
<1>35. ASSUME UNCHANGED vars PROVE RegisteredWatches'
    BY <1>35
<1> QED
    <2> HIDE DEF TypeInv, RegisteredWatches, Entry, Killing, Locked,
            Killer, Kind, Subscribe, Channel, Alive
    <2> QED
        BY <1>1, <1>2, <1>3, <1>4, <1>5, <1>6, <1>7, <1>8, <1>9, <1>10, <1>11, <1>12, <1>13,
           <1>14, <1>15, <1>16, <1>17, <1>18, <1>19, <1>20, <1>21, <1>22, <1>23, <1>24, <1>25,
           <1>26, <1>27, <1>28, <1>29, <1>30, <1>31, <1>32, <1>33, <1>34, <1>35
           DEF Next, ActivatorStep, TerminatorStep, MainStep, KillStep, Killer

(* The stop of an alive thread tells its process to end.                    *)
LEMMA ToldStep ==
    TypeInv /\ KillInv /\ RequestInv /\ TableInv /\ Told /\ [Next]_vars
    => Told'
<1> SUFFICES ASSUME TypeInv, KillInv, RequestInv, TableInv, Told, [Next]_vars
             PROVE  Told'
    OBVIOUS
<1> USE NamesDiffer, NameType
        DEF TypeInv, Told, Entry, Killing, Locked, Killer, Kind, Subscribe, Channel, Alive,
            Goto, vars, proxies, activation, threads, killing, registry, stopping
<1>1. ASSUME NEW i \in Incarnation, Start(i) PROVE Told'
    BY <1>1 DEF Start
<1>2. ASSUME NEW i \in Incarnation, Ask(i) PROVE Told'
    BY <1>2 DEF Ask, Wake, ActivationUnlocked
<1>3. ASSUME NEW i \in Incarnation, Acknowledge(i) PROVE Told'
    BY <1>3 DEF Acknowledge, Wake, ActivationUnlocked
<1>4. ASSUME NEW i \in Incarnation, Crash(i) PROVE Told'
    BY <1>4 DEF Crash, Lives, Die, ActivationUnlocked
<1>5. ASSUME NEW i \in Incarnation, Quit(i) PROVE Told'
    BY <1>5 DEF Quit, Lives, Die
<1>6. ASSUME NEW i \in Incarnation, AliveNotice(i) PROVE Told'
    BY <1>6 DEF AliveNotice, proxy_thread_terminating_set
<1>7. ASSUME NEW i \in Incarnation, AliveAwake(i) PROVE Told'
    BY <1>7 DEF AliveAwake, proxy_terminator_awake, Wake, TerminatorUnlocked
<1>8. ASSUME NEW x \in Killer, KillLock(x) PROVE Told'
    BY <1>8 DEF KillLock
<1>9. ASSUME NEW x \in Killer, KillStop(x) PROVE Told'
    <2> DEFINE i == table[kind[x]][victim[x]]
    <2>1. /\ pc[x] = "stop" /\ found' = [found EXCEPT ![x][kind[x]] = i]
          /\ UNCHANGED alive /\ sigterm \subseteq sigterm'
        BY <1>9 DEF KillStop, thread_table_get, proxy_alive_stop
    <2>2. kind[x] = Alive /\ i # None /\ alive[i] = "watch" => i \in sigterm'
        BY <1>9 DEF KillStop, thread_table_get, proxy_alive_stop
    <2>3. kind[x] = Alive /\ i # None => alive[i] # "none"
        <3>1. victim[x] \in Name
            BY <2>1 DEF KillInv
        <3> QED
            BY <3>1, RegisteredIsActivated
    <2> QED
        BY <2>1, <2>2, <2>3
<1>10. ASSUME NEW x \in Killer, KillJoin(x) PROVE Told'
    BY <1>10 DEF KillJoin, NextKind, thread_table_remove, shm_unlink
<1>11. ASSUME NEW x \in Killer, KillUnlock(x) PROVE Told'
    BY <1>11 DEF KillUnlock
<1>12. ASSUME ActivatorIdle PROVE Told'
    BY <1>12 DEF ActivatorIdle, ActivatorLoop
<1>13. ASSUME ActivatorExit PROVE Told'
    BY <1>13 DEF ActivatorExit
<1>14. ASSUME ActivatorRequest PROVE Told'
    BY <1>14 DEF ActivatorRequest, proxy_thread_zombie
<1>15. ASSUME ActivatorUnmapped PROVE Told'
    BY <1>15 DEF ActivatorUnmapped, ActivatorLoop, shm_get
<1>16. ASSUME ActivatorCreate PROVE Told'
    <2>1. /\ pc["activator"] = "killed" /\ requester \in Incarnation
          /\ alive[requester] = "none"
        BY <1>16 DEF ActivatorCreate, KillInv, RequestInv, Working
    <2>2. /\ alive' = [alive EXCEPT ![requester] = "watch"]
          /\ UNCHANGED <<found, sigterm>>
        BY <1>16 DEF ActivatorCreate
    <2> QED
        BY <2>1, <2>2
<1>17. ASSUME ActivatorRelock PROVE Told'
    BY <1>17 DEF ActivatorRelock
<1>18. ASSUME ActivatorAnswer PROVE Told'
    BY <1>18 DEF ActivatorAnswer
<1>19. ASSUME ActivatorRefused PROVE Told'
    BY <1>19 DEF ActivatorRefused, ActivatorLoop
<1>20. ASSUME ActivatorStop PROVE Told'
    BY <1>20 DEF ActivatorStop, proxy_alive_stop
<1>21. ASSUME ActivatorJoin PROVE Told'
    BY <1>21 DEF ActivatorJoin, ActivatorLoop, shm_unlink
<1>22. ASSUME ActivatorSet PROVE Told'
    BY <1>22 DEF ActivatorSet, NextKind, thread_table_set
<1>23. ASSUME ActivatorSignal PROVE Told'
    BY <1>23 DEF ActivatorSignal, ActivatorLoop
<1>24. ASSUME TerminatorStart PROVE Told'
    BY <1>24 DEF TerminatorStart
<1>25. ASSUME TerminatorAwake PROVE Told'
    BY <1>25 DEF TerminatorAwake
<1>26. ASSUME TerminatorPop PROVE Told'
    BY <1>26 DEF TerminatorPop
<1>27. ASSUME TerminatorSleep PROVE Told'
    BY <1>27 DEF TerminatorSleep
<1>28. ASSUME TerminatorDrop PROVE Told'
    BY <1>28 DEF TerminatorDrop, proxy_thread_terminating_drop
<1>29. ASSUME NEW n \in Name, MainKill(n) PROVE Told'
    BY <1>29 DEF MainKill, proxy_thread_terminating_set
<1>30. ASSUME MainStop PROVE Told'
    BY <1>30 DEF MainStop
<1>31. ASSUME MainDrop PROVE Told'
    BY <1>31 DEF MainDrop, proxy_thread_terminating_drop
<1>32. ASSUME MainEndActivator PROVE Told'
    BY <1>32 DEF MainEndActivator, Wake, ActivationUnlocked
<1>33. ASSUME MainEndTerminator PROVE Told'
    BY <1>33 DEF MainEndTerminator, Wake, TerminatorUnlocked
<1>34. ASSUME MainCleanUp PROVE Told'
    BY <1>34 DEF MainCleanUp
<1>35. ASSUME UNCHANGED vars PROVE Told'
    BY <1>35
<1> QED
    <2> HIDE DEF TypeInv, Told, Entry, Killing, Locked,
            Killer, Kind, Subscribe, Channel, Alive
    <2> QED
        BY <1>1, <1>2, <1>3, <1>4, <1>5, <1>6, <1>7, <1>8, <1>9, <1>10, <1>11, <1>12, <1>13,
           <1>14, <1>15, <1>16, <1>17, <1>18, <1>19, <1>20, <1>21, <1>22, <1>23, <1>24, <1>25,
           <1>26, <1>27, <1>28, <1>29, <1>30, <1>31, <1>32, <1>33, <1>34, <1>35
           DEF Next, ActivatorStep, TerminatorStep, MainStep, KillStep, Killer

LEMMA TerminatorPcStep == TypeInv /\ TerminatorPc /\ [Next]_vars => TerminatorPc'
<1> SUFFICES ASSUME TypeInv, TerminatorPc, [Next]_vars PROVE TerminatorPc'
    OBVIOUS
<1> USE DEF TypeInv, TerminatorPc, Goto, Killer
<1>1. ASSUME NEW i \in Incarnation, Start(i) \/ Ask(i) \/ Acknowledge(i) \/ Crash(i) \/
             Quit(i) \/ AliveNotice(i) \/ AliveAwake(i)
      PROVE  TerminatorPc'
    BY <1>1 DEF Start, Ask, Acknowledge, Crash, Quit, Die, AliveNotice, AliveAwake
<1>2. ASSUME NEW x \in Killer, KillLock(x) \/ KillStop(x) \/ KillJoin(x) \/ KillUnlock(x)
      PROVE  TerminatorPc'
    BY <1>2 DEF KillLock, KillStop, KillJoin, KillUnlock, NextKind
<1>3. ASSUME ActivatorIdle \/ ActivatorExit \/ ActivatorRequest \/ ActivatorUnmapped \/
             ActivatorCreate \/ ActivatorRelock \/ ActivatorAnswer \/ ActivatorRefused \/
             ActivatorStop \/ ActivatorJoin \/ ActivatorSet \/ ActivatorSignal
      PROVE  TerminatorPc'
    BY <1>3 DEF ActivatorIdle, ActivatorExit, ActivatorRequest, ActivatorUnmapped,
       ActivatorCreate, ActivatorRelock, ActivatorAnswer, ActivatorRefused, ActivatorStop,
       ActivatorJoin, ActivatorSet, ActivatorSignal, ActivatorLoop, NextKind
<1>4. ASSUME TerminatorStart \/ TerminatorAwake \/ TerminatorPop \/ TerminatorSleep \/
             TerminatorDrop
      PROVE  TerminatorPc'
    BY <1>4 DEF TerminatorStart, TerminatorAwake, TerminatorPop, TerminatorSleep, TerminatorDrop
<1>5. ASSUME NEW n \in Name, MainKill(n) PROVE TerminatorPc'
    BY <1>5 DEF MainKill
<1>6. ASSUME MainStop \/ MainDrop \/ MainEndActivator \/ MainEndTerminator \/ MainCleanUp
      PROVE  TerminatorPc'
    BY <1>6 DEF MainStop, MainDrop, MainEndActivator, MainEndTerminator, MainCleanUp
<1>7. ASSUME UNCHANGED vars PROVE TerminatorPc'
    BY <1>7 DEF vars
<1> QED
    BY <1>1, <1>2, <1>3, <1>4, <1>5, <1>6, <1>7
       DEF Next, ActivatorStep, TerminatorStep, MainStep, KillStep

LEMMA WatchInit == Init => WatchInv
BY DEF Init, WatchInv, SegmentsOfLast, Acknowledged, RegisteredWatches, Told, TerminatorPc,
       Killer, Kind, Alive, Lives

LEMMA WatchInvariant == Spec => [](LifeInv /\ WatchInv)
<1>1. LifeInv /\ WatchInv /\ [Next]_vars => (LifeInv /\ WatchInv)'
    BY LifeStep, SegmentsStep, AcknowledgedStep, RegisteredStep, ToldStep, TerminatorPcStep
       DEF LifeInv, WatchInv
<1> QED
    BY <1>1, LifeInit, WatchInit, PTL DEF Spec

(* A process that died while it was activated may have been given the       *)
(* segments of its successor (OwnSegments), but it is never registered: the *)
(* alive thread in the table watches the process it is registered for       *)
(* (proxyactivator.c:118-122, 263, 296-316).                                *)
THEOREM RegisteredWatchItself == Spec => []RegisteredWatches
BY WatchInvariant, PTL DEF WatchInv

(* What a killer that joins an alive thread with the kill lock held waits   *)
(* for: the end of the very process whose thread it joins, which has been   *)
(* told to end, or the terminator's lock, which is free, or held by a       *)
(* terminator that goes on.  The only other case is LockCycle.              *)
JoinWaitsFor ==
    \A x \in Killer :
        LET i == found[x][Alive] IN
        pc[x] = "join" /\ kind[x] = Alive /\ i # None =>
            \/ alive[i] = "exited"
            \/ alive[i] = "watch" /\ watched[i] = i /\ i \in sigterm
            \/ alive[i] = "noted" /\ \/ TerminatorUnlocked
                                     \/ pc["terminator"] \in {"pop", "killed"}
                                     \/ LockCycle

(* KillEndsOrCycle's safety core, for any number of names and processes:    *)
(* nothing but LockCycle holds a kill up (proxy.c:113, proxyalive.c:97-104, *)
(* proxyterminator.c:63).                                                   *)
THEOREM KillIsHeldUpByCycleOnly == Spec => []JoinWaitsFor
<1>1. LifeInv /\ WatchInv => JoinWaitsFor
    <2> SUFFICES ASSUME LifeInv, WatchInv PROVE JoinWaitsFor
        OBVIOUS
    <2> SUFFICES ASSUME NEW x \in Killer, NEW i \in Incarnation,
                        i = found[x][Alive], pc[x] = "join", kind[x] = Alive
                 PROVE  \/ alive[i] = "exited"
                        \/ alive[i] = "watch" /\ watched[i] = i /\ i \in sigterm
                        \/ alive[i] = "noted" /\ \/ TerminatorUnlocked
                                                 \/ pc["terminator"] \in {"pop", "killed"}
                                                 \/ LockCycle
        <3>1. \A x \in Killer : found[x][Alive] \in Entry
            BY DEF LifeInv, TypeInv, Kind, Alive
        <3> QED
            BY <3>1, Zenon DEF JoinWaitsFor, Entry
    <2>1. i # None /\ victim[x] \in Name
        BY NamesDiffer DEF LifeInv, KillInv, Killing, Locked
    <2>2. table[Alive][victim[x]] = i
        BY <2>1 DEF LifeInv, FoundInv, Kind, Alive
    <2>3. watched[i] = i
        BY <2>1, <2>2 DEF WatchInv, RegisteredWatches, Kind, Alive
    <2>4. alive[i] \in {"watch", "noted", "exited"}
        BY <2>1, Zenon DEF LifeInv, TypeInv, WatchInv, Told
    <2>5. alive[i] = "watch" => i \in sigterm
        BY <2>1 DEF WatchInv, Told
    <2>6. kill_lock = x
        BY DEF LifeInv, KillInv, Locked
    <2>7. TerminatorUnlocked \/ pc["terminator"] \in {"pop", "kill", "killed"}
            \/ x = "terminator"
        <3>1. \A y \in Killer : pc[y] \in {"stop", "join", "unlock"} => y = x
            BY <2>6 DEF LifeInv, KillInv, Locked
        <3>2. pc["terminator"] \in {"start", "wait", "pop", "kill", "stop", "join", "unlock",
                                    "killed", "exit"}
            BY DEF WatchInv, TerminatorPc
        <3> QED
            BY <3>1, <3>2 DEF TerminatorUnlocked, Killer
    <2>8. alive[i] = "noted" /\ (x = "terminator" \/ pc["terminator"] = "kill") => LockCycle
        BY <2>1, <2>6 DEF LockCycle
    <2> QED
        BY <2>3, <2>4, <2>5, <2>7, <2>8
<1> QED
    BY <1>1, WatchInvariant, PTL

-----------------------------------------------------------------------------
(***************************************************************************)
(* The safety cores of ZombieGoes and StopEndsOrCycle: no signal to the    *)
(* terminator and none that ends a thread is lost, and somebody is on the  *)
(* way to take a zombie's name off the list.                               *)
(***************************************************************************)
(* A thread that is told to end in its wait has a signal.                   *)
EndHeard ==
    \A x \in {"activator", "terminator"} : x \in ended /\ pc[x] = "wait" => x \in wakeup

(* A terminator with a name in its queue does not sleep.                    *)
QueueHeard ==
    /\ pc["terminator"] # "start"
    /\ queue # <<>> => pc["terminator"] # "wait" \/ "terminator" \in wakeup

(* A zombie's name is in the hands of the alive thread that made it one, in *)
(* the terminator's queue, or with the terminator or main, which kill it.   *)
Killed(x, n) == victim[x] = n /\ pc[x] \in {"kill", "stop", "join", "unlock", "killed"}

ZombieIsDue ==
    \A n \in zombies :
        \/ \E i \in Incarnation : NameOf(i) = n /\ alive[i] = "noted"
        \/ \E k \in DOMAIN queue : queue[k] = n
        \/ Killed("terminator", n)
        \/ Killed("main", n)

(* Whoever tells a thread to end signals it.                                *)
LEMMA EndHeardStep ==
    TypeInv /\ EndHeard /\ [Next]_vars
    => EndHeard'
<1> SUFFICES ASSUME TypeInv, EndHeard, [Next]_vars
             PROVE  EndHeard'
    OBVIOUS
<1> USE NamesDiffer, NameType
        DEF TypeInv, EndHeard, Entry, Killing, Locked, Killer, Kind, Subscribe, Channel, Alive,
            Goto, vars, proxies, activation, threads, killing, registry, stopping
<1>1. ASSUME NEW i \in Incarnation, Start(i) PROVE EndHeard'
    BY <1>1 DEF Start
<1>2. ASSUME NEW i \in Incarnation, Ask(i) PROVE EndHeard'
    BY <1>2 DEF Ask, Wake, ActivationUnlocked
<1>3. ASSUME NEW i \in Incarnation, Acknowledge(i) PROVE EndHeard'
    BY <1>3 DEF Acknowledge, Wake, ActivationUnlocked
<1>4. ASSUME NEW i \in Incarnation, Crash(i) PROVE EndHeard'
    BY <1>4 DEF Crash, Lives, Die, ActivationUnlocked
<1>5. ASSUME NEW i \in Incarnation, Quit(i) PROVE EndHeard'
    BY <1>5 DEF Quit, Lives, Die
<1>6. ASSUME NEW i \in Incarnation, AliveNotice(i) PROVE EndHeard'
    BY <1>6 DEF AliveNotice, proxy_thread_terminating_set
<1>7. ASSUME NEW i \in Incarnation, AliveAwake(i) PROVE EndHeard'
    BY <1>7 DEF AliveAwake, proxy_terminator_awake, Wake, TerminatorUnlocked
<1>8. ASSUME NEW x \in Killer, KillLock(x) PROVE EndHeard'
    BY <1>8 DEF KillLock
<1>9. ASSUME NEW x \in Killer, KillStop(x) PROVE EndHeard'
    BY <1>9 DEF KillStop, NextKind, thread_table_get, proxy_alive_stop
<1>10. ASSUME NEW x \in Killer, KillJoin(x) PROVE EndHeard'
    BY <1>10 DEF KillJoin, NextKind, thread_table_remove, shm_unlink
<1>11. ASSUME NEW x \in Killer, KillUnlock(x) PROVE EndHeard'
    BY <1>11 DEF KillUnlock
<1>12. ASSUME ActivatorIdle PROVE EndHeard'
    BY <1>12 DEF ActivatorIdle, ActivatorLoop
<1>13. ASSUME ActivatorExit PROVE EndHeard'
    BY <1>13 DEF ActivatorExit
<1>14. ASSUME ActivatorRequest PROVE EndHeard'
    BY <1>14 DEF ActivatorRequest, proxy_thread_zombie
<1>15. ASSUME ActivatorUnmapped PROVE EndHeard'
    BY <1>15 DEF ActivatorUnmapped, ActivatorLoop, shm_get
<1>16. ASSUME ActivatorCreate PROVE EndHeard'
    BY <1>16 DEF ActivatorCreate, shm_get
<1>17. ASSUME ActivatorRelock PROVE EndHeard'
    BY <1>17 DEF ActivatorRelock
<1>18. ASSUME ActivatorAnswer PROVE EndHeard'
    BY <1>18 DEF ActivatorAnswer
<1>19. ASSUME ActivatorRefused PROVE EndHeard'
    BY <1>19 DEF ActivatorRefused, ActivatorLoop
<1>20. ASSUME ActivatorStop PROVE EndHeard'
    BY <1>20 DEF ActivatorStop, proxy_alive_stop
<1>21. ASSUME ActivatorJoin PROVE EndHeard'
    BY <1>21 DEF ActivatorJoin, ActivatorLoop, shm_unlink
<1>22. ASSUME ActivatorSet PROVE EndHeard'
    BY <1>22 DEF ActivatorSet, NextKind, thread_table_set
<1>23. ASSUME ActivatorSignal PROVE EndHeard'
    BY <1>23 DEF ActivatorSignal, ActivatorLoop
<1>24. ASSUME TerminatorStart PROVE EndHeard'
    BY <1>24 DEF TerminatorStart
<1>25. ASSUME TerminatorAwake PROVE EndHeard'
    BY <1>25 DEF TerminatorAwake
<1>26. ASSUME TerminatorPop PROVE EndHeard'
    BY <1>26 DEF TerminatorPop
<1>27. ASSUME TerminatorSleep PROVE EndHeard'
    BY <1>27 DEF TerminatorSleep
<1>28. ASSUME TerminatorDrop PROVE EndHeard'
    BY <1>28 DEF TerminatorDrop, proxy_thread_terminating_drop
<1>29. ASSUME NEW n \in Name, MainKill(n) PROVE EndHeard'
    BY <1>29 DEF MainKill, proxy_thread_terminating_set
<1>30. ASSUME MainStop PROVE EndHeard'
    BY <1>30 DEF MainStop
<1>31. ASSUME MainDrop PROVE EndHeard'
    BY <1>31 DEF MainDrop, proxy_thread_terminating_drop
<1>32. ASSUME MainEndActivator PROVE EndHeard'
    BY <1>32 DEF MainEndActivator, Wake, ActivationUnlocked
<1>33. ASSUME MainEndTerminator PROVE EndHeard'
    BY <1>33 DEF MainEndTerminator, Wake, TerminatorUnlocked
<1>34. ASSUME MainCleanUp PROVE EndHeard'
    BY <1>34 DEF MainCleanUp
<1>35. ASSUME UNCHANGED vars PROVE EndHeard'
    BY <1>35
<1> QED
    <2> HIDE DEF TypeInv, EndHeard, Entry, Killing, Locked,
            Killer, Kind, Subscribe, Channel, Alive
    <2> QED
        BY <1>1, <1>2, <1>3, <1>4, <1>5, <1>6, <1>7, <1>8, <1>9, <1>10, <1>11, <1>12, <1>13,
           <1>14, <1>15, <1>16, <1>17, <1>18, <1>19, <1>20, <1>21, <1>22, <1>23, <1>24, <1>25,
           <1>26, <1>27, <1>28, <1>29, <1>30, <1>31, <1>32, <1>33, <1>34, <1>35
           DEF Next, ActivatorStep, TerminatorStep, MainStep, KillStep, Killer

(* Whoever fills the queue signals the terminator, which empties it before  *)
(* it waits.                                                                *)
LEMMA QueueHeardStep ==
    TypeInv /\ QueueHeard /\ [Next]_vars
    => QueueHeard'
<1> SUFFICES ASSUME TypeInv, QueueHeard, [Next]_vars
             PROVE  QueueHeard'
    OBVIOUS
<1> USE NamesDiffer, NameType
        DEF TypeInv, QueueHeard, Entry, Killing, Locked, Killer, Kind, Subscribe,
            Channel, Alive, Goto, vars, proxies, activation, threads, killing, registry,
                stopping
<1>1. ASSUME NEW i \in Incarnation, Start(i) PROVE QueueHeard'
    BY <1>1 DEF Start
<1>2. ASSUME NEW i \in Incarnation, Ask(i) PROVE QueueHeard'
    BY <1>2 DEF Ask, Wake, ActivationUnlocked
<1>3. ASSUME NEW i \in Incarnation, Acknowledge(i) PROVE QueueHeard'
    BY <1>3 DEF Acknowledge, Wake, ActivationUnlocked
<1>4. ASSUME NEW i \in Incarnation, Crash(i) PROVE QueueHeard'
    BY <1>4 DEF Crash, Lives, Die, ActivationUnlocked
<1>5. ASSUME NEW i \in Incarnation, Quit(i) PROVE QueueHeard'
    BY <1>5 DEF Quit, Lives, Die
<1>6. ASSUME NEW i \in Incarnation, AliveNotice(i) PROVE QueueHeard'
    BY <1>6 DEF AliveNotice, proxy_thread_terminating_set
<1>7. ASSUME NEW i \in Incarnation, AliveAwake(i) PROVE QueueHeard'
    BY <1>7 DEF AliveAwake, proxy_terminator_awake, Wake, TerminatorUnlocked
<1>8. ASSUME NEW x \in Killer, KillLock(x) PROVE QueueHeard'
    BY <1>8 DEF KillLock
<1>9. ASSUME NEW x \in Killer, KillStop(x) PROVE QueueHeard'
    BY <1>9 DEF KillStop, NextKind, thread_table_get, proxy_alive_stop
<1>10. ASSUME NEW x \in Killer, KillJoin(x) PROVE QueueHeard'
    BY <1>10 DEF KillJoin, NextKind, thread_table_remove, shm_unlink
<1>11. ASSUME NEW x \in Killer, KillUnlock(x) PROVE QueueHeard'
    BY <1>11 DEF KillUnlock
<1>12. ASSUME ActivatorIdle PROVE QueueHeard'
    BY <1>12 DEF ActivatorIdle, ActivatorLoop
<1>13. ASSUME ActivatorExit PROVE QueueHeard'
    BY <1>13 DEF ActivatorExit
<1>14. ASSUME ActivatorRequest PROVE QueueHeard'
    BY <1>14 DEF ActivatorRequest, proxy_thread_zombie
<1>15. ASSUME ActivatorUnmapped PROVE QueueHeard'
    BY <1>15 DEF ActivatorUnmapped, ActivatorLoop, shm_get
<1>16. ASSUME ActivatorCreate PROVE QueueHeard'
    BY <1>16 DEF ActivatorCreate, shm_get
<1>17. ASSUME ActivatorRelock PROVE QueueHeard'
    BY <1>17 DEF ActivatorRelock
<1>18. ASSUME ActivatorAnswer PROVE QueueHeard'
    BY <1>18 DEF ActivatorAnswer
<1>19. ASSUME ActivatorRefused PROVE QueueHeard'
    BY <1>19 DEF ActivatorRefused, ActivatorLoop
<1>20. ASSUME ActivatorStop PROVE QueueHeard'
    BY <1>20 DEF ActivatorStop, proxy_alive_stop
<1>21. ASSUME ActivatorJoin PROVE QueueHeard'
    BY <1>21 DEF ActivatorJoin, ActivatorLoop, shm_unlink
<1>22. ASSUME ActivatorSet PROVE QueueHeard'
    BY <1>22 DEF ActivatorSet, NextKind, thread_table_set
<1>23. ASSUME ActivatorSignal PROVE QueueHeard'
    BY <1>23 DEF ActivatorSignal, ActivatorLoop
<1>24. ASSUME TerminatorStart PROVE QueueHeard'
    BY <1>24 DEF TerminatorStart
<1>25. ASSUME TerminatorAwake PROVE QueueHeard'
    BY <1>25 DEF TerminatorAwake
<1>26. ASSUME TerminatorPop PROVE QueueHeard'
    BY <1>26 DEF TerminatorPop
<1>27. ASSUME TerminatorSleep PROVE QueueHeard'
    BY <1>27 DEF TerminatorSleep
<1>28. ASSUME TerminatorDrop PROVE QueueHeard'
    BY <1>28 DEF TerminatorDrop, proxy_thread_terminating_drop
<1>29. ASSUME NEW n \in Name, MainKill(n) PROVE QueueHeard'
    BY <1>29 DEF MainKill, proxy_thread_terminating_set
<1>30. ASSUME MainStop PROVE QueueHeard'
    BY <1>30 DEF MainStop
<1>31. ASSUME MainDrop PROVE QueueHeard'
    BY <1>31 DEF MainDrop, proxy_thread_terminating_drop
<1>32. ASSUME MainEndActivator PROVE QueueHeard'
    BY <1>32 DEF MainEndActivator, Wake, ActivationUnlocked
<1>33. ASSUME MainEndTerminator PROVE QueueHeard'
    BY <1>33 DEF MainEndTerminator, Wake, TerminatorUnlocked
<1>34. ASSUME MainCleanUp PROVE QueueHeard'
    BY <1>34 DEF MainCleanUp
<1>35. ASSUME UNCHANGED vars PROVE QueueHeard'
    BY <1>35
<1> QED
    <2> HIDE DEF TypeInv, QueueHeard, Entry, Killing, Locked,
            Killer, Kind, Subscribe, Channel, Alive
    <2> QED
        BY <1>1, <1>2, <1>3, <1>4, <1>5, <1>6, <1>7, <1>8, <1>9, <1>10, <1>11, <1>12, <1>13,
           <1>14, <1>15, <1>16, <1>17, <1>18, <1>19, <1>20, <1>21, <1>22, <1>23, <1>24, <1>25,
           <1>26, <1>27, <1>28, <1>29, <1>30, <1>31, <1>32, <1>33, <1>34, <1>35
           DEF Next, ActivatorStep, TerminatorStep, MainStep, KillStep, Killer

(* A name that becomes a zombie's is handed on until it is dropped.         *)
LEMMA ZombieStep ==
    TypeInv /\ KillInv /\ RequestInv /\ ZombieIsDue /\ [Next]_vars
    => ZombieIsDue'
<1> SUFFICES ASSUME TypeInv, KillInv, RequestInv, ZombieIsDue, [Next]_vars
             PROVE  ZombieIsDue'
    OBVIOUS
<1> USE NamesDiffer, NameType
        DEF TypeInv, ZombieIsDue, Killed, Entry, Killing, Locked, Killer, Kind, Subscribe,
            Channel, Alive, Goto, vars, proxies, activation, threads, killing, registry,
                stopping
<1>1. ASSUME NEW i \in Incarnation, Start(i) PROVE ZombieIsDue'
    BY <1>1 DEF Start
<1>2. ASSUME NEW i \in Incarnation, Ask(i) PROVE ZombieIsDue'
    BY <1>2 DEF Ask, Wake, ActivationUnlocked
<1>3. ASSUME NEW i \in Incarnation, Acknowledge(i) PROVE ZombieIsDue'
    BY <1>3 DEF Acknowledge, Wake, ActivationUnlocked
<1>4. ASSUME NEW i \in Incarnation, Crash(i) PROVE ZombieIsDue'
    BY <1>4 DEF Crash, Lives, Die, ActivationUnlocked
<1>5. ASSUME NEW i \in Incarnation, Quit(i) PROVE ZombieIsDue'
    BY <1>5 DEF Quit, Lives, Die
<1>6. ASSUME NEW i \in Incarnation, AliveNotice(i) PROVE ZombieIsDue'
    BY <1>6 DEF AliveNotice, proxy_thread_terminating_set
<1>7. ASSUME NEW i \in Incarnation, AliveAwake(i) PROVE ZombieIsDue'
    <2>1. /\ queue \in Seq(Name) /\ NameOf(i) \in Name
          /\ queue' = Append(queue, NameOf(i)) /\ UNCHANGED <<zombies, victim, pc>>
          /\ alive' = [alive EXCEPT ![i] = "exited"]
        BY <1>7 DEF AliveAwake, proxy_terminator_awake
    <2>2. \A k \in DOMAIN queue : k \in DOMAIN queue' /\ queue'[k] = queue[k]
        BY <2>1
    <2>3. \E k \in DOMAIN queue' : queue'[k] = NameOf(i)
        <3>1. Len(queue) + 1 \in DOMAIN queue' /\ queue'[Len(queue) + 1] = NameOf(i)
            BY <2>1
        <3> QED
            BY <3>1
    <2>4. \A j \in Incarnation : alive[j] = "noted" => j = i \/ alive'[j] = "noted"
        BY <2>1
    <2> QED
        BY <2>1, <2>2, <2>3, <2>4
<1>8. ASSUME NEW x \in Killer, KillLock(x) PROVE ZombieIsDue'
    BY <1>8 DEF KillLock
<1>9. ASSUME NEW x \in Killer, KillStop(x) PROVE ZombieIsDue'
    BY <1>9 DEF KillStop, NextKind, thread_table_get, proxy_alive_stop
<1>10. ASSUME NEW x \in Killer, KillJoin(x) PROVE ZombieIsDue'
    BY <1>10 DEF KillJoin, NextKind, thread_table_remove, shm_unlink
<1>11. ASSUME NEW x \in Killer, KillUnlock(x) PROVE ZombieIsDue'
    BY <1>11 DEF KillUnlock
<1>12. ASSUME ActivatorIdle PROVE ZombieIsDue'
    BY <1>12 DEF ActivatorIdle, ActivatorLoop
<1>13. ASSUME ActivatorExit PROVE ZombieIsDue'
    BY <1>13 DEF ActivatorExit
<1>14. ASSUME ActivatorRequest PROVE ZombieIsDue'
    BY <1>14 DEF ActivatorRequest, proxy_thread_zombie
<1>15. ASSUME ActivatorUnmapped PROVE ZombieIsDue'
    BY <1>15 DEF ActivatorUnmapped, ActivatorLoop, shm_get
<1>16. ASSUME ActivatorCreate PROVE ZombieIsDue'
    <2>1. /\ pc["activator"] = "killed" /\ requester \in Incarnation
          /\ alive[requester] = "none"
        BY <1>16 DEF ActivatorCreate, KillInv, RequestInv, Working
    <2>2. /\ alive' = [alive EXCEPT ![requester] = "watch"]
          /\ UNCHANGED <<queue, zombies>>
          /\ \A x \in Killer \ {"activator"} : pc'[x] = pc[x] /\ victim'[x] = victim[x]
        BY <1>16 DEF ActivatorCreate
    <2>3. \A i \in Incarnation : alive[i] = "noted" => alive'[i] = "noted"
        BY <2>1, <2>2
    <2> QED
        BY <2>2, <2>3
<1>17. ASSUME ActivatorRelock PROVE ZombieIsDue'
    BY <1>17 DEF ActivatorRelock
<1>18. ASSUME ActivatorAnswer PROVE ZombieIsDue'
    BY <1>18 DEF ActivatorAnswer
<1>19. ASSUME ActivatorRefused PROVE ZombieIsDue'
    BY <1>19 DEF ActivatorRefused, ActivatorLoop
<1>20. ASSUME ActivatorStop PROVE ZombieIsDue'
    BY <1>20 DEF ActivatorStop, proxy_alive_stop
<1>21. ASSUME ActivatorJoin PROVE ZombieIsDue'
    <2>1. UNCHANGED <<alive, queue, victim, zombies>>
        BY <1>21 DEF ActivatorJoin
    <2>2. \A x \in Killer \ {"activator"} : pc'[x] = pc[x]
        BY <1>21 DEF ActivatorJoin, ActivatorLoop
    <2> QED
        BY <2>1, <2>2
<1>22. ASSUME ActivatorSet PROVE ZombieIsDue'
    BY <1>22 DEF ActivatorSet, NextKind, thread_table_set
<1>23. ASSUME ActivatorSignal PROVE ZombieIsDue'
    BY <1>23 DEF ActivatorSignal, ActivatorLoop
<1>24. ASSUME TerminatorStart PROVE ZombieIsDue'
    BY <1>24 DEF TerminatorStart
<1>25. ASSUME TerminatorAwake PROVE ZombieIsDue'
    BY <1>25 DEF TerminatorAwake
<1>26. ASSUME TerminatorPop PROVE ZombieIsDue'
    <2>1. /\ queue \in Seq(Name) /\ queue # <<>>
          /\ queue' = Tail(queue) /\ UNCHANGED <<alive, zombies>>
          /\ victim' = [victim EXCEPT !["terminator"] = Head(queue)]
          /\ pc["terminator"] = "pop" /\ pc' = [pc EXCEPT !["terminator"] = "kill"]
        BY <1>26 DEF TerminatorPop
    <2>2. PICK h : h = Head(queue)
        OBVIOUS
    <2>6. Killed("terminator", h)'
        BY <2>1, <2>2
    <2>3. \A n : ~Killed("terminator", n)
        BY <2>1
    <2>4. \A n : Killed("main", n) => Killed("main", n)'
        BY <2>1
    <2>5. ASSUME NEW n, NEW k \in DOMAIN queue, queue[k] = n
          PROVE  n = h \/ \E l \in DOMAIN queue' : queue'[l] = n
        <3>1. CASE k = 1
            BY <2>1, <2>2, <2>5, <3>1
        <3>2. CASE k # 1
            <4>1. k - 1 \in DOMAIN Tail(queue) /\ Tail(queue)[k - 1] = queue[k]
                BY <2>1, <2>5, <3>2
            <4> QED
                BY <2>1, <2>5, <4>1
        <3> QED
            BY <3>1, <3>2
    <2> HIDE DEF Killed
    <2> SUFFICES ASSUME NEW n \in zombies'
                 PROVE  \/ \E i \in Incarnation : NameOf(i) = n /\ alive'[i] = "noted"
                        \/ \E k \in DOMAIN queue' : queue'[k] = n
                        \/ Killed("terminator", n)'
                        \/ Killed("main", n)'
        BY Zenon DEF ZombieIsDue
    <2>7. \/ \E i \in Incarnation : NameOf(i) = n /\ alive[i] = "noted"
          \/ \E k \in DOMAIN queue : queue[k] = n
          \/ Killed("main", n)
        BY <2>1, <2>3, Zenon DEF ZombieIsDue
    <2>8. CASE \E k \in DOMAIN queue : queue[k] = n
        <3>1. n = h \/ \E l \in DOMAIN queue' : queue'[l] = n
            BY <2>5, <2>8, Zenon
        <3> QED
            BY <2>6, <3>1, Zenon
    <2> QED
        BY <2>1, <2>4, <2>7, <2>8, Zenon
<1>27. ASSUME TerminatorSleep PROVE ZombieIsDue'
    BY <1>27 DEF TerminatorSleep
<1>28. ASSUME TerminatorDrop PROVE ZombieIsDue'
    BY <1>28 DEF TerminatorDrop, proxy_thread_terminating_drop
<1>29. ASSUME NEW n \in Name, MainKill(n) PROVE ZombieIsDue'
    BY <1>29 DEF MainKill, proxy_thread_terminating_set
<1>30. ASSUME MainStop PROVE ZombieIsDue'
    BY <1>30 DEF MainStop
<1>31. ASSUME MainDrop PROVE ZombieIsDue'
    BY <1>31 DEF MainDrop, proxy_thread_terminating_drop
<1>32. ASSUME MainEndActivator PROVE ZombieIsDue'
    BY <1>32 DEF MainEndActivator, Wake, ActivationUnlocked
<1>33. ASSUME MainEndTerminator PROVE ZombieIsDue'
    BY <1>33 DEF MainEndTerminator, Wake, TerminatorUnlocked
<1>34. ASSUME MainCleanUp PROVE ZombieIsDue'
    BY <1>34 DEF MainCleanUp
<1>35. ASSUME UNCHANGED vars PROVE ZombieIsDue'
    BY <1>35
<1> QED
    <2> HIDE DEF TypeInv, ZombieIsDue, Killed, Entry, Killing, Locked,
            Killer, Kind, Subscribe, Channel, Alive
    <2> QED
        BY <1>1, <1>2, <1>3, <1>4, <1>5, <1>6, <1>7, <1>8, <1>9, <1>10, <1>11, <1>12, <1>13,
           <1>14, <1>15, <1>16, <1>17, <1>18, <1>19, <1>20, <1>21, <1>22, <1>23, <1>24, <1>25,
           <1>26, <1>27, <1>28, <1>29, <1>30, <1>31, <1>32, <1>33, <1>34, <1>35
           DEF Next, ActivatorStep, TerminatorStep, MainStep, KillStep, Killer

LEMMA HeardInvariant == Spec => [](LifeInv /\ EndHeard /\ ZombieIsDue)
<1>1. Init => EndHeard /\ ZombieIsDue
    BY DEF Init, EndHeard, ZombieIsDue
<1>2. LifeInv /\ EndHeard /\ ZombieIsDue /\ [Next]_vars => EndHeard' /\ ZombieIsDue'
    BY EndHeardStep, ZombieStep DEF LifeInv
<1> QED
    BY <1>1, <1>2, LifeInvariant, PTL DEF Spec

\* StopEndsOrCycle's safety core: activator and terminator are told to end under
\* their locks, so neither waits on without a signal (proxyactivator.c:149-157,
\* proxyterminator.c:86-91).
THEOREM EndIsHeard == Spec => []EndHeard
BY HeardInvariant, PTL

\* A zombie's name is never forgotten: until it is taken off the list, an alive
\* thread has yet to hand it to the terminator, or it is in the queue, or who
\* kills it has it (proxyalive.c:102-104, proxyterminator.c:57-65, proxy.c:131-137).
THEOREM ZombieIsNotForgotten == Spec => []ZombieIsDue
BY HeardInvariant, PTL

\* ZombieGoes' safety core: if the terminator waits before the first alive thread
\* ends, it never sleeps on a name in its queue.  One that comes late does, until the
\* next is put there, as it waits before it looks (proxyterminator.c:52-56).
THEOREM QueueIsHeard == ~LateStart /\ Spec => []QueueHeard
<1>1. ~LateStart /\ Init => QueueHeard
    BY DEF Init, QueueHeard
<1>2. LifeInv /\ QueueHeard /\ [Next]_vars => QueueHeard'
    BY QueueHeardStep DEF LifeInv
<1> QED
    BY <1>1, <1>2, LifeInvariant, PTL DEF Spec

-----------------------------------------------------------------------------
(***************************************************************************)
(* The safety core of DeadIsDropped: who was registered and has not been   *)
(* dropped is watched, or its death is on its way to the terminator, or    *)
(* the terminator is on its way to the entry.                              *)
(***************************************************************************)
(* The activator has registered i's thread of kind k, or will not.          *)
Settled(i, k) == alive[i] # "none" /\ ~(requester = i /\ Pending(k))

(* The terminator kills i's name and has yet to remove the entry of kind k. *)
OnItsWay(i, k) ==
    /\ victim["terminator"] = NameOf(i)
    /\ \/ pc["terminator"] = "kill"
       \/ pc["terminator"] = "stop" /\ (k >= kind["terminator"] \/ found["terminator"][k] = i)
       \/ pc["terminator"] = "join" /\ k >= kind["terminator"] /\ found["terminator"][k] = i

(* What the death of i's proxy is in the hands of, with an entry of kind k.  *)
Due(i, k) ==
    \/ alive[i] = "watch" /\ watched[i] = i
    \/ alive[i] = "noted"
    \/ \E a \in DOMAIN queue : queue[a] = NameOf(i)
    \/ OnItsWay(i, k)

(* i's thread of kind k is in its table.                                    *)
Registered(i, k) == table[k][NameOf(i)] = i

(* It stays settled: a process is activated once.                           *)
LEMMA SettledStep ==
    ASSUME TypeInv, KillInv, RequestInv, NEW d \in Incarnation, NEW l \in Kind, Settled(d, l),
           [Next]_vars
    PROVE  Settled(d, l)'
<1> USE NamesDiffer, NameType
        DEF TypeInv, KillInv, RequestInv, Working, Settled, Pending, Entry, Killing, Locked,
            Killer, Kind, Subscribe, Channel, Alive,
            Goto, vars, proxies, activation, threads, killing, registry, stopping
<1>1. ASSUME NEW i \in Incarnation, Start(i) PROVE Settled(d, l)'
    BY <1>1 DEF Start
<1>2. ASSUME NEW i \in Incarnation, Ask(i) PROVE Settled(d, l)'
    BY <1>2 DEF Ask, Wake, ActivationUnlocked
<1>3. ASSUME NEW i \in Incarnation, Acknowledge(i) PROVE Settled(d, l)'
    BY <1>3 DEF Acknowledge, Wake, ActivationUnlocked
<1>4. ASSUME NEW i \in Incarnation, Crash(i) PROVE Settled(d, l)'
    BY <1>4 DEF Crash, Lives, Die, ActivationUnlocked
<1>5. ASSUME NEW i \in Incarnation, Quit(i) PROVE Settled(d, l)'
    BY <1>5 DEF Quit, Lives, Die
<1>6. ASSUME NEW i \in Incarnation, AliveNotice(i) PROVE Settled(d, l)'
    BY <1>6 DEF AliveNotice, proxy_thread_terminating_set
<1>7. ASSUME NEW i \in Incarnation, AliveAwake(i) PROVE Settled(d, l)'
    BY <1>7 DEF AliveAwake, proxy_terminator_awake, Wake, TerminatorUnlocked
<1>8. ASSUME NEW x \in Killer, KillLock(x) PROVE Settled(d, l)'
    BY <1>8 DEF KillLock
<1>9. ASSUME NEW x \in Killer, KillStop(x) PROVE Settled(d, l)'
    BY <1>9 DEF KillStop, NextKind, thread_table_get, proxy_alive_stop
<1>10. ASSUME NEW x \in Killer, KillJoin(x) PROVE Settled(d, l)'
    BY <1>10 DEF KillJoin, NextKind, thread_table_remove, shm_unlink
<1>11. ASSUME NEW x \in Killer, KillUnlock(x) PROVE Settled(d, l)'
    BY <1>11 DEF KillUnlock
<1>12. ASSUME ActivatorIdle PROVE Settled(d, l)'
    BY <1>12 DEF ActivatorIdle, ActivatorLoop
<1>13. ASSUME ActivatorExit PROVE Settled(d, l)'
    BY <1>13 DEF ActivatorExit
<1>14. ASSUME ActivatorRequest PROVE Settled(d, l)'
    BY <1>14 DEF ActivatorRequest, proxy_thread_zombie
<1>15. ASSUME ActivatorUnmapped PROVE Settled(d, l)'
    BY <1>15 DEF ActivatorUnmapped, ActivatorLoop, shm_get
<1>16. ASSUME ActivatorCreate PROVE Settled(d, l)'
    BY <1>16 DEF ActivatorCreate, shm_get
<1>17. ASSUME ActivatorRelock PROVE Settled(d, l)'
    BY <1>17 DEF ActivatorRelock
<1>18. ASSUME ActivatorAnswer PROVE Settled(d, l)'
    BY <1>18 DEF ActivatorAnswer
<1>19. ASSUME ActivatorRefused PROVE Settled(d, l)'
    BY <1>19 DEF ActivatorRefused, ActivatorLoop
<1>20. ASSUME ActivatorStop PROVE Settled(d, l)'
    BY <1>20 DEF ActivatorStop, proxy_alive_stop
<1>21. ASSUME ActivatorJoin PROVE Settled(d, l)'
    BY <1>21 DEF ActivatorJoin, ActivatorLoop, shm_unlink
<1>22. ASSUME ActivatorSet PROVE Settled(d, l)'
    BY <1>22 DEF ActivatorSet, NextKind, thread_table_set
<1>23. ASSUME ActivatorSignal PROVE Settled(d, l)'
    BY <1>23 DEF ActivatorSignal, ActivatorLoop
<1>24. ASSUME TerminatorStart PROVE Settled(d, l)'
    BY <1>24 DEF TerminatorStart
<1>25. ASSUME TerminatorAwake PROVE Settled(d, l)'
    BY <1>25 DEF TerminatorAwake
<1>26. ASSUME TerminatorPop PROVE Settled(d, l)'
    BY <1>26 DEF TerminatorPop
<1>27. ASSUME TerminatorSleep PROVE Settled(d, l)'
    BY <1>27 DEF TerminatorSleep
<1>28. ASSUME TerminatorDrop PROVE Settled(d, l)'
    BY <1>28 DEF TerminatorDrop, proxy_thread_terminating_drop
<1>29. ASSUME NEW n \in Name, MainKill(n) PROVE Settled(d, l)'
    BY <1>29 DEF MainKill, proxy_thread_terminating_set
<1>30. ASSUME MainStop PROVE Settled(d, l)'
    BY <1>30 DEF MainStop
<1>31. ASSUME MainDrop PROVE Settled(d, l)'
    BY <1>31 DEF MainDrop, proxy_thread_terminating_drop
<1>32. ASSUME MainEndActivator PROVE Settled(d, l)'
    BY <1>32 DEF MainEndActivator, Wake, ActivationUnlocked
<1>33. ASSUME MainEndTerminator PROVE Settled(d, l)'
    BY <1>33 DEF MainEndTerminator, Wake, TerminatorUnlocked
<1>34. ASSUME MainCleanUp PROVE Settled(d, l)'
    BY <1>34 DEF MainCleanUp
<1>35. ASSUME UNCHANGED vars PROVE Settled(d, l)'
    BY <1>35
<1> QED
    <2> HIDE DEF TypeInv, KillInv, RequestInv, Working, Settled, Pending, Entry, Killing,
                 Locked,
            Killer, Kind, Subscribe, Channel, Alive
    <2> QED
        BY <1>1, <1>2, <1>3, <1>4, <1>5, <1>6, <1>7, <1>8, <1>9, <1>10, <1>11, <1>12, <1>13,
           <1>14, <1>15, <1>16, <1>17, <1>18, <1>19, <1>20, <1>21, <1>22, <1>23, <1>24, <1>25,
           <1>26, <1>27, <1>28, <1>29, <1>30, <1>31, <1>32, <1>33, <1>34, <1>35
           DEF Next, ActivatorStep, TerminatorStep, MainStep, KillStep, Killer

(* What is settled does not come into the tables.                           *)
LEMMA SettledIsNotPut ==
    ASSUME TypeInv, KillInv, RequestInv, NEW d \in Incarnation, NEW l \in Kind, Settled(d, l),
           Registered(d, l)',
           [Next]_vars
    PROVE  Registered(d, l)
<1> USE NamesDiffer, NameType
        DEF TypeInv, KillInv, RequestInv, Settled, Pending, Registered, Entry, Killing,
            Locked, Killer, Kind, Subscribe, Channel, Alive,
            Goto, vars, proxies, activation, threads, killing, registry, stopping
<1>1. ASSUME NEW i \in Incarnation, Start(i) PROVE Registered(d, l)
    BY <1>1 DEF Start
<1>2. ASSUME NEW i \in Incarnation, Ask(i) PROVE Registered(d, l)
    BY <1>2 DEF Ask, Wake, ActivationUnlocked
<1>3. ASSUME NEW i \in Incarnation, Acknowledge(i) PROVE Registered(d, l)
    BY <1>3 DEF Acknowledge, Wake, ActivationUnlocked
<1>4. ASSUME NEW i \in Incarnation, Crash(i) PROVE Registered(d, l)
    BY <1>4 DEF Crash, Lives, Die, ActivationUnlocked
<1>5. ASSUME NEW i \in Incarnation, Quit(i) PROVE Registered(d, l)
    BY <1>5 DEF Quit, Lives, Die
<1>6. ASSUME NEW i \in Incarnation, AliveNotice(i) PROVE Registered(d, l)
    BY <1>6 DEF AliveNotice, proxy_thread_terminating_set
<1>7. ASSUME NEW i \in Incarnation, AliveAwake(i) PROVE Registered(d, l)
    BY <1>7 DEF AliveAwake, proxy_terminator_awake, Wake, TerminatorUnlocked
<1>8. ASSUME NEW x \in Killer, KillLock(x) PROVE Registered(d, l)
    BY <1>8 DEF KillLock
<1>9. ASSUME NEW x \in Killer, KillStop(x) PROVE Registered(d, l)
    BY <1>9 DEF KillStop, NextKind, thread_table_get, proxy_alive_stop
<1>10. ASSUME NEW x \in Killer, KillJoin(x) PROVE Registered(d, l)
    BY <1>10 DEF KillJoin, NextKind, thread_table_remove, shm_unlink
<1>11. ASSUME NEW x \in Killer, KillUnlock(x) PROVE Registered(d, l)
    BY <1>11 DEF KillUnlock
<1>12. ASSUME ActivatorIdle PROVE Registered(d, l)
    BY <1>12 DEF ActivatorIdle, ActivatorLoop
<1>13. ASSUME ActivatorExit PROVE Registered(d, l)
    BY <1>13 DEF ActivatorExit
<1>14. ASSUME ActivatorRequest PROVE Registered(d, l)
    BY <1>14 DEF ActivatorRequest, proxy_thread_zombie
<1>15. ASSUME ActivatorUnmapped PROVE Registered(d, l)
    BY <1>15 DEF ActivatorUnmapped, ActivatorLoop, shm_get
<1>16. ASSUME ActivatorCreate PROVE Registered(d, l)
    BY <1>16 DEF ActivatorCreate, shm_get
<1>17. ASSUME ActivatorRelock PROVE Registered(d, l)
    BY <1>17 DEF ActivatorRelock
<1>18. ASSUME ActivatorAnswer PROVE Registered(d, l)
    BY <1>18 DEF ActivatorAnswer
<1>19. ASSUME ActivatorRefused PROVE Registered(d, l)
    BY <1>19 DEF ActivatorRefused, ActivatorLoop
<1>20. ASSUME ActivatorStop PROVE Registered(d, l)
    BY <1>20 DEF ActivatorStop, proxy_alive_stop
<1>21. ASSUME ActivatorJoin PROVE Registered(d, l)
    BY <1>21 DEF ActivatorJoin, ActivatorLoop, shm_unlink
<1>22. ASSUME ActivatorSet PROVE Registered(d, l)
    BY <1>22 DEF ActivatorSet, NextKind, thread_table_set
<1>23. ASSUME ActivatorSignal PROVE Registered(d, l)
    BY <1>23 DEF ActivatorSignal, ActivatorLoop
<1>24. ASSUME TerminatorStart PROVE Registered(d, l)
    BY <1>24 DEF TerminatorStart
<1>25. ASSUME TerminatorAwake PROVE Registered(d, l)
    BY <1>25 DEF TerminatorAwake
<1>26. ASSUME TerminatorPop PROVE Registered(d, l)
    BY <1>26 DEF TerminatorPop
<1>27. ASSUME TerminatorSleep PROVE Registered(d, l)
    BY <1>27 DEF TerminatorSleep
<1>28. ASSUME TerminatorDrop PROVE Registered(d, l)
    BY <1>28 DEF TerminatorDrop, proxy_thread_terminating_drop
<1>29. ASSUME NEW n \in Name, MainKill(n) PROVE Registered(d, l)
    BY <1>29 DEF MainKill, proxy_thread_terminating_set
<1>30. ASSUME MainStop PROVE Registered(d, l)
    BY <1>30 DEF MainStop
<1>31. ASSUME MainDrop PROVE Registered(d, l)
    BY <1>31 DEF MainDrop, proxy_thread_terminating_drop
<1>32. ASSUME MainEndActivator PROVE Registered(d, l)
    BY <1>32 DEF MainEndActivator, Wake, ActivationUnlocked
<1>33. ASSUME MainEndTerminator PROVE Registered(d, l)
    BY <1>33 DEF MainEndTerminator, Wake, TerminatorUnlocked
<1>34. ASSUME MainCleanUp PROVE Registered(d, l)
    BY <1>34 DEF MainCleanUp
<1>35. ASSUME UNCHANGED vars PROVE Registered(d, l)
    BY <1>35
<1> QED
    <2> HIDE DEF TypeInv, KillInv, RequestInv, Settled, Pending, Registered, Entry, Killing,
                 Locked,
            Killer, Kind, Subscribe, Channel, Alive
    <2> QED
        BY <1>1, <1>2, <1>3, <1>4, <1>5, <1>6, <1>7, <1>8, <1>9, <1>10, <1>11, <1>12, <1>13,
           <1>14, <1>15, <1>16, <1>17, <1>18, <1>19, <1>20, <1>21, <1>22, <1>23, <1>24, <1>25,
           <1>26, <1>27, <1>28, <1>29, <1>30, <1>31, <1>32, <1>33, <1>34, <1>35
           DEF Next, ActivatorStep, TerminatorStep, MainStep, KillStep, Killer

(* Whose death it is, it is handed on until the entry is removed.           *)
LEMMA DueStep ==
    ASSUME TypeInv, KillInv, RequestInv, NEW d \in Incarnation, NEW l \in Kind, Settled(d, l),
           Registered(d, l), Registered(d, l)', Due(d, l),
           [Next]_vars
    PROVE  Due(d, l)'
<1> USE NamesDiffer, NameType
        DEF TypeInv, KillInv, RequestInv, Settled, Registered, Due, OnItsWay, Entry, Killing,
            Locked, Killer, Kind, Subscribe, Channel, Alive,
            Goto, vars, proxies, activation, threads, killing, registry, stopping
<1>1. ASSUME NEW i \in Incarnation, Start(i) PROVE Due(d, l)'
    BY <1>1 DEF Start
<1>2. ASSUME NEW i \in Incarnation, Ask(i) PROVE Due(d, l)'
    BY <1>2 DEF Ask, Wake, ActivationUnlocked
<1>3. ASSUME NEW i \in Incarnation, Acknowledge(i) PROVE Due(d, l)'
    BY <1>3 DEF Acknowledge, Wake, ActivationUnlocked
<1>4. ASSUME NEW i \in Incarnation, Crash(i) PROVE Due(d, l)'
    BY <1>4 DEF Crash, Lives, Die, ActivationUnlocked
<1>5. ASSUME NEW i \in Incarnation, Quit(i) PROVE Due(d, l)'
    BY <1>5 DEF Quit, Lives, Die
<1>6. ASSUME NEW i \in Incarnation, AliveNotice(i) PROVE Due(d, l)'
    BY <1>6 DEF AliveNotice, proxy_thread_terminating_set
<1>7. ASSUME NEW i \in Incarnation, AliveAwake(i) PROVE Due(d, l)'
    <2>1. /\ queue \in Seq(Name) /\ NameOf(i) \in Name
          /\ queue' = Append(queue, NameOf(i)) /\ UNCHANGED <<watched, victim, pc, found, kind>>
          /\ alive' = [alive EXCEPT ![i] = "exited"] /\ alive[i] = "noted"
        BY <1>7 DEF AliveAwake, proxy_terminator_awake
    <2>2. \A k \in DOMAIN queue : k \in DOMAIN queue' /\ queue'[k] = queue[k]
        BY <2>1
    <2>3. Len(queue) + 1 \in DOMAIN queue' /\ queue'[Len(queue) + 1] = NameOf(i)
        BY <2>1
    <2>4. CASE d = i
        BY <2>3, <2>4
    <2>5. CASE d # i
        BY <2>1, <2>2, <2>5
    <2> QED
        BY <2>4, <2>5
<1>8. ASSUME NEW x \in Killer, KillLock(x) PROVE Due(d, l)'
    BY <1>8 DEF KillLock
<1>9. ASSUME NEW x \in Killer, KillStop(x) PROVE Due(d, l)'
    BY <1>9 DEF KillStop, NextKind, thread_table_get, proxy_alive_stop
<1>10. ASSUME NEW x \in Killer, KillJoin(x) PROVE Due(d, l)'
    BY <1>10 DEF KillJoin, NextKind, thread_table_remove, shm_unlink
<1>11. ASSUME NEW x \in Killer, KillUnlock(x) PROVE Due(d, l)'
    BY <1>11 DEF KillUnlock
<1>12. ASSUME ActivatorIdle PROVE Due(d, l)'
    BY <1>12 DEF ActivatorIdle, ActivatorLoop
<1>13. ASSUME ActivatorExit PROVE Due(d, l)'
    BY <1>13 DEF ActivatorExit
<1>14. ASSUME ActivatorRequest PROVE Due(d, l)'
    BY <1>14 DEF ActivatorRequest, proxy_thread_zombie
<1>15. ASSUME ActivatorUnmapped PROVE Due(d, l)'
    BY <1>15 DEF ActivatorUnmapped, ActivatorLoop, shm_get
<1>16. ASSUME ActivatorCreate PROVE Due(d, l)'
    <2>1. /\ pc["activator"] = "killed" /\ requester \in Incarnation
          /\ alive[requester] = "none"
        BY <1>16 DEF ActivatorCreate, KillInv, RequestInv, Working
    <2>2. /\ alive' = [alive EXCEPT ![requester] = "watch"]
          /\ watched' = [watched EXCEPT ![requester] = segment[NameOf(requester)]]
          /\ UNCHANGED <<queue, found, kind>>
          /\ pc'["terminator"] = pc["terminator"] /\ victim'["terminator"] = victim["terminator"]
        BY <1>16 DEF ActivatorCreate, shm_get
    <2>3. alive'[d] = alive[d] /\ watched'[d] = watched[d]
        BY <2>1, <2>2
    <2> QED
        BY <2>2, <2>3
<1>17. ASSUME ActivatorRelock PROVE Due(d, l)'
    BY <1>17 DEF ActivatorRelock
<1>18. ASSUME ActivatorAnswer PROVE Due(d, l)'
    BY <1>18 DEF ActivatorAnswer
<1>19. ASSUME ActivatorRefused PROVE Due(d, l)'
    BY <1>19 DEF ActivatorRefused, ActivatorLoop
<1>20. ASSUME ActivatorStop PROVE Due(d, l)'
    BY <1>20 DEF ActivatorStop, proxy_alive_stop
<1>21. ASSUME ActivatorJoin PROVE Due(d, l)'
    BY <1>21 DEF ActivatorJoin, ActivatorLoop, shm_unlink
<1>22. ASSUME ActivatorSet PROVE Due(d, l)'
    BY <1>22 DEF ActivatorSet, NextKind, thread_table_set
<1>23. ASSUME ActivatorSignal PROVE Due(d, l)'
    BY <1>23 DEF ActivatorSignal, ActivatorLoop
<1>24. ASSUME TerminatorStart PROVE Due(d, l)'
    BY <1>24 DEF TerminatorStart
<1>25. ASSUME TerminatorAwake PROVE Due(d, l)'
    BY <1>25 DEF TerminatorAwake
<1>26. ASSUME TerminatorPop PROVE Due(d, l)'
    <2>1. /\ queue \in Seq(Name) /\ queue # <<>>
          /\ queue' = Tail(queue) /\ UNCHANGED <<alive, watched>>
          /\ victim' = [victim EXCEPT !["terminator"] = Head(queue)]
          /\ pc["terminator"] = "pop" /\ pc' = [pc EXCEPT !["terminator"] = "kill"]
        BY <1>26 DEF TerminatorPop
    <2>2. ASSUME NEW k \in DOMAIN queue, queue[k] = NameOf(d)
          PROVE  OnItsWay(d, l)' \/ \E a \in DOMAIN queue' : queue'[a] = NameOf(d)
        <3>1. CASE k = 1
            BY <2>1, <2>2, <3>1
        <3>2. CASE k # 1
            <4>1. k - 1 \in DOMAIN Tail(queue) /\ Tail(queue)[k - 1] = queue[k]
                BY <2>1, <2>2, <3>2
            <4> QED
                BY <2>1, <2>2, <4>1
        <3> QED
            BY <3>1, <3>2
    <2>3. ~OnItsWay(d, l)
        BY <2>1
    <2> HIDE DEF OnItsWay
    <2> QED
        BY <2>1, <2>2, <2>3
<1>27. ASSUME TerminatorSleep PROVE Due(d, l)'
    BY <1>27 DEF TerminatorSleep
<1>28. ASSUME TerminatorDrop PROVE Due(d, l)'
    BY <1>28 DEF TerminatorDrop, proxy_thread_terminating_drop
<1>29. ASSUME NEW n \in Name, MainKill(n) PROVE Due(d, l)'
    BY <1>29 DEF MainKill, proxy_thread_terminating_set
<1>30. ASSUME MainStop PROVE Due(d, l)'
    BY <1>30 DEF MainStop
<1>31. ASSUME MainDrop PROVE Due(d, l)'
    BY <1>31 DEF MainDrop, proxy_thread_terminating_drop
<1>32. ASSUME MainEndActivator PROVE Due(d, l)'
    BY <1>32 DEF MainEndActivator, Wake, ActivationUnlocked
<1>33. ASSUME MainEndTerminator PROVE Due(d, l)'
    BY <1>33 DEF MainEndTerminator, Wake, TerminatorUnlocked
<1>34. ASSUME MainCleanUp PROVE Due(d, l)'
    BY <1>34 DEF MainCleanUp
<1>35. ASSUME UNCHANGED vars PROVE Due(d, l)'
    BY <1>35
<1> QED
    <2> HIDE DEF TypeInv, KillInv, RequestInv, Settled, Registered, Due, OnItsWay, Entry,
                 Killing, Locked,
            Killer, Kind, Subscribe, Channel, Alive
    <2> QED
        BY <1>1, <1>2, <1>3, <1>4, <1>5, <1>6, <1>7, <1>8, <1>9, <1>10, <1>11, <1>12, <1>13,
           <1>14, <1>15, <1>16, <1>17, <1>18, <1>19, <1>20, <1>21, <1>22, <1>23, <1>24, <1>25,
           <1>26, <1>27, <1>28, <1>29, <1>30, <1>31, <1>32, <1>33, <1>34, <1>35
           DEF Next, ActivatorStep, TerminatorStep, MainStep, KillStep, Killer

\* DeadIsDropped's safety core.  From when a thread of a proxy is in its table,
\* with its alive thread at work, until it is taken out, by whomever: the alive
\* thread waits for the end of that very proxy, or has noticed it and goes on to
\* queue the name, or the name is in the queue, or the terminator is on its way
\* to the entry.  No death is noticed in vain (proxyalive.c:97-104,
\* proxyterminator.c:56-67).
THEOREM DeathIsHandedOn ==
    \A i \in Incarnation, k \in Kind :
        Spec => [](Registered(i, k) /\ alive[i] \in {"watch", "noted"}
                    => [](Registered(i, k) => Due(i, k)))
<1> SUFFICES ASSUME NEW i \in Incarnation, NEW k \in Kind
             PROVE  Spec => [](Registered(i, k) /\ alive[i] \in {"watch", "noted"}
                                => [](Registered(i, k) => Due(i, k)))
    OBVIOUS
<1> DEFINE Kept == Settled(i, k) /\ (Registered(i, k) => Due(i, k))
<1>1. LifeInv /\ WatchInv /\ Registered(i, k) /\ alive[i] \in {"watch", "noted"} => Kept
    <2> SUFFICES ASSUME LifeInv, WatchInv, Registered(i, k), alive[i] \in {"watch", "noted"}
                 PROVE  Kept
        OBVIOUS
    <2>1. i # None /\ NameOf(i) \in Name
        BY NamesDiffer, NameType
    <2>2. watched[i] = i
        BY <2>1 DEF WatchInv, RegisteredWatches, Registered
    <2>3. requester = i => ~Pending(k)
        BY <2>1 DEF LifeInv, TableInv, ClearedIsFree, Cleared, Registered
    <2> QED
        BY <2>2, <2>3 DEF Settled, Due
<1>2. LifeInv /\ Kept /\ [Next]_vars => Kept'
    <2> SUFFICES ASSUME LifeInv, Kept, [Next]_vars PROVE Kept'
        OBVIOUS
    <2>1. Settled(i, k)'
        BY SettledStep DEF LifeInv
    <2>2. ASSUME Registered(i, k)' PROVE Due(i, k)'
        <3>1. Registered(i, k)
            BY <2>2, SettledIsNotPut DEF LifeInv
        <3> QED
            BY <2>2, <3>1, DueStep DEF LifeInv
    <2> QED
        BY <2>1, <2>2
<1>3. Kept => (Registered(i, k) => Due(i, k))
    OBVIOUS
<1> QED
    <2> HIDE DEF Kept
    <2> QED
        BY <1>1, <1>2, <1>3, WatchInvariant, PTL DEF Spec

=============================================================================
