--------------------------- MODULE ProxyLifecycle ---------------------------
(***************************************************************************)
(* How proxies come and go: the activator's handshake with a proxy that    *)
(* starts (proxyactivator.c), the three threads it creates for it and the  *)
(* tables it puts them in, the alive thread that notices the proxy's death *)
(* (proxyalive.c), the terminator that is told of it (proxyterminator.c),  *)
(* proxy_thread_kill, which activator, terminator and main call (proxy.c), *)
(* and main's end (work.c).  Proxies are external: processes that start    *)
(* under a name, one after the other, and may die at any moment.           *)
(*                                                                         *)
(* Two locks are held while a thread waits for another: the kill lock      *)
(* (proxy_thread_kill_lock) and the terminator's (proxy_terminator_lock).  *)
(* The activation lock is held by the activator except where it waits; a   *)
(* proxy holds it for one action.  Stopping the channel and the subscribe  *)
(* thread is taken to succeed here: that is the matter of ProxyChannel.    *)
(***************************************************************************)
EXTENDS Naturals, Sequences

CONSTANTS
    Name,            \* names of proxies
    MaxIncarnation,  \* processes started under one name
    Stopping,        \* TRUE: main may be told to stop
    LateStart,       \* TRUE: the terminator may not have its lock yet
    None

Incarnation == Name \X (1..MaxIncarnation)
NameOf(i) == i[1]
Killer == {"activator", "terminator", "main"}

\* The kinds of threads, in the order in which they are registered
\* (proxyactivator.c:120-122), stopped and joined (proxy.c:72-117).
Subscribe == 1
Channel == 2
Alive == 3
Kind == 1..3

ASSUME NoneAssumption == None \notin Incarnation \union Name \union Killer
ASSUME BoundAssumption == MaxIncarnation \in Nat
ASSUME FlagAssumption == Stopping \in BOOLEAN /\ LateStart \in BOOLEAN

VARIABLES
    process,      \* incarnation -> new, started, asked, up, dead
    sigterm,      \* incarnations that were sent SIGTERM
    segment,      \* name -> who created what its shared memory paths lead to
    state,        \* ProxyActivationShm.state
    requester,    \* ProxyActivationShm.proxy_name and pid
    owner_dead,   \* the last holder of the activation lock died with it
    wakeup,       \* condition variables with a signal for their waiter
    context,      \* <<incarnation, kind>>: contexts not destroyed
    running,      \* <<incarnation, kind>>: threads not joined
    alive,        \* incarnation -> its alive thread: none, watch, noted, exited
    watched,      \* incarnation -> the process whose alive lock it waits for
    table,        \* kind -> name -> incarnation, the thread tables
    zombies,      \* proxy_terminating_arr
    queue,        \* proxy_terminator_queue
    kill_lock,    \* holder of proxy_thread_kill_lock
    victim,       \* killer -> name it kills
    found,        \* killer -> kind -> entry found in the table
    kind,         \* killer -> kind to be stopped, joined or registered next
    outcome,      \* local state of proxy_activation
    keys,         \* names proxy_thread_kill_all has yet to kill
    ended,        \* threads that are told to end
    served,       \* incarnations that ever were in the channel thread table
    pc

vars == <<process, sigterm, segment, state, requester, owner_dead, wakeup,
          context, running, alive, watched, table, zombies, queue, kill_lock,
          victim, found, kind, outcome, keys, ended, served, pc>>

proxies == <<process, segment>>
activation == <<state, requester, owner_dead>>
threads == <<context, running, watched>>
killing == <<kill_lock, victim, found, kind>>
registry == <<table, served>>
stopping == <<keys, ended>>

Init ==
    /\ process = [i \in Incarnation |-> "new"]
    /\ sigterm = {}
    /\ segment = [n \in Name |-> None]
    /\ state = "IDLE" /\ requester = None /\ owner_dead = FALSE
    /\ wakeup = {}
    /\ context = {} /\ running = {}
    /\ alive = [i \in Incarnation |-> "none"]
    /\ watched = [i \in Incarnation |-> None]
    /\ table = [k \in Kind |-> [n \in Name |-> None]]
    /\ zombies = {} /\ queue = <<>>
    /\ kill_lock = None
    /\ victim = [x \in Killer |-> None]
    /\ found = [x \in Killer |-> [k \in Kind |-> None]]
    /\ kind = [x \in Killer |-> Subscribe]
    /\ outcome = "none"
    /\ keys = {} /\ ended = {} /\ served = {}
    /\ \E t \in {"wait"} \union (IF LateStart THEN {"start"} ELSE {}) :
          pc = [activator |-> "wait", terminator |-> t, main |-> "run"]

Goto(x, label) == pc' = [pc EXCEPT ![x] = label]

\* pthread_cond_signal to the one thread that waits on x's condition variable.
Wake(x, labels) == wakeup' = IF pc[x] \in labels THEN wakeup \union {x} ELSE wakeup

\* Nobody has the lock between two actions while the activator waits for it.
ActivationUnlocked == pc["activator"] \in {"wait", "window", "answer", "exit"}
TerminatorUnlocked == pc["terminator"] \in {"start", "wait", "exit"}

-----------------------------------------------------------------------------
(***************************************************************************)
(* What the threads call.                                                  *)
(***************************************************************************)
\* The zombie list: names whose threads wait for the terminator.
proxy_thread_terminating_set(n) == zombies' = zombies \union {n}
proxy_thread_terminating_drop(n) == zombies' = zombies \ {n}
proxy_thread_zombie(n) == n \in zombies

\* The three segments of the name, if all of them exist.
shm_get(n) == segment[n]

\* Destroying a context unlinks its name's segment, whoever created it.
shm_unlink(n) == segment' = [segment EXCEPT ![n] = None]

\* Mutant: the terminator is signalled, but finds nothing in its queue.
proxy_terminator_awake_empty(n) ==
    /\ UNCHANGED queue
    /\ Wake("terminator", {"wait"})

proxy_terminator_awake(n) ==
    /\ queue' = Append(queue, n)
    /\ Wake("terminator", {"wait"})

\* SIGTERM, unless the alive thread knows that the proxy is dead.
proxy_alive_stop(i) == sigterm' = IF alive[i] = "watch" THEN sigterm \union {i} ELSE sigterm

thread_table_get(k, n) == table[k][n]

\* A table's entry goes, and with it the context it names.
thread_table_remove(k, n) ==
    /\ table' = [table EXCEPT ![k][n] = None]
    /\ context' = context \ {<<table[k][n], k>>}

\* An entry that is there is removed before.
thread_table_set(k, n, i) ==
    /\ table' = [table EXCEPT ![k][n] = i]
    /\ context' = context \ {<<table[k][n], k>>}

-----------------------------------------------------------------------------
(***************************************************************************)
(* Proxies (external, see sequence/05_proxy_start.d2): the process creates *)
(* its segments and locks its alive lock, then asks to be activated.       *)
(***************************************************************************)
\* A name is used by one process at a time.
Start(i) ==
    /\ process[i] = "new"
    /\ \A k \in 1..(i[2] - 1) : process[<<i[1], k>>] = "dead"
    /\ process' = [process EXCEPT ![i] = "started"]
    /\ segment' = [segment EXCEPT ![NameOf(i)] = i]
    /\ UNCHANGED <<sigterm, activation, wakeup, threads, alive, registry, zombies, queue,
                   killing, outcome, stopping, pc>>

Ask(i) ==
    /\ process[i] = "started"
    /\ ActivationUnlocked
    /\ state = "IDLE"
    /\ state' = "REQUEST" /\ requester' = i /\ owner_dead' = FALSE
    /\ process' = [process EXCEPT ![i] = "asked"]
    /\ Wake("activator", {"wait"})
    /\ UNCHANGED <<sigterm, segment, threads, alive, registry, zombies, queue,
                   killing, outcome, stopping, pc>>

\* The proxy has its answer; told that its predecessor is dying, it may ask again.
Acknowledge(i) ==
    /\ process[i] = "asked" /\ requester = i
    /\ ActivationUnlocked
    /\ state \in {"SUCCESS", "PROXY_DYING"}
    /\ process' = [process EXCEPT ![i] = IF state = "SUCCESS" THEN "up" ELSE "started"]
    /\ state' = "DONE" /\ owner_dead' = FALSE
    /\ Wake("activator", {"answer"})
    /\ UNCHANGED <<sigterm, segment, requester, threads, alive, registry, zombies, queue,
                   killing, outcome, stopping, pc>>

Lives(i) == process[i] \notin {"new", "dead"}

Die(i) ==
    /\ process' = [process EXCEPT ![i] = "dead"]
    /\ UNCHANGED <<sigterm, segment, state, requester, wakeup, threads, alive, registry,
                   zombies, queue, killing, outcome, stopping, pc>>

\* It may die at any moment, and while it starts with the activation lock.
Crash(i) ==
    /\ Lives(i)
    /\ \/ UNCHANGED owner_dead
       \/ process[i] \in {"started", "asked"} /\ ActivationUnlocked /\ owner_dead' = TRUE
    /\ Die(i)

\* It ends when told to, and when it senses that gonggo does.
Quit(i) ==
    /\ Lives(i)
    /\ i \in sigterm \/ pc["main"] # "run"
    /\ Die(i) /\ UNCHANGED owner_dead

-----------------------------------------------------------------------------
(***************************************************************************)
(* The alive thread of the activation of i (proxy_alive).                  *)
(***************************************************************************)
\* It gets the lock that the proxy held: the name is a zombie's from now on.
AliveNotice(i) ==
    /\ alive[i] = "watch"
    /\ process[watched[i]] = "dead"
    /\ alive' = [alive EXCEPT ![i] = "noted"]
    /\ proxy_thread_terminating_set(NameOf(i))
    /\ UNCHANGED <<proxies, sigterm, activation, wakeup, threads, registry, queue,
                   killing, outcome, stopping, pc>>

\* proxy_terminator_awake, then the thread ends.
AliveAwake(i) ==
    /\ alive[i] = "noted"
    /\ TerminatorUnlocked
    /\ proxy_terminator_awake(NameOf(i))
    /\ alive' = [alive EXCEPT ![i] = "exited"]
    /\ UNCHANGED <<proxies, sigterm, activation, threads, registry, zombies,
                   killing, outcome, stopping, pc>>

-----------------------------------------------------------------------------
(***************************************************************************)
(* proxy_thread_kill(victim[x]), at pc "kill"; it ends at "killed".        *)
(***************************************************************************)
KillLock(x) ==
    /\ pc[x] = "kill"
    /\ kill_lock = None
    /\ kill_lock' = x
    /\ Goto(x, "stop")
    /\ UNCHANGED <<proxies, sigterm, activation, wakeup, threads, alive, registry,
                   zombies, queue, victim, found, kind, outcome, stopping>>

\* Mutant: the kinds are not counted from the first again.
NextKind_on(x, here, label) ==
    /\ kind' = [kind EXCEPT ![x] = @ + 1]
    /\ Goto(x, IF kind[x] = Alive THEN label ELSE here)

\* The next kind, or the first again and on to label.
NextKind(x, here, label) ==
    /\ kind' = [kind EXCEPT ![x] = IF @ = Alive THEN Subscribe ELSE @ + 1]
    /\ Goto(x, IF kind[x] = Alive THEN label ELSE here)

\* Look the thread up and stop it.
KillStop(x) ==
    LET i == thread_table_get(kind[x], victim[x]) IN
    /\ pc[x] = "stop"
    /\ found' = [found EXCEPT ![x][kind[x]] = i]
    /\ IF kind[x] = Alive /\ i # None THEN proxy_alive_stop(i) ELSE UNCHANGED sigterm
    /\ NextKind(x, "stop", "join")
    /\ UNCHANGED <<proxies, activation, wakeup, threads, alive, registry, zombies, queue,
                   kill_lock, victim, outcome, stopping>>

\* Mutant: the context's shared memory keeps its path.
KillJoin_linked(x) ==
    LET k == kind[x]  i == found[x][k] IN
    /\ pc[x] = "join"
    /\ IF i = None
          THEN UNCHANGED <<table, context, running>>
          ELSE /\ k = Alive => alive[i] = "exited"
               /\ running' = running \ {<<i, k>>}
               /\ thread_table_remove(k, victim[x])
    /\ NextKind(x, "join", "unlock")
    /\ UNCHANGED <<proxies, sigterm, activation, wakeup, watched, alive, served, zombies,
                   queue, kill_lock, victim, found, outcome, stopping>>

\* Mutant: the alive thread is not waited for.
KillJoin_detached(x) ==
    LET k == kind[x]  i == found[x][k] IN
    /\ pc[x] = "join"
    /\ IF i = None
          THEN UNCHANGED <<table, context, running, segment>>
          ELSE /\ running' = IF k = Alive THEN running ELSE running \ {<<i, k>>}
               /\ thread_table_remove(k, victim[x])
               /\ shm_unlink(victim[x])
    /\ NextKind(x, "join", "unlock")
    /\ UNCHANGED <<process, sigterm, activation, wakeup, watched, alive, served, zombies,
                   queue, kill_lock, victim, found, outcome, stopping>>

\* Join the thread that was found, remove the name's entry and destroy its
\* context, which unlinks the name's shared memory, whoever created it.
KillJoin(x) ==
    LET k == kind[x]  i == found[x][k] IN
    /\ pc[x] = "join"
    /\ IF i = None
          THEN UNCHANGED <<table, context, running, segment>>
          ELSE /\ k = Alive => alive[i] = "exited"
               /\ running' = running \ {<<i, k>>}
               /\ thread_table_remove(k, victim[x])
               /\ shm_unlink(victim[x])
    /\ NextKind(x, "join", "unlock")
    /\ UNCHANGED <<process, sigterm, activation, wakeup, watched, alive, served, zombies,
                   queue, kill_lock, victim, found, outcome, stopping>>

\* Mutant: with no thread to stop, the lock is kept.
KillUnlock_kept(x) ==
    /\ pc[x] = "unlock"
    /\ kill_lock' = IF \A k \in Kind : found[x][k] = None THEN kill_lock ELSE None
    /\ found' = [found EXCEPT ![x] = [k \in Kind |-> None]]
    /\ Goto(x, "killed")
    /\ UNCHANGED <<proxies, sigterm, activation, wakeup, threads, alive, registry, zombies,
                   queue, victim, kind, outcome, stopping>>

KillUnlock(x) ==
    /\ pc[x] = "unlock"
    /\ kill_lock' = None
    /\ found' = [found EXCEPT ![x] = [k \in Kind |-> None]]
    /\ Goto(x, "killed")
    /\ UNCHANGED <<proxies, sigterm, activation, wakeup, threads, alive, registry, zombies,
                   queue, victim, kind, outcome, stopping>>

KillStep(x) == KillLock(x) \/ KillStop(x) \/ KillJoin(x) \/ KillUnlock(x)

-----------------------------------------------------------------------------
(***************************************************************************)
(* The activator.                                                          *)
(***************************************************************************)
\* The head of proxy_activator's loop, up to the wait.
ActivatorLoop ==
    /\ outcome' = "none"
    /\ wakeup' = wakeup \ {"activator"}
    /\ owner_dead' = FALSE
    /\ IF "activator" \in ended
          THEN Goto("activator", "exit") /\ UNCHANGED <<state, requester>>
          ELSE Goto("activator", "wait") /\ state' = "IDLE" /\ requester' = None

\* Woken for nothing, or by a proxy that died with the lock.
ActivatorIdle ==
    /\ pc["activator"] = "wait" /\ "activator" \in wakeup
    /\ state # "TERMINATION"
    /\ owner_dead \/ state # "REQUEST" \/ "activator" \in ended
    /\ ActivatorLoop
    /\ UNCHANGED <<proxies, sigterm, threads, alive, registry, zombies, queue, killing, stopping>>

ActivatorExit ==
    /\ \/ pc["activator"] = "wait" /\ "activator" \in wakeup /\ state = "TERMINATION"
       \/ pc["activator"] = "decide" /\ outcome = "terminated" /\ <<requester, Alive>> \notin context
    /\ Goto("activator", "exit")
    /\ UNCHANGED <<proxies, sigterm, activation, wakeup, threads, alive, registry, zombies,
                   queue, killing, outcome, stopping>>

\* Mutant: threads of the name are not killed before new ones are created.
ActivatorRequest_over ==
    /\ pc["activator"] = "wait" /\ "activator" \in wakeup
    /\ state = "REQUEST" /\ ~owner_dead /\ "activator" \notin ended
    /\ wakeup' = wakeup \ {"activator"}
    /\ outcome' = "failed"
    /\ IF proxy_thread_zombie(NameOf(requester))
          THEN state' = "PROXY_DYING" /\ Goto("activator", "window")
          ELSE UNCHANGED state /\ Goto("activator", "killed")
    /\ UNCHANGED <<proxies, sigterm, requester, owner_dead, threads, alive, registry, zombies,
                   queue, killing, stopping>>

\* proxy_activation begins: a zombie's name is refused, else its threads are killed.
ActivatorRequest ==
    /\ pc["activator"] = "wait" /\ "activator" \in wakeup
    /\ state = "REQUEST" /\ ~owner_dead /\ "activator" \notin ended
    /\ wakeup' = wakeup \ {"activator"}
    /\ outcome' = "failed"
    /\ IF proxy_thread_zombie(NameOf(requester))
          THEN /\ state' = "PROXY_DYING"
               /\ Goto("activator", "window")
               /\ UNCHANGED victim
          ELSE /\ victim' = [victim EXCEPT !["activator"] = NameOf(requester)]
               /\ Goto("activator", "kill")
               /\ UNCHANGED state
    /\ UNCHANGED <<proxies, sigterm, requester, owner_dead, threads, alive, registry, zombies,
                   queue, kill_lock, found, kind, stopping>>

\* A segment is missing: back to idle, and the proxy gets no answer.
ActivatorUnmapped ==
    /\ pc["activator"] = "killed"
    /\ shm_get(NameOf(requester)) = None
    /\ ActivatorLoop
    /\ victim' = [victim EXCEPT !["activator"] = None]
    /\ UNCHANGED <<proxies, sigterm, threads, alive, registry, zombies, queue,
                   kill_lock, found, kind, stopping>>

\* The threads are created, and the proxy is told.
ActivatorCreate ==
    /\ pc["activator"] = "killed"
    /\ shm_get(NameOf(requester)) # None
    /\ victim' = [victim EXCEPT !["activator"] = None]
    /\ context' = context \union {<<requester, k>> : k \in Kind}
    /\ running' = running \union {<<requester, k>> : k \in Kind}
    /\ alive' = [alive EXCEPT ![requester] = "watch"]
    /\ watched' = [watched EXCEPT ![requester] = shm_get(NameOf(requester))]
    /\ state' = "SUCCESS" /\ outcome' = "success"
    /\ Goto("activator", "window")
    /\ UNCHANGED <<proxies, sigterm, requester, owner_dead, wakeup, registry, zombies, queue,
                   kill_lock, found, kind, stopping>>

\* Lock again after 1 ms (proxyactivator.c:296-305).
ActivatorRelock ==
    /\ pc["activator"] = "window"
    /\ owner_dead' = FALSE
    /\ outcome' = IF owner_dead THEN "dead" ELSE outcome
    /\ Goto("activator", IF owner_dead \/ state = "DONE" THEN "decide" ELSE "answer")
    /\ UNCHANGED <<proxies, sigterm, state, requester, wakeup, threads, alive, registry,
                   zombies, queue, killing, stopping>>

\* The timed wait is over, by a signal or because its time is.
ActivatorAnswer ==
    /\ pc["activator"] = "answer"
    /\ owner_dead' = FALSE
    /\ wakeup' = wakeup \ {"activator"}
    /\ outcome' = IF state = "TERMINATION" THEN "terminated"
                  ELSE IF owner_dead THEN "dead"
                  ELSE IF state # "DONE" /\ outcome = "success" THEN "timeout"
                  ELSE outcome
    /\ Goto("activator", "decide")
    /\ UNCHANGED <<proxies, sigterm, state, requester, threads, alive, registry, zombies,
                   queue, killing, stopping>>

\* Mutant: the threads of a proxy that died with the lock go on.
ActivatorRefused_running ==
    /\ pc["activator"] = "decide"
    /\ outcome = "dead" \/ (outcome = "failed" /\ <<requester, Alive>> \notin context)
    /\ ActivatorLoop
    /\ UNCHANGED <<proxies, sigterm, threads, alive, registry, zombies, queue, killing, stopping>>

\* Not successful, and there are no threads to stop.
ActivatorRefused ==
    /\ pc["activator"] = "decide"
    /\ outcome \in {"failed", "dead"} /\ <<requester, Alive>> \notin context
    /\ ActivatorLoop
    /\ UNCHANGED <<proxies, sigterm, threads, alive, registry, zombies, queue, killing, stopping>>

\* Not successful: the three threads are stopped,
ActivatorStop ==
    /\ pc["activator"] = "decide"
    /\ outcome # "success" /\ <<requester, Alive>> \in context
    /\ proxy_alive_stop(requester)
    /\ Goto("activator", "giveup")
    /\ UNCHANGED <<proxies, activation, wakeup, threads, alive, registry, zombies, queue,
                   killing, outcome, stopping>>

\* joined, and their contexts destroyed.
ActivatorJoin ==
    /\ pc["activator"] = "giveup"
    /\ alive[requester] = "exited"
    /\ running' = running \ {<<requester, k>> : k \in Kind}
    /\ context' = context \ {<<requester, k>> : k \in Kind}
    /\ shm_unlink(NameOf(requester))
    /\ IF outcome = "terminated"
          THEN Goto("activator", "exit") /\ UNCHANGED <<outcome, wakeup, activation>>
          ELSE ActivatorLoop
    /\ UNCHANGED <<process, sigterm, watched, alive, registry, zombies, queue, killing, stopping>>

\* Successful: the threads are registered.
ActivatorSet ==
    LET k == kind["activator"] IN
    /\ pc["activator"] = "decide" /\ outcome = "success"
    /\ thread_table_set(k, NameOf(requester), requester)
    /\ served' = IF k = Channel THEN served \union {requester} ELSE served
    /\ NextKind("activator", "decide", "signal")
    /\ UNCHANGED <<proxies, sigterm, activation, wakeup, running, watched, alive, zombies,
                   queue, kill_lock, victim, found, outcome, stopping>>

\* The channel thread is woken for what waited, and clients are told.
ActivatorSignal ==
    /\ pc["activator"] = "signal"
    /\ ActivatorLoop
    /\ UNCHANGED <<proxies, sigterm, threads, alive, registry, zombies, queue, killing, stopping>>

ActivatorStep ==
    \/ ActivatorIdle \/ ActivatorExit \/ ActivatorRequest \/ KillStep("activator")
    \/ ActivatorUnmapped \/ ActivatorCreate \/ ActivatorRelock \/ ActivatorAnswer
    \/ ActivatorRefused \/ ActivatorStop \/ ActivatorJoin \/ ActivatorSet \/ ActivatorSignal

-----------------------------------------------------------------------------
(***************************************************************************)
(* The terminator.  Its lock is free only where it waits.                  *)
(***************************************************************************)
TerminatorStart ==
    /\ pc["terminator"] = "start"
    /\ Goto("terminator", IF "terminator" \in ended THEN "exit" ELSE "wait")
    /\ UNCHANGED <<proxies, sigterm, activation, wakeup, threads, alive, registry, zombies,
                   queue, killing, outcome, stopping>>

TerminatorAwake ==
    /\ pc["terminator"] = "wait" /\ "terminator" \in wakeup
    /\ wakeup' = wakeup \ {"terminator"}
    /\ Goto("terminator", "pop")
    /\ UNCHANGED <<proxies, sigterm, activation, threads, alive, registry, zombies, queue,
                   killing, outcome, stopping>>

TerminatorPop ==
    /\ pc["terminator"] = "pop"
    /\ queue # <<>>
    /\ queue' = Tail(queue)
    /\ victim' = [victim EXCEPT !["terminator"] = Head(queue)]
    /\ Goto("terminator", "kill")
    /\ UNCHANGED <<proxies, sigterm, activation, wakeup, threads, alive, registry, zombies,
                   kill_lock, found, kind, outcome, stopping>>

\* The queue is empty.
TerminatorSleep ==
    /\ pc["terminator"] = "pop"
    /\ queue = <<>>
    /\ Goto("terminator", IF "terminator" \in ended THEN "exit" ELSE "wait")
    /\ UNCHANGED <<proxies, sigterm, activation, wakeup, threads, alive, registry, zombies,
                   queue, killing, outcome, stopping>>

TerminatorDrop ==
    /\ pc["terminator"] = "killed"
    /\ proxy_thread_terminating_drop(victim["terminator"])
    /\ victim' = [victim EXCEPT !["terminator"] = None]
    /\ Goto("terminator", "pop")
    /\ UNCHANGED <<proxies, sigterm, activation, wakeup, threads, alive, registry, queue,
                   kill_lock, found, kind, outcome, stopping>>

TerminatorStep ==
    \/ TerminatorStart \/ TerminatorAwake \/ TerminatorPop \/ TerminatorSleep
    \/ TerminatorDrop \/ KillStep("terminator")

-----------------------------------------------------------------------------
(***************************************************************************)
(* main's end.                                                             *)
(***************************************************************************)
\* alive_mutex_die, then the keys of the alive thread table are copied.
MainStop ==
    /\ Stopping
    /\ pc["main"] = "run"
    /\ keys' = {n \in Name : table[Alive][n] # None}
    /\ Goto("main", "killall")
    /\ UNCHANGED <<proxies, sigterm, activation, wakeup, threads, alive, registry, zombies,
                   queue, killing, outcome, ended>>

MainKill(n) ==
    /\ pc["main"] = "killall"
    /\ n \in keys
    /\ keys' = keys \ {n}
    /\ proxy_thread_terminating_set(n)
    /\ victim' = [victim EXCEPT !["main"] = n]
    /\ Goto("main", "kill")
    /\ UNCHANGED <<proxies, sigterm, activation, wakeup, threads, alive, registry, queue,
                   kill_lock, found, kind, outcome, ended>>

MainDrop ==
    /\ pc["main"] = "killed"
    /\ proxy_thread_terminating_drop(victim["main"])
    /\ victim' = [victim EXCEPT !["main"] = None]
    /\ Goto("main", "killall")
    /\ UNCHANGED <<proxies, sigterm, activation, wakeup, threads, alive, registry, queue,
                   kill_lock, found, kind, outcome, stopping>>

\* proxy_activator_stop
MainEndActivator ==
    /\ pc["main"] = "killall" /\ keys = {}
    /\ ActivationUnlocked
    /\ state' = "TERMINATION" /\ owner_dead' = FALSE
    /\ ended' = ended \union {"activator"}
    /\ Wake("activator", {"wait", "answer"})
    /\ Goto("main", "end")
    /\ UNCHANGED <<proxies, sigterm, requester, threads, alive, registry, zombies, queue,
                   killing, outcome, keys>>

\* Mutant: proxy_terminator_stop does not wake the terminator.
MainEndTerminator_silent ==
    /\ pc["main"] = "end"
    /\ TerminatorUnlocked
    /\ ended' = ended \union {"terminator"}
    /\ Goto("main", "clean")
    /\ UNCHANGED <<proxies, sigterm, activation, wakeup, threads, alive, registry, zombies,
                   queue, killing, outcome, keys>>

\* proxy_terminator_stop
MainEndTerminator ==
    /\ pc["main"] = "end"
    /\ TerminatorUnlocked
    /\ ended' = ended \union {"terminator"}
    /\ Wake("terminator", {"wait"})
    /\ Goto("main", "clean")
    /\ UNCHANGED <<proxies, sigterm, activation, threads, alive, registry, zombies, queue,
                   killing, outcome, keys>>

\* Both are joined; clean_up destroys the thread tables with what is in them.
MainCleanUp ==
    /\ pc["main"] = "clean"
    /\ pc["activator"] = "exit" /\ pc["terminator"] = "exit"
    /\ context' = context \ {<<table[k][n], k>> : k \in Kind, n \in Name}
    /\ segment' = [n \in Name |-> IF \E k \in Kind : table[k][n] # None
                                     THEN None ELSE segment[n]]
    /\ table' = [k \in Kind |-> [n \in Name |-> None]]
    /\ Goto("main", "exit")
    /\ UNCHANGED <<process, sigterm, activation, wakeup, running, watched, alive, served,
                   zombies, queue, killing, outcome, stopping>>

MainStep ==
    \/ (\E n \in Name : MainKill(n)) \/ KillStep("main") \/ MainDrop
    \/ MainEndActivator \/ MainEndTerminator \/ MainCleanUp

-----------------------------------------------------------------------------
Next ==
    \/ \E i \in Incarnation :
          Start(i) \/ Ask(i) \/ Acknowledge(i) \/ Crash(i) \/ Quit(i)
          \/ AliveNotice(i) \/ AliveAwake(i)
    \/ ActivatorStep \/ TerminatorStep \/ MainStop \/ MainStep

\* Threads run unless they are blocked, and a timed wait ends.  No proxy has to
\* start, ask, acknowledge or die, but it ends when it is told to.
Fairness ==
    /\ WF_vars(ActivatorStep) /\ WF_vars(TerminatorStep) /\ WF_vars(MainStep)
    /\ \A i \in Incarnation :
          WF_vars(AliveNotice(i)) /\ WF_vars(AliveAwake(i)) /\ WF_vars(Quit(i))

Spec == Init /\ [][Next]_vars /\ Fairness

-----------------------------------------------------------------------------
(***************************************************************************)
(* Properties.                                                             *)
(***************************************************************************)
EntryType == Incarnation \union {None}

\* Every variable has its type.
TypeOK ==
    /\ process \in [Incarnation -> {"new", "started", "asked", "up", "dead"}]
    /\ sigterm \in SUBSET Incarnation
    /\ segment \in [Name -> EntryType]
    /\ state \in {"IDLE", "REQUEST", "PROXY_DYING", "SUCCESS", "DONE", "TERMINATION"}
    /\ requester \in EntryType /\ owner_dead \in BOOLEAN
    /\ wakeup \in SUBSET {"activator", "terminator"}
    /\ context \in SUBSET (Incarnation \X Kind) /\ running \in SUBSET (Incarnation \X Kind)
    /\ alive \in [Incarnation -> {"none", "watch", "noted", "exited"}]
    /\ watched \in [Incarnation -> EntryType]
    /\ table \in [Kind -> [Name -> EntryType]]
    /\ zombies \in SUBSET Name /\ queue \in Seq(Name)
    /\ kill_lock \in Killer \union {None}
    /\ victim \in [Killer -> Name \union {None}]
    /\ found \in [Killer -> [Kind -> EntryType]]
    /\ kind \in [Killer -> Kind]
    /\ outcome \in {"none", "failed", "success", "dead", "timeout", "terminated"}
    /\ keys \in SUBSET Name /\ ended \in SUBSET Killer
    /\ served \in SUBSET Incarnation
    /\ DOMAIN pc = Killer

\* No context is destroyed before its thread is joined: not by the kill, which
\* joins the thread it has looked up and then removes the entry by name, not by
\* a table_set over an entry, and not by a failed activation (proxy.c:95-117,
\* proxychannelthreadtable.c:42, proxyactivator.c:348-364).
ContextOutlivesThread == pc["main"] # "exit" => running \subseteq context

\* Threads run for one process of a name at a time (proxyactivator.c:246).
OneIncarnation ==
    \A a, b \in running : NameOf(a[1]) = NameOf(b[1]) => a[1] = b[1]

\* Whoever had the name's segments when a process was activated was that process.
OwnSegments == \A i \in Incarnation : watched[i] \in {None, i}

\* The terminator comes late: by the time it kills, the name may have passed to
\* a new process.  It stops no thread of a living one (proxyterminator.c:63),
\* unless a process that died while it was activated was given the segments of
\* its successor, whose death then puts the name in the queue a second time, or
\* main's kill took the name off the zombies (proxy.c:143).
TerminatorSparesLiving ==
    OwnSegments /\ pc["main"] = "run" =>
        \A k \in Kind :
            LET i == found["terminator"][k] IN i # None => process[i] = "dead"

\* The thread tables implement the life of a proxy that ProxyLife states.
LatestServed(n) ==
    LET ks == {i[2] : i \in {j \in served : NameOf(j) = n}} IN
    IF ks = {} THEN 0 ELSE CHOOSE k \in ks : \A l \in ks : l <= k
Life == INSTANCE ProxyLife WITH
    serving <- [n \in Name |-> IF table[Channel][n] = None THEN 0 ELSE table[Channel][n][2]],
    latest <- [n \in Name |-> LatestServed(n)]
LifeSpec == Life!Spec

\* A killer joins an alive thread that waits for the terminator's lock, and the
\* terminator, which has it, waits for the kill lock or is that killer itself
\* (proxy.c:113, proxyalive.c:104, proxyterminator.c:63).
LockCycle ==
    \E x \in Killer :
        /\ kill_lock = x /\ pc[x] = "join" /\ kind[x] = Alive
        /\ found[x][Alive] # None /\ alive[found[x][Alive]] = "noted"
        /\ x = "terminator" \/ pc["terminator"] = "kill"

\* Whoever has the kill lock gives it back, unless that cycle closes.
KillEndsOrCycle == \A x \in Killer : kill_lock = x ~> (kill_lock # x \/ []LockCycle)

\* proxyalive.c:103, a zombie "should be removed in void* proxy_terminator": the
\* name of a dead proxy can be used again some time, unless gonggo stops.
ZombieGoes ==
    \A n \in Name :
        n \in zombies ~> (n \notin zombies \/ "terminator" \in ended \/ []LockCycle)

\* When main is told to stop, gonggo ends, unless that cycle closes (work.c:232-250).
StopEndsOrCycle == pc["main"] = "killall" ~> (pc["main"] = "exit" \/ []LockCycle)

\* A proxy whose death is noticed when its threads are in the tables is dropped
\* from them, unless gonggo stops or that cycle closes (proxyalive.c:97-104,
\* proxyterminator.c:56-67).  One that dies before is registered dead.
DeadIsDropped ==
    \A i \in Incarnation, k \in Kind :
        process[i] = "dead" /\ alive[i] = "watch" /\ table[k][NameOf(i)] = i
            ~> (table[k][NameOf(i)] # i \/ "terminator" \in ended \/ []LockCycle)

=============================================================================
