-------------------------- MODULE GonggoMain_proofs --------------------------
(***************************************************************************)
(* What holds of gonggo processes however many are launched, crash, fail   *)
(* to start or are stopped.  An invariant of six parts: the pid file, the  *)
(* segment of the alive mutex, what that segment says, the threads, the    *)
(* web server, and the proxies; every part is shown to be kept action by   *)
(* action.  Two more parts, at the end, say what the main thread may have  *)
(* to wait for.                                                            *)
(***************************************************************************)
EXTENDS GonggoMain, TLAPS

(* TypeOK in the form in which the provers use it.                          *)
State == Loop \union Cleaning \union
            {"new", "lock", "write", "init", "create", "start", "terminator", "alivelock",
             "activator", "server", "die", "killall", "stop", "join", "dead"}

Pointer == Process \union {None}

TypeInv ==
    /\ pc \in [Process -> State]
    /\ exiting \in SUBSET Process /\ tables \in SUBSET Process
    /\ robbed \in SUBSET Process /\ announced \in SUBSET Process /\ served \in SUBSET Process
    /\ activator \in SUBSET Process /\ stuck \in SUBSET Process /\ stopper \in SUBSET Process
    /\ path \in Pointer /\ alive_path \in Pointer /\ port \in Pointer
    /\ proxies \in [Process -> SUBSET {"early", "late"}]
    /\ opened \in [Process -> Pointer]
    /\ content \in [Process -> Pointer]
    /\ holder \in [Process -> Pointer]
    /\ segment \in [Process -> Pointer]
    /\ owner \in [Process -> Pointer]
    /\ alive \in [Process -> BOOLEAN]
    /\ phase \in [Process -> [Thread -> {"none", "out", "pass", "done"}]]
    /\ ended \in [Process -> SUBSET Thread]
    /\ conn \in [Process -> {"none", "open", "busy"}]
    /\ stops \in 0 .. MaxStop /\ troubles \in 0 .. MaxTrouble /\ activations \in 0 .. MaxProxy

LEMMA NoneIsNoProcess == None \notin Process
BY NullAssumption DEF Process

LEMMA TypeEq == TypeOK <=> TypeInv
BY DEF TypeOK, TypeInv, State, Pointer

LEMMA TypeInit == Init => TypeInv
BY BoundAssumption DEF Init, TypeInv, State, Pointer, Loop, Cleaning, Over, Thread

(* Types, action by action.                                                *)
LEMMA TypeStep == TypeInv /\ [Next]_vars => TypeInv'
<1> SUFFICES ASSUME TypeInv, [Next]_vars PROVE TypeInv'
    OBVIOUS
<1> USE BoundAssumption
        DEF TypeInv, files, shm, threads, server, proxying, count, history, Goto, Loop,
            Cleaning, Over,
            Thread, State, Pointer
<1>1. ASSUME NEW p \in Process, OpenPid(p) PROVE TypeInv'
    BY <1>1 DEF OpenPid
<1>2. ASSUME NEW p \in Process, LockPid(p) PROVE TypeInv'
    BY <1>2 DEF LockPid
<1>3. ASSUME NEW p \in Process, Refused(p) PROVE TypeInv'
    BY <1>3 DEF Refused, Dies, NoProxies
<1>4. ASSUME NEW p \in Process, WritePid(p) PROVE TypeInv'
    BY <1>4 DEF WritePid
<1>5. ASSUME NEW p \in Process, Install(p) PROVE TypeInv'
    BY <1>5 DEF Install
<1>6. ASSUME NEW p \in Process, Create(p) PROVE TypeInv'
    BY <1>6 DEF Create
<1>7. ASSUME NEW p \in Process, StartThread(p) PROVE TypeInv'
    BY <1>7 DEF StartThread
<1>8. ASSUME NEW p \in Process, StartTerminator(p) PROVE TypeInv'
    BY <1>8 DEF StartTerminator
<1>9. ASSUME NEW p \in Process, alive_mutex_lock(p) PROVE TypeInv'
    BY <1>9 DEF alive_mutex_lock
<1>10. ASSUME NEW p \in Process, StartActivator(p) PROVE TypeInv'
    BY <1>10 DEF StartActivator
<1>11. ASSUME NEW p \in Process, StartServer(p) PROVE TypeInv'
    BY <1>11 DEF StartServer
<1>12. ASSUME NEW p \in Process, ServerFails(p) PROVE TypeInv'
    <2>1. (port # None /\ UNCHANGED count) \/ Trouble
        BY <1>12 DEF ServerFails
    <2>2. stops' \in 0 .. MaxStop /\ troubles' \in 0 .. MaxTrouble /\ UNCHANGED <<stopper, activations>>
        BY <2>1 DEF Trouble
    <2>3. alive' \in [Process -> BOOLEAN] /\ owner' \in [Process -> Pointer]
        BY <1>12 DEF ServerFails, alive_mutex_die
    <2> QED
        BY <1>12, <2>2, <2>3 DEF ServerFails, alive_mutex_die
<1>13. ASSUME NEW p \in Process, Test(p) PROVE TypeInv'
    BY <1>13 DEF Test
<1>14. ASSUME NEW p \in Process, Pause(p) PROVE TypeInv'
    BY <1>14 DEF Pause
<1>15. ASSUME NEW p \in Process, Die(p) PROVE TypeInv'
    BY <1>15 DEF Die, alive_mutex_die
<1>16. ASSUME NEW p \in Process, StopThread(p) PROVE TypeInv'
    BY <1>16 DEF StopThread
<1>17. ASSUME NEW p \in Process, Stopped(p) PROVE TypeInv'
    BY <1>17 DEF Stopped
<1>18. ASSUME NEW p \in Process, Join(p) PROVE TypeInv'
    BY <1>18 DEF Join
<1>19. ASSUME NEW p \in Process, DestroyTables(p) PROVE TypeInv'
    BY <1>19 DEF DestroyTables
<1>20. ASSUME NEW p \in Process, alive_mutex_destroy(p) PROVE TypeInv'
    BY <1>20 DEF alive_mutex_destroy
<1>21. ASSUME NEW p \in Process, StopServer(p) PROVE TypeInv'
    BY <1>21 DEF StopServer
<1>22. ASSUME NEW p \in Process, ServerStopped(p) PROVE TypeInv'
    BY <1>22 DEF ServerStopped
<1>23. ASSUME NEW p \in Process, ClosePid(p) PROVE TypeInv'
    BY <1>23 DEF ClosePid
<1>24. ASSUME NEW p \in Process, RemovePid(p) PROVE TypeInv'
    BY <1>24 DEF RemovePid, NoProxies
<1>25. ASSUME NEW p \in Process, PidFileFails(p) PROVE TypeInv'
    BY <1>25 DEF PidFileFails, Dies, NoProxies, Trouble
<1>26. ASSUME NEW p \in Process, InstallFails(p) PROVE TypeInv'
    BY <1>26 DEF InstallFails, Trouble
<1>27. ASSUME NEW p \in Process, CreateFails(p) PROVE TypeInv'
    BY <1>27 DEF CreateFails, Trouble
<1>28. ASSUME NEW p \in Process, StartFails(p) PROVE TypeInv'
    BY <1>28 DEF StartFails, Trouble
<1>29. ASSUME NEW p \in Process, ActivatorFails(p) PROVE TypeInv'
    <2>1. stops' \in 0 .. MaxStop /\ troubles' \in 0 .. MaxTrouble /\ UNCHANGED <<stopper, activations>>
        BY <1>29 DEF ActivatorFails, Trouble
    <2>2. alive' \in [Process -> BOOLEAN] /\ owner' \in [Process -> Pointer]
        BY <1>29 DEF ActivatorFails, alive_mutex_die
    <2> QED
        BY <1>29, <2>1, <2>2 DEF ActivatorFails, alive_mutex_die
<1>30. ASSUME NEW p \in Process, Connect(p) PROVE TypeInv'
    BY <1>30 DEF Connect, SetConn
<1>31. ASSUME NEW p \in Process, HandlerBegin(p) PROVE TypeInv'
    BY <1>31 DEF HandlerBegin, SetConn
<1>32. ASSUME NEW p \in Process, HandlerEnd(p) PROVE TypeInv'
    BY <1>32 DEF HandlerEnd, SetConn
<1>33. ASSUME NEW p \in Process, Faults(p) PROVE TypeInv'
    BY <1>33 DEF Faults, Dies, NoProxies
<1>34. ASSUME NEW p \in Process, Crash(p) PROVE TypeInv'
    BY <1>34 DEF Crash, Dies, NoProxies, Trouble
<1>35. ASSUME NEW p \in Process, NEW t \in Thread, ThreadLoop(p, t) PROVE TypeInv'
    BY <1>35 DEF ThreadLoop
<1>36. ASSUME NEW p \in Process, NEW t \in Thread, ThreadWait(p, t) PROVE TypeInv'
    BY <1>36 DEF ThreadWait
<1>37. ASSUME StopRead PROVE TypeInv'
    BY <1>37 DEF StopRead
<1>38. ASSUME StopKill PROVE TypeInv'
    BY <1>38 DEF StopKill
<1>39. ASSUME UNCHANGED vars PROVE TypeInv'
    BY <1>39 DEF vars
<1>40. ASSUME NEW p \in Process, KillAll(p) PROVE TypeInv'
    BY <1>40 DEF KillAll
<1>41. ASSUME NEW p \in Process, Activate(p) PROVE TypeInv'
    BY <1>41 DEF Activate
<1>42. ASSUME NEW p \in Process, KillThreads(p) PROVE TypeInv'
    BY <1>42 DEF KillThreads
<1>43. ASSUME NEW p \in Process, Hang(p) PROVE TypeInv'
    BY <1>43 DEF Hang
<1> HIDE DEF TypeInv
<1> QED
    BY <1>1, <1>2, <1>3, <1>4, <1>5, <1>6, <1>7, <1>8, <1>9, <1>10, <1>11, <1>12, <1>13,
       <1>14, <1>15, <1>16, <1>17, <1>18, <1>19, <1>20, <1>21, <1>22, <1>23, <1>24, <1>25,
       <1>26, <1>27, <1>28, <1>29, <1>30, <1>31, <1>32, <1>33, <1>34, <1>35, <1>36, <1>37,
       <1>38, <1>39, <1>40, <1>41, <1>42, <1>43
       DEF Next, MainStep, Fails

-----------------------------------------------------------------------------
(***************************************************************************)
(* The inductive invariant.                                                *)
(***************************************************************************)

(* From the lock on the pid file to its release; and from the writing on.   *)
Locked == State \ ({"new", "lock", "remove"} \union Over)
Written == Locked \ {"write"}

(* The pid file.  Who works has locked the file it opened.  That this is    *)
(* the file the name leads to is lost only to a robbery.  The pid in it is  *)
(* overwritten only by a process that has opened it, too.                   *)
FileInv ==
    /\ \A p \in Process : IF pc[p] = "new" THEN opened[p] = None
                           ELSE pc[p] # "dead" => opened[p] \in Process
    /\ \A p \in Process : pc[p] \in Locked => holder[opened[p]] = p
    /\ \A p \in Process \ robbed : pc[p] \notin {"new"} \union Over => path = opened[p]
    /\ \A p \in Process : pc[p] \in Written =>
          /\ content[opened[p]] \in {p, None}
          /\ content[opened[p]] = None => \E q \in Process \ {p} : opened[q] = opened[p]

(* The main thread from alive_mutex_create, and from alive_mutex_lock, to   *)
(* the stop; and before alive_mutex_create.                                 *)
Mapped == {"start", "terminator", "alivelock", "activator", "server", "die"} \union Loop
Announced == {"activator", "server", "die"} \union Loop
Early == {"new", "lock", "write", "init", "create"}

(* The segment of the alive mutex is named for a process that has created   *)
(* it, so a process about to create one finds no one else's under its name. *)
SegmentInv ==
    /\ alive_path # None => pc[alive_path] \notin Early
    /\ \A p \in Process :
          /\ segment[p] # None => pc[segment[p]] \notin Early
          /\ pc[p] \in Early \union {"start", "terminator", "alivelock"} => p \notin announced
          /\ pc[p] \in Announced => p \in announced
          /\ pc[p] \in Mapped \/ p \in announced => segment[p] # None

(* What the segment says, and after alive_mutex_destroy its name is free.   *)
Truth(p) ==
    /\ pc[p] \in Mapped => alive_path = segment[p] /\ alive[segment[p]]
    /\ pc[p] \in Announced => owner[segment[p]] = p
    /\ p \in announced =>
          /\ pc[p] \in {"killall", "stop", "join"} \union Cleaning => ~alive[segment[p]]
          /\ pc[p] \in Cleaning \ {"tables", "destroy"} => alive_path # segment[p]

AliveInv == robbed = {} => \A p \in Process : Truth(p)

(* The drain and the timeout thread.                                        *)
ThreadInv ==
    \A p \in Process :
        /\ pc[p] \in Early => \A t \in Thread : phase[p][t] = "none"
        /\ pc[p] \in Cleaning => \A t \in Thread : phase[p][t] \in {"none", "done"}

(* The port is had by a main thread between mg_start2 and mg_stop.          *)
Serving ==
    Loop \union {"die", "killall", "stop", "join", "tables", "destroy", "mgstop", "mgwait"}
ServerInv ==
    /\ \A p \in Process : port = p => pc[p] \in Serving
    /\ \A p \in Process : conn[p] # "none" => port = p

(* The activator runs until it is joined.  Once main has killed the proxies *)
(* of a gonggo that served, only late ones come.                            *)
Stopping == {"die", "killall", "stop", "join"}
ProxyInv ==
    \A p \in Process :
        /\ p \in served => pc[p] \in Loop \union Stopping \union Cleaning \union {"dead"}
        /\ p \in activator => pc[p] \in {"server"} \union Loop \union Stopping
        /\ p \in served /\ pc[p] \in {"stop", "join"} \union Cleaning => "early" \notin proxies[p]

(* The pid file, action by action.                                         *)
LEMMA FileInvStep == TypeInv /\ FileInv /\ [Next]_vars => FileInv'
<1> SUFFICES ASSUME TypeInv, FileInv, [Next]_vars PROVE FileInv'
    OBVIOUS
<1> USE NoneIsNoProcess
        DEF TypeInv, FileInv, Locked, Written, files, shm, threads, server, proxying,
            count, history,
            Goto, Loop, Cleaning, Over, Thread, State, Pointer
<1>1. ASSUME NEW p \in Process, OpenPid(p) PROVE FileInv'
    <2> DEFINE f == IF path = None THEN p ELSE path
    <2>1. /\ pc[p] = "new" /\ pc' = [pc EXCEPT ![p] = "lock"]
          /\ path' = f /\ f \in Process
          /\ opened' = [opened EXCEPT ![p] = f]
          /\ content' = [content EXCEPT ![f] = None]
          /\ UNCHANGED <<holder, robbed>>
        BY <1>1 DEF OpenPid
    <2> HIDE DEF f
    <2>2. \A q \in Process : IF pc'[q] = "new" THEN opened'[q] = None
                            ELSE pc'[q] # "dead" => opened'[q] \in Process
        BY <2>1
    <2>3. \A q \in Process : pc'[q] \in Locked => holder'[opened'[q]] = q
        BY <2>1
    <2>4. ASSUME NEW q \in Process \ robbed, q # p, pc[q] \notin {"new"} \union Over
          PROVE  path = opened[q] /\ f = path
        BY <2>4 DEF f
    <2>5. \A q \in Process \ robbed : pc'[q] \notin {"new"} \union Over => path' = opened'[q]
        BY <2>1, <2>4
    <2>6. ASSUME NEW q \in Process, pc'[q] \in Written
          PROVE  /\ content'[opened'[q]] \in {q, None}
                 /\ content'[opened'[q]] = None =>
                        \E x \in Process \ {q} : opened'[x] = opened'[q]
        <3>1. q # p /\ pc[q] \in Written /\ opened'[q] = opened[q] /\ opened[q] \in Process
            BY <2>1, <2>6
        <3>2. CASE opened[q] = f
            BY <2>1, <3>1, <3>2
        <3>3. CASE opened[q] # f
            <4>1. content'[opened[q]] = content[opened[q]]
                BY <2>1, <3>1, <3>3
            <4>3. content[opened[q]] \in {q, None}
                BY <3>1
            <4>4. content[opened[q]] = None =>
                    \E x \in Process \ {q} : opened[x] = opened[q] /\ x # p
                BY <3>1, <2>1
            <4> QED
                BY <2>1, <3>1, <4>1, <4>3, <4>4
        <3> QED
            BY <3>2, <3>3
    <2> QED
        BY <2>1, <2>2, <2>3, <2>5, <2>6
<1>2. ASSUME NEW p \in Process, LockPid(p) PROVE FileInv'
    BY <1>2 DEF LockPid
<1>3. ASSUME NEW p \in Process, Refused(p) PROVE FileInv'
    BY <1>3 DEF Refused, Dies
<1>4. ASSUME NEW p \in Process, WritePid(p) PROVE FileInv'
    BY <1>4 DEF WritePid
<1>5. ASSUME NEW p \in Process, Install(p) PROVE FileInv'
    BY <1>5 DEF Install
<1>6. ASSUME NEW p \in Process, Create(p) PROVE FileInv'
    <2>1. /\ pc[p] = "create" /\ pc' = [pc EXCEPT ![p] = "start"]
          /\ UNCHANGED <<path, opened, content, holder, robbed>>
        BY <1>6 DEF Create
    <2> QED
        BY <2>1
<1>7. ASSUME NEW p \in Process, StartThread(p) PROVE FileInv'
    BY <1>7 DEF StartThread
<1>8. ASSUME NEW p \in Process, StartTerminator(p) PROVE FileInv'
    BY <1>8 DEF StartTerminator
<1>9. ASSUME NEW p \in Process, alive_mutex_lock(p) PROVE FileInv'
    BY <1>9 DEF alive_mutex_lock
<1>10. ASSUME NEW p \in Process, StartActivator(p) PROVE FileInv'
    BY <1>10 DEF StartActivator
<1>11. ASSUME NEW p \in Process, StartServer(p) PROVE FileInv'
    BY <1>11 DEF StartServer
<1>12. ASSUME NEW p \in Process, ServerFails(p) PROVE FileInv'
    BY <1>12 DEF ServerFails, alive_mutex_die
<1>13. ASSUME NEW p \in Process, Test(p) PROVE FileInv'
    BY <1>13 DEF Test
<1>14. ASSUME NEW p \in Process, Pause(p) PROVE FileInv'
    BY <1>14 DEF Pause
<1>15. ASSUME NEW p \in Process, Die(p) PROVE FileInv'
    BY <1>15 DEF Die, alive_mutex_die
<1>16. ASSUME NEW p \in Process, StopThread(p) PROVE FileInv'
    BY <1>16 DEF StopThread
<1>17. ASSUME NEW p \in Process, Stopped(p) PROVE FileInv'
    BY <1>17 DEF Stopped
<1>18. ASSUME NEW p \in Process, Join(p) PROVE FileInv'
    BY <1>18 DEF Join
<1>19. ASSUME NEW p \in Process, DestroyTables(p) PROVE FileInv'
    BY <1>19 DEF DestroyTables
<1>20. ASSUME NEW p \in Process, alive_mutex_destroy(p) PROVE FileInv'
    BY <1>20 DEF alive_mutex_destroy
<1>21. ASSUME NEW p \in Process, StopServer(p) PROVE FileInv'
    BY <1>21 DEF StopServer
<1>22. ASSUME NEW p \in Process, ServerStopped(p) PROVE FileInv'
    BY <1>22 DEF ServerStopped
<1>23. ASSUME NEW p \in Process, ClosePid(p) PROVE FileInv'
    BY <1>23 DEF ClosePid
<1>24. ASSUME NEW p \in Process, RemovePid(p) PROVE FileInv'
    BY <1>24 DEF RemovePid
<1>25. ASSUME NEW p \in Process, PidFileFails(p) PROVE FileInv'
    BY <1>25 DEF PidFileFails, Dies
<1>26. ASSUME NEW p \in Process, InstallFails(p) PROVE FileInv'
    BY <1>26 DEF InstallFails
<1>27. ASSUME NEW p \in Process, CreateFails(p) PROVE FileInv'
    BY <1>27 DEF CreateFails
<1>28. ASSUME NEW p \in Process, StartFails(p) PROVE FileInv'
    BY <1>28 DEF StartFails
<1>29. ASSUME NEW p \in Process, ActivatorFails(p) PROVE FileInv'
    BY <1>29 DEF ActivatorFails, alive_mutex_die
<1>30. ASSUME NEW p \in Process, Connect(p) PROVE FileInv'
    BY <1>30 DEF Connect, SetConn
<1>31. ASSUME NEW p \in Process, HandlerBegin(p) PROVE FileInv'
    BY <1>31 DEF HandlerBegin, SetConn
<1>32. ASSUME NEW p \in Process, HandlerEnd(p) PROVE FileInv'
    BY <1>32 DEF HandlerEnd, SetConn
<1>33. ASSUME NEW p \in Process, Faults(p) PROVE FileInv'
    BY <1>33 DEF Faults, Dies
<1>34. ASSUME NEW p \in Process, Crash(p) PROVE FileInv'
    BY <1>34 DEF Crash, Dies
<1>35. ASSUME NEW p \in Process, NEW t \in Thread, ThreadLoop(p, t) PROVE FileInv'
    BY <1>35 DEF ThreadLoop
<1>36. ASSUME NEW p \in Process, NEW t \in Thread, ThreadWait(p, t) PROVE FileInv'
    BY <1>36 DEF ThreadWait
<1>37. ASSUME StopRead PROVE FileInv'
    BY <1>37 DEF StopRead
<1>38. ASSUME StopKill PROVE FileInv'
    <2>1. \A q \in Process : \/ pc'[q] = pc[q] \/ pc'[q] = "dead"
                             \/ pc[q] = "paused" /\ pc'[q] = "test"
        BY <1>38 DEF StopKill
    <2>2. \A f \in Process : \/ holder'[f] = holder[f]
                             \/ holder[f] \in Process /\ pc'[holder[f]] = "dead"
        BY <1>38 DEF StopKill
    <2>3. UNCHANGED <<path, opened, content, robbed>>
        BY <1>38 DEF StopKill
    <2> QED
        BY <2>1, <2>2, <2>3
<1>39. ASSUME UNCHANGED vars PROVE FileInv'
    BY <1>39 DEF vars
<1>40. ASSUME NEW p \in Process, KillAll(p) PROVE FileInv'
    BY <1>40 DEF KillAll
<1>41. ASSUME NEW p \in Process, Activate(p) PROVE FileInv'
    BY <1>41 DEF Activate
<1>42. ASSUME NEW p \in Process, KillThreads(p) PROVE FileInv'
    BY <1>42 DEF KillThreads
<1>43. ASSUME NEW p \in Process, Hang(p) PROVE FileInv'
    BY <1>43 DEF Hang
<1> HIDE DEF TypeInv, FileInv
<1> QED
    BY <1>1, <1>2, <1>3, <1>4, <1>5, <1>6, <1>7, <1>8, <1>9, <1>10, <1>11, <1>12, <1>13,
       <1>14, <1>15, <1>16, <1>17, <1>18, <1>19, <1>20, <1>21, <1>22, <1>23, <1>24, <1>25,
       <1>26, <1>27, <1>28, <1>29, <1>30, <1>31, <1>32, <1>33, <1>34, <1>35, <1>36, <1>37,
       <1>38, <1>39, <1>40, <1>41, <1>42, <1>43
       DEF Next, MainStep, Fails

(* The threads, action by action.                                           *)
LEMMA ThreadInvStep == TypeInv /\ ThreadInv /\ [Next]_vars => ThreadInv'
<1> SUFFICES ASSUME TypeInv, ThreadInv, [Next]_vars PROVE ThreadInv'
    OBVIOUS
<1> USE NoneIsNoProcess
        DEF TypeInv, ThreadInv, Early, Started, files, shm, threads, server, proxying,
            count, history,
            Goto, Loop, Cleaning, Over, Thread, State, Pointer
<1>1. ASSUME NEW p \in Process, OpenPid(p) PROVE ThreadInv'
    BY <1>1 DEF OpenPid
<1>2. ASSUME NEW p \in Process, LockPid(p) PROVE ThreadInv'
    BY <1>2 DEF LockPid
<1>3. ASSUME NEW p \in Process, Refused(p) PROVE ThreadInv'
    BY <1>3 DEF Refused, Dies
<1>4. ASSUME NEW p \in Process, WritePid(p) PROVE ThreadInv'
    BY <1>4 DEF WritePid
<1>5. ASSUME NEW p \in Process, Install(p) PROVE ThreadInv'
    BY <1>5 DEF Install
<1>6. ASSUME NEW p \in Process, Create(p) PROVE ThreadInv'
    BY <1>6 DEF Create
<1>7. ASSUME NEW p \in Process, StartThread(p) PROVE ThreadInv'
    BY <1>7 DEF StartThread
<1>8. ASSUME NEW p \in Process, StartTerminator(p) PROVE ThreadInv'
    BY <1>8 DEF StartTerminator
<1>9. ASSUME NEW p \in Process, alive_mutex_lock(p) PROVE ThreadInv'
    BY <1>9 DEF alive_mutex_lock
<1>10. ASSUME NEW p \in Process, StartActivator(p) PROVE ThreadInv'
    BY <1>10 DEF StartActivator
<1>11. ASSUME NEW p \in Process, StartServer(p) PROVE ThreadInv'
    BY <1>11 DEF StartServer
<1>12. ASSUME NEW p \in Process, ServerFails(p) PROVE ThreadInv'
    BY <1>12 DEF ServerFails, alive_mutex_die
<1>13. ASSUME NEW p \in Process, Test(p) PROVE ThreadInv'
    BY <1>13 DEF Test
<1>14. ASSUME NEW p \in Process, Pause(p) PROVE ThreadInv'
    BY <1>14 DEF Pause
<1>15. ASSUME NEW p \in Process, Die(p) PROVE ThreadInv'
    BY <1>15 DEF Die, alive_mutex_die
<1>16. ASSUME NEW p \in Process, StopThread(p) PROVE ThreadInv'
    BY <1>16 DEF StopThread
<1>17. ASSUME NEW p \in Process, Stopped(p) PROVE ThreadInv'
    BY <1>17 DEF Stopped
<1>18. ASSUME NEW p \in Process, Join(p) PROVE ThreadInv'
    BY <1>18 DEF Join
<1>19. ASSUME NEW p \in Process, DestroyTables(p) PROVE ThreadInv'
    BY <1>19 DEF DestroyTables
<1>20. ASSUME NEW p \in Process, alive_mutex_destroy(p) PROVE ThreadInv'
    BY <1>20 DEF alive_mutex_destroy
<1>21. ASSUME NEW p \in Process, StopServer(p) PROVE ThreadInv'
    BY <1>21 DEF StopServer
<1>22. ASSUME NEW p \in Process, ServerStopped(p) PROVE ThreadInv'
    BY <1>22 DEF ServerStopped
<1>23. ASSUME NEW p \in Process, ClosePid(p) PROVE ThreadInv'
    BY <1>23 DEF ClosePid
<1>24. ASSUME NEW p \in Process, RemovePid(p) PROVE ThreadInv'
    BY <1>24 DEF RemovePid
<1>25. ASSUME NEW p \in Process, PidFileFails(p) PROVE ThreadInv'
    BY <1>25 DEF PidFileFails, Dies
<1>26. ASSUME NEW p \in Process, InstallFails(p) PROVE ThreadInv'
    BY <1>26 DEF InstallFails
<1>27. ASSUME NEW p \in Process, CreateFails(p) PROVE ThreadInv'
    BY <1>27 DEF CreateFails
<1>28. ASSUME NEW p \in Process, StartFails(p) PROVE ThreadInv'
    BY <1>28 DEF StartFails
<1>29. ASSUME NEW p \in Process, ActivatorFails(p) PROVE ThreadInv'
    BY <1>29 DEF ActivatorFails, alive_mutex_die
<1>30. ASSUME NEW p \in Process, Connect(p) PROVE ThreadInv'
    BY <1>30 DEF Connect, SetConn
<1>31. ASSUME NEW p \in Process, HandlerBegin(p) PROVE ThreadInv'
    BY <1>31 DEF HandlerBegin, SetConn
<1>32. ASSUME NEW p \in Process, HandlerEnd(p) PROVE ThreadInv'
    BY <1>32 DEF HandlerEnd, SetConn
<1>33. ASSUME NEW p \in Process, Faults(p) PROVE ThreadInv'
    BY <1>33 DEF Faults, Dies
<1>34. ASSUME NEW p \in Process, Crash(p) PROVE ThreadInv'
    BY <1>34 DEF Crash, Dies
<1>35. ASSUME NEW p \in Process, NEW t \in Thread, ThreadLoop(p, t) PROVE ThreadInv'
    BY <1>35 DEF ThreadLoop
<1>36. ASSUME NEW p \in Process, NEW t \in Thread, ThreadWait(p, t) PROVE ThreadInv'
    BY <1>36 DEF ThreadWait
<1>37. ASSUME StopRead PROVE ThreadInv'
    BY <1>37 DEF StopRead
<1>38. ASSUME StopKill PROVE ThreadInv'
    BY <1>38 DEF StopKill
<1>39. ASSUME UNCHANGED vars PROVE ThreadInv'
    BY <1>39 DEF vars
<1>40. ASSUME NEW p \in Process, KillAll(p) PROVE ThreadInv'
    BY <1>40 DEF KillAll
<1>41. ASSUME NEW p \in Process, Activate(p) PROVE ThreadInv'
    BY <1>41 DEF Activate
<1>42. ASSUME NEW p \in Process, KillThreads(p) PROVE ThreadInv'
    BY <1>42 DEF KillThreads
<1>43. ASSUME NEW p \in Process, Hang(p) PROVE ThreadInv'
    BY <1>43 DEF Hang
<1> QED
    BY <1>1, <1>2, <1>3, <1>4, <1>5, <1>6, <1>7, <1>8, <1>9, <1>10, <1>11, <1>12, <1>13,
       <1>14, <1>15, <1>16, <1>17, <1>18, <1>19, <1>20, <1>21, <1>22, <1>23, <1>24, <1>25,
       <1>26, <1>27, <1>28, <1>29, <1>30, <1>31, <1>32, <1>33, <1>34, <1>35, <1>36, <1>37,
       <1>38, <1>39, <1>40, <1>41, <1>42, <1>43
       DEF Next, MainStep, Fails

(* The web server, action by action.                                        *)
LEMMA ServerInvStep == TypeInv /\ ServerInv /\ [Next]_vars => ServerInv'
<1> SUFFICES ASSUME TypeInv, ServerInv, [Next]_vars PROVE ServerInv'
    OBVIOUS
<1> USE NoneIsNoProcess
        DEF TypeInv, ServerInv, Serving, files, shm, threads, server, proxying, count,
            history, Goto,
            Loop, Cleaning, Over, Thread, State, Pointer
<1>1. ASSUME NEW p \in Process, OpenPid(p) PROVE ServerInv'
    BY <1>1 DEF OpenPid
<1>2. ASSUME NEW p \in Process, LockPid(p) PROVE ServerInv'
    BY <1>2 DEF LockPid
<1>3. ASSUME NEW p \in Process, Refused(p) PROVE ServerInv'
    BY <1>3 DEF Refused, Dies
<1>4. ASSUME NEW p \in Process, WritePid(p) PROVE ServerInv'
    BY <1>4 DEF WritePid
<1>5. ASSUME NEW p \in Process, Install(p) PROVE ServerInv'
    BY <1>5 DEF Install
<1>6. ASSUME NEW p \in Process, Create(p) PROVE ServerInv'
    BY <1>6 DEF Create
<1>7. ASSUME NEW p \in Process, StartThread(p) PROVE ServerInv'
    BY <1>7 DEF StartThread
<1>8. ASSUME NEW p \in Process, StartTerminator(p) PROVE ServerInv'
    BY <1>8 DEF StartTerminator
<1>9. ASSUME NEW p \in Process, alive_mutex_lock(p) PROVE ServerInv'
    BY <1>9 DEF alive_mutex_lock
<1>10. ASSUME NEW p \in Process, StartActivator(p) PROVE ServerInv'
    BY <1>10 DEF StartActivator
<1>11. ASSUME NEW p \in Process, StartServer(p) PROVE ServerInv'
    BY <1>11 DEF StartServer
<1>12. ASSUME NEW p \in Process, ServerFails(p) PROVE ServerInv'
    BY <1>12 DEF ServerFails, alive_mutex_die
<1>13. ASSUME NEW p \in Process, Test(p) PROVE ServerInv'
    BY <1>13 DEF Test
<1>14. ASSUME NEW p \in Process, Pause(p) PROVE ServerInv'
    BY <1>14 DEF Pause
<1>15. ASSUME NEW p \in Process, Die(p) PROVE ServerInv'
    BY <1>15 DEF Die, alive_mutex_die
<1>16. ASSUME NEW p \in Process, StopThread(p) PROVE ServerInv'
    BY <1>16 DEF StopThread
<1>17. ASSUME NEW p \in Process, Stopped(p) PROVE ServerInv'
    BY <1>17 DEF Stopped
<1>18. ASSUME NEW p \in Process, Join(p) PROVE ServerInv'
    BY <1>18 DEF Join
<1>19. ASSUME NEW p \in Process, DestroyTables(p) PROVE ServerInv'
    BY <1>19 DEF DestroyTables
<1>20. ASSUME NEW p \in Process, alive_mutex_destroy(p) PROVE ServerInv'
    BY <1>20 DEF alive_mutex_destroy
<1>21. ASSUME NEW p \in Process, StopServer(p) PROVE ServerInv'
    BY <1>21 DEF StopServer
<1>22. ASSUME NEW p \in Process, ServerStopped(p) PROVE ServerInv'
    BY <1>22 DEF ServerStopped
<1>23. ASSUME NEW p \in Process, ClosePid(p) PROVE ServerInv'
    BY <1>23 DEF ClosePid
<1>24. ASSUME NEW p \in Process, RemovePid(p) PROVE ServerInv'
    BY <1>24 DEF RemovePid
<1>25. ASSUME NEW p \in Process, PidFileFails(p) PROVE ServerInv'
    BY <1>25 DEF PidFileFails, Dies
<1>26. ASSUME NEW p \in Process, InstallFails(p) PROVE ServerInv'
    BY <1>26 DEF InstallFails
<1>27. ASSUME NEW p \in Process, CreateFails(p) PROVE ServerInv'
    BY <1>27 DEF CreateFails
<1>28. ASSUME NEW p \in Process, StartFails(p) PROVE ServerInv'
    BY <1>28 DEF StartFails
<1>29. ASSUME NEW p \in Process, ActivatorFails(p) PROVE ServerInv'
    BY <1>29 DEF ActivatorFails, alive_mutex_die
<1>30. ASSUME NEW p \in Process, Connect(p) PROVE ServerInv'
    BY <1>30 DEF Connect, SetConn
<1>31. ASSUME NEW p \in Process, HandlerBegin(p) PROVE ServerInv'
    BY <1>31 DEF HandlerBegin, SetConn
<1>32. ASSUME NEW p \in Process, HandlerEnd(p) PROVE ServerInv'
    BY <1>32 DEF HandlerEnd, SetConn
<1>33. ASSUME NEW p \in Process, Faults(p) PROVE ServerInv'
    BY <1>33 DEF Faults, Dies
<1>34. ASSUME NEW p \in Process, Crash(p) PROVE ServerInv'
    BY <1>34 DEF Crash, Dies
<1>35. ASSUME NEW p \in Process, NEW t \in Thread, ThreadLoop(p, t) PROVE ServerInv'
    BY <1>35 DEF ThreadLoop
<1>36. ASSUME NEW p \in Process, NEW t \in Thread, ThreadWait(p, t) PROVE ServerInv'
    BY <1>36 DEF ThreadWait
<1>37. ASSUME StopRead PROVE ServerInv'
    BY <1>37 DEF StopRead
<1>38. ASSUME StopKill PROVE ServerInv'
    BY <1>38 DEF StopKill
<1>39. ASSUME UNCHANGED vars PROVE ServerInv'
    BY <1>39 DEF vars
<1>40. ASSUME NEW p \in Process, KillAll(p) PROVE ServerInv'
    BY <1>40 DEF KillAll
<1>41. ASSUME NEW p \in Process, Activate(p) PROVE ServerInv'
    BY <1>41 DEF Activate
<1>42. ASSUME NEW p \in Process, KillThreads(p) PROVE ServerInv'
    BY <1>42 DEF KillThreads
<1>43. ASSUME NEW p \in Process, Hang(p) PROVE ServerInv'
    BY <1>43 DEF Hang
<1> QED
    BY <1>1, <1>2, <1>3, <1>4, <1>5, <1>6, <1>7, <1>8, <1>9, <1>10, <1>11, <1>12, <1>13,
       <1>14, <1>15, <1>16, <1>17, <1>18, <1>19, <1>20, <1>21, <1>22, <1>23, <1>24, <1>25,
       <1>26, <1>27, <1>28, <1>29, <1>30, <1>31, <1>32, <1>33, <1>34, <1>35, <1>36, <1>37,
       <1>38, <1>39, <1>40, <1>41, <1>42, <1>43
       DEF Next, MainStep, Fails

(* Activator and proxies, action by action.                                 *)
LEMMA ProxyInvStep == TypeInv /\ ProxyInv /\ [Next]_vars => ProxyInv'
<1> SUFFICES ASSUME TypeInv, ProxyInv, [Next]_vars PROVE ProxyInv'
    OBVIOUS
<1> USE NoneIsNoProcess
        DEF TypeInv, ProxyInv, Stopping, files, shm, threads, server, proxying, count,
            history,
            Goto, Loop, Cleaning, Over, Thread, State, Pointer
<1>1. ASSUME NEW p \in Process, OpenPid(p) PROVE ProxyInv'
    BY <1>1 DEF OpenPid
<1>2. ASSUME NEW p \in Process, LockPid(p) PROVE ProxyInv'
    BY <1>2 DEF LockPid
<1>3. ASSUME NEW p \in Process, Refused(p) PROVE ProxyInv'
    BY <1>3 DEF Refused, Dies, NoProxies
<1>4. ASSUME NEW p \in Process, WritePid(p) PROVE ProxyInv'
    BY <1>4 DEF WritePid
<1>5. ASSUME NEW p \in Process, Install(p) PROVE ProxyInv'
    BY <1>5 DEF Install
<1>6. ASSUME NEW p \in Process, Create(p) PROVE ProxyInv'
    BY <1>6 DEF Create
<1>7. ASSUME NEW p \in Process, StartThread(p) PROVE ProxyInv'
    BY <1>7 DEF StartThread
<1>8. ASSUME NEW p \in Process, StartTerminator(p) PROVE ProxyInv'
    BY <1>8 DEF StartTerminator
<1>9. ASSUME NEW p \in Process, alive_mutex_lock(p) PROVE ProxyInv'
    BY <1>9 DEF alive_mutex_lock
<1>10. ASSUME NEW p \in Process, StartActivator(p) PROVE ProxyInv'
    BY <1>10 DEF StartActivator
<1>11. ASSUME NEW p \in Process, StartServer(p) PROVE ProxyInv'
    BY <1>11 DEF StartServer
<1>12. ASSUME NEW p \in Process, ServerFails(p) PROVE ProxyInv'
    BY <1>12 DEF ServerFails, alive_mutex_die
<1>13. ASSUME NEW p \in Process, Test(p) PROVE ProxyInv'
    BY <1>13 DEF Test
<1>14. ASSUME NEW p \in Process, Pause(p) PROVE ProxyInv'
    BY <1>14 DEF Pause
<1>15. ASSUME NEW p \in Process, Die(p) PROVE ProxyInv'
    BY <1>15 DEF Die, alive_mutex_die
<1>16. ASSUME NEW p \in Process, StopThread(p) PROVE ProxyInv'
    BY <1>16 DEF StopThread
<1>17. ASSUME NEW p \in Process, Stopped(p) PROVE ProxyInv'
    BY <1>17 DEF Stopped
<1>18. ASSUME NEW p \in Process, Join(p) PROVE ProxyInv'
    BY <1>18 DEF Join
<1>19. ASSUME NEW p \in Process, DestroyTables(p) PROVE ProxyInv'
    BY <1>19 DEF DestroyTables
<1>20. ASSUME NEW p \in Process, alive_mutex_destroy(p) PROVE ProxyInv'
    BY <1>20 DEF alive_mutex_destroy
<1>21. ASSUME NEW p \in Process, StopServer(p) PROVE ProxyInv'
    BY <1>21 DEF StopServer
<1>22. ASSUME NEW p \in Process, ServerStopped(p) PROVE ProxyInv'
    BY <1>22 DEF ServerStopped
<1>23. ASSUME NEW p \in Process, ClosePid(p) PROVE ProxyInv'
    BY <1>23 DEF ClosePid
<1>24. ASSUME NEW p \in Process, RemovePid(p) PROVE ProxyInv'
    BY <1>24 DEF RemovePid, NoProxies
<1>25. ASSUME NEW p \in Process, PidFileFails(p) PROVE ProxyInv'
    BY <1>25 DEF PidFileFails, Dies, NoProxies
<1>26. ASSUME NEW p \in Process, InstallFails(p) PROVE ProxyInv'
    BY <1>26 DEF InstallFails
<1>27. ASSUME NEW p \in Process, CreateFails(p) PROVE ProxyInv'
    BY <1>27 DEF CreateFails
<1>28. ASSUME NEW p \in Process, StartFails(p) PROVE ProxyInv'
    BY <1>28 DEF StartFails
<1>29. ASSUME NEW p \in Process, ActivatorFails(p) PROVE ProxyInv'
    BY <1>29 DEF ActivatorFails, alive_mutex_die
<1>30. ASSUME NEW p \in Process, Connect(p) PROVE ProxyInv'
    BY <1>30 DEF Connect, SetConn
<1>31. ASSUME NEW p \in Process, HandlerBegin(p) PROVE ProxyInv'
    BY <1>31 DEF HandlerBegin, SetConn
<1>32. ASSUME NEW p \in Process, HandlerEnd(p) PROVE ProxyInv'
    BY <1>32 DEF HandlerEnd, SetConn
<1>33. ASSUME NEW p \in Process, Faults(p) PROVE ProxyInv'
    BY <1>33 DEF Faults, Dies, NoProxies
<1>34. ASSUME NEW p \in Process, Crash(p) PROVE ProxyInv'
    BY <1>34 DEF Crash, Dies, NoProxies
<1>35. ASSUME NEW p \in Process, NEW t \in Thread, ThreadLoop(p, t) PROVE ProxyInv'
    BY <1>35 DEF ThreadLoop
<1>36. ASSUME NEW p \in Process, NEW t \in Thread, ThreadWait(p, t) PROVE ProxyInv'
    BY <1>36 DEF ThreadWait
<1>37. ASSUME StopRead PROVE ProxyInv'
    BY <1>37 DEF StopRead
<1>38. ASSUME StopKill PROVE ProxyInv'
    BY <1>38 DEF StopKill
<1>39. ASSUME UNCHANGED vars PROVE ProxyInv'
    BY <1>39 DEF vars
<1>40. ASSUME NEW p \in Process, KillAll(p) PROVE ProxyInv'
    BY <1>40 DEF KillAll
<1>41. ASSUME NEW p \in Process, Activate(p) PROVE ProxyInv'
    BY <1>41 DEF Activate
<1>42. ASSUME NEW p \in Process, KillThreads(p) PROVE ProxyInv'
    BY <1>42 DEF KillThreads
<1>43. ASSUME NEW p \in Process, Hang(p) PROVE ProxyInv'
    BY <1>43 DEF Hang
<1> QED
    BY <1>1, <1>2, <1>3, <1>4, <1>5, <1>6, <1>7, <1>8, <1>9, <1>10, <1>11, <1>12, <1>13,
       <1>14, <1>15, <1>16, <1>17, <1>18, <1>19, <1>20, <1>21, <1>22, <1>23, <1>24, <1>25,
       <1>26, <1>27, <1>28, <1>29, <1>30, <1>31, <1>32, <1>33, <1>34, <1>35, <1>36, <1>37,
       <1>38, <1>39, <1>40, <1>41, <1>42, <1>43
       DEF Next, MainStep, Fails

(* Of the processes that were not robbed one has the lock.                  *)
LEMMA Exclusive ==
    ASSUME TypeInv, FileInv,
           NEW p \in Process \ robbed, NEW q \in Process \ robbed,
           pc[p] \in Locked, pc[q] \in Locked
    PROVE  p = q
BY DEF FileInv, TypeInv, Locked, Over

(* The segment's name, action by action.                                    *)
LEMMA SegmentInvStep == TypeInv /\ SegmentInv /\ [Next]_vars => SegmentInv'
<1> SUFFICES ASSUME TypeInv, SegmentInv, [Next]_vars PROVE SegmentInv'
    OBVIOUS
<1> USE NoneIsNoProcess
        DEF TypeInv, SegmentInv, Early, Announced, Mapped, files, shm, threads, server,
            count,
            history, Goto, Loop, Cleaning, Over, Thread, State, Pointer
<1>1. ASSUME NEW p \in Process, OpenPid(p) PROVE SegmentInv'
    BY <1>1 DEF OpenPid
<1>2. ASSUME NEW p \in Process, LockPid(p) PROVE SegmentInv'
    BY <1>2 DEF LockPid
<1>3. ASSUME NEW p \in Process, Refused(p) PROVE SegmentInv'
    BY <1>3 DEF Refused, Dies
<1>4. ASSUME NEW p \in Process, WritePid(p) PROVE SegmentInv'
    BY <1>4 DEF WritePid
<1>5. ASSUME NEW p \in Process, Install(p) PROVE SegmentInv'
    BY <1>5 DEF Install
<1>6. ASSUME NEW p \in Process, Create(p) PROVE SegmentInv'
    <2> DEFINE s == IF alive_path = None THEN p ELSE alive_path
    <2>1. /\ pc[p] = "create" /\ pc' = [pc EXCEPT ![p] = "start"]
          /\ alive_path' = s /\ segment' = [segment EXCEPT ![p] = s]
          /\ UNCHANGED history
        BY <1>6 DEF Create
    <2>2. s \in Process /\ pc'[s] \notin Early
        BY <2>1
    <2> HIDE DEF s
    <2>3. ASSUME NEW q \in Process, segment'[q] # None PROVE pc'[segment'[q]] \notin Early
        <3>1. CASE q = p
            BY <2>1, <2>2, <3>1
        <3>2. CASE q # p
            <4>1. segment'[q] = segment[q] /\ segment[q] \in Process /\ segment[q] # p
                BY <2>1, <2>3, <3>2
            <4> QED
                BY <2>1, <2>3, <4>1
        <3> QED
            BY <3>1, <3>2
    <2>4. ASSUME NEW q \in Process
          PROVE  /\ pc'[q] \in Early \union {"start", "terminator", "alivelock"} =>
                       q \notin announced'
                 /\ pc'[q] \in Announced => q \in announced'
                 /\ pc'[q] \in Mapped \/ q \in announced' => segment'[q] # None
        <3>1. CASE q = p
            <4>1. pc'[p] = "start" /\ segment'[p] # None /\ announced' = announced
                BY <2>1, <2>2
            <4>2. p \notin announced
                BY <2>1
            <4> QED
                BY <3>1, <4>1, <4>2
        <3>2. CASE q # p
            BY <2>1, <3>2
        <3> QED
            BY <3>1, <3>2
    <2> QED
        BY <2>1, <2>2, <2>3, <2>4
<1>7. ASSUME NEW p \in Process, StartThread(p) PROVE SegmentInv'
    BY <1>7 DEF StartThread
<1>8. ASSUME NEW p \in Process, StartTerminator(p) PROVE SegmentInv'
    BY <1>8 DEF StartTerminator
<1>9. ASSUME NEW p \in Process, alive_mutex_lock(p) PROVE SegmentInv'
    BY <1>9 DEF alive_mutex_lock
<1>10. ASSUME NEW p \in Process, StartActivator(p) PROVE SegmentInv'
    BY <1>10 DEF StartActivator
<1>11. ASSUME NEW p \in Process, StartServer(p) PROVE SegmentInv'
    BY <1>11 DEF StartServer
<1>12. ASSUME NEW p \in Process, ServerFails(p) PROVE SegmentInv'
    BY <1>12 DEF ServerFails, alive_mutex_die
<1>13. ASSUME NEW p \in Process, Test(p) PROVE SegmentInv'
    BY <1>13 DEF Test
<1>14. ASSUME NEW p \in Process, Pause(p) PROVE SegmentInv'
    BY <1>14 DEF Pause
<1>15. ASSUME NEW p \in Process, Die(p) PROVE SegmentInv'
    BY <1>15 DEF Die, alive_mutex_die
<1>16. ASSUME NEW p \in Process, StopThread(p) PROVE SegmentInv'
    BY <1>16 DEF StopThread
<1>17. ASSUME NEW p \in Process, Stopped(p) PROVE SegmentInv'
    BY <1>17 DEF Stopped
<1>18. ASSUME NEW p \in Process, Join(p) PROVE SegmentInv'
    BY <1>18 DEF Join
<1>19. ASSUME NEW p \in Process, DestroyTables(p) PROVE SegmentInv'
    BY <1>19 DEF DestroyTables
<1>20. ASSUME NEW p \in Process, alive_mutex_destroy(p) PROVE SegmentInv'
    BY <1>20 DEF alive_mutex_destroy
<1>21. ASSUME NEW p \in Process, StopServer(p) PROVE SegmentInv'
    BY <1>21 DEF StopServer
<1>22. ASSUME NEW p \in Process, ServerStopped(p) PROVE SegmentInv'
    BY <1>22 DEF ServerStopped
<1>23. ASSUME NEW p \in Process, ClosePid(p) PROVE SegmentInv'
    BY <1>23 DEF ClosePid
<1>24. ASSUME NEW p \in Process, RemovePid(p) PROVE SegmentInv'
    BY <1>24 DEF RemovePid
<1>25. ASSUME NEW p \in Process, PidFileFails(p) PROVE SegmentInv'
    BY <1>25 DEF PidFileFails, Dies
<1>26. ASSUME NEW p \in Process, InstallFails(p) PROVE SegmentInv'
    BY <1>26 DEF InstallFails
<1>27. ASSUME NEW p \in Process, CreateFails(p) PROVE SegmentInv'
    BY <1>27 DEF CreateFails
<1>28. ASSUME NEW p \in Process, StartFails(p) PROVE SegmentInv'
    BY <1>28 DEF StartFails
<1>29. ASSUME NEW p \in Process, ActivatorFails(p) PROVE SegmentInv'
    BY <1>29 DEF ActivatorFails, alive_mutex_die
<1>30. ASSUME NEW p \in Process, Connect(p) PROVE SegmentInv'
    BY <1>30 DEF Connect, SetConn
<1>31. ASSUME NEW p \in Process, HandlerBegin(p) PROVE SegmentInv'
    BY <1>31 DEF HandlerBegin, SetConn
<1>32. ASSUME NEW p \in Process, HandlerEnd(p) PROVE SegmentInv'
    BY <1>32 DEF HandlerEnd, SetConn
<1>33. ASSUME NEW p \in Process, Faults(p) PROVE SegmentInv'
    BY <1>33 DEF Faults, Dies
<1>34. ASSUME NEW p \in Process, Crash(p) PROVE SegmentInv'
    BY <1>34 DEF Crash, Dies
<1>35. ASSUME NEW p \in Process, NEW t \in Thread, ThreadLoop(p, t) PROVE SegmentInv'
    BY <1>35 DEF ThreadLoop
<1>36. ASSUME NEW p \in Process, NEW t \in Thread, ThreadWait(p, t) PROVE SegmentInv'
    BY <1>36 DEF ThreadWait
<1>37. ASSUME StopRead PROVE SegmentInv'
    BY <1>37 DEF StopRead
<1>38. ASSUME StopKill PROVE SegmentInv'
    BY <1>38 DEF StopKill
<1>39. ASSUME UNCHANGED vars PROVE SegmentInv'
    BY <1>39 DEF vars
<1>40. ASSUME NEW p \in Process, KillAll(p) PROVE SegmentInv'
    BY <1>40 DEF KillAll
<1>41. ASSUME NEW p \in Process, Activate(p) PROVE SegmentInv'
    BY <1>41 DEF Activate
<1>42. ASSUME NEW p \in Process, KillThreads(p) PROVE SegmentInv'
    BY <1>42 DEF KillThreads
<1>43. ASSUME NEW p \in Process, Hang(p) PROVE SegmentInv'
    BY <1>43 DEF Hang
<1> QED
    BY <1>1, <1>2, <1>3, <1>4, <1>5, <1>6, <1>7, <1>8, <1>9, <1>10, <1>11, <1>12, <1>13,
       <1>14, <1>15, <1>16, <1>17, <1>18, <1>19, <1>20, <1>21, <1>22, <1>23, <1>24, <1>25,
       <1>26, <1>27, <1>28, <1>29, <1>30, <1>31, <1>32, <1>33, <1>34, <1>35, <1>36, <1>37,
       <1>38, <1>39, <1>40, <1>41, <1>42, <1>43
       DEF Next, MainStep, Fails

(* What the segment says, action by action: only one process has the file.  *)
LEMMA AliveInvStep == TypeInv /\ FileInv /\ SegmentInv /\ AliveInv /\ [Next]_vars => AliveInv'
<1> SUFFICES ASSUME TypeInv, FileInv, SegmentInv, AliveInv, [Next]_vars PROVE AliveInv'
    OBVIOUS
<1> USE NoneIsNoProcess
        DEF TypeInv, AliveInv, Early, Mapped, Announced, SegmentInv, Truth, files, shm,
            threads,
            server, proxying, count, history, Goto, Loop, Cleaning, Over, Thread, State, Pointer
<1>0. ASSUME robbed = {}, NEW p \in Process, NEW q \in Process, p # q, pc[p] \in Locked
      PROVE  pc[q] \notin Locked
    BY <1>0, Exclusive
<1>1. ASSUME NEW p \in Process, OpenPid(p) PROVE AliveInv'
    BY <1>1 DEF OpenPid
<1>2. ASSUME NEW p \in Process, LockPid(p) PROVE AliveInv'
    BY <1>2 DEF LockPid
<1>3. ASSUME NEW p \in Process, Refused(p) PROVE AliveInv'
    BY <1>3 DEF Refused, Dies
<1>4. ASSUME NEW p \in Process, WritePid(p) PROVE AliveInv'
    BY <1>4 DEF WritePid
<1>5. ASSUME NEW p \in Process, Install(p) PROVE AliveInv'
    BY <1>5 DEF Install
<1>6. ASSUME NEW p \in Process, Create(p) PROVE AliveInv'
    <2> SUFFICES ASSUME robbed = {} PROVE \A q \in Process : Truth(q)'
        BY <1>6 DEF Create
    <2>1. pc[p] = "create"
        BY <1>6 DEF Create
    <2>2. Truth(p)'
        BY <1>6, <2>1 DEF Create
    <2>3. ASSUME NEW q \in Process, q # p PROVE Truth(q)'
        <3>1. pc[q] \notin Locked
            BY <1>0, <2>1, <2>3 DEF Locked
        <3>2. pc[q] \in {"new", "lock", "remove", "exit", "dead"} /\ pc'[q] = pc[q]
            BY <1>6, <2>1, <2>3, <3>1 DEF Create, Locked
        <3> QED
            BY <1>6, <2>1, <2>3, <3>2 DEF Create
    <2> QED
        BY <2>2, <2>3
<1>7. ASSUME NEW p \in Process, StartThread(p) PROVE AliveInv'
    BY <1>7 DEF StartThread
<1>8. ASSUME NEW p \in Process, StartTerminator(p) PROVE AliveInv'
    BY <1>8 DEF StartTerminator
<1>9. ASSUME NEW p \in Process, alive_mutex_lock(p) PROVE AliveInv'
    <2> SUFFICES ASSUME robbed = {} PROVE \A q \in Process : Truth(q)'
        BY <1>9 DEF alive_mutex_lock
    <2>1. pc[p] = "alivelock"
        BY <1>9 DEF alive_mutex_lock
    <2>2. Truth(p)'
        BY <1>9, <2>1 DEF alive_mutex_lock
    <2>3. ASSUME NEW q \in Process, q # p PROVE Truth(q)'
        <3>1. pc[q] \notin Locked
            BY <1>0, <2>1, <2>3 DEF Locked
        <3>2. pc[q] \in {"new", "lock", "remove", "exit", "dead"} /\ pc'[q] = pc[q]
            BY <1>9, <2>1, <2>3, <3>1 DEF alive_mutex_lock, Locked
        <3> QED
            BY <1>9, <2>1, <2>3, <3>2 DEF alive_mutex_lock
    <2> QED
        BY <2>2, <2>3
<1>10. ASSUME NEW p \in Process, StartActivator(p) PROVE AliveInv'
    BY <1>10 DEF StartActivator
<1>11. ASSUME NEW p \in Process, StartServer(p) PROVE AliveInv'
    BY <1>11 DEF StartServer
<1>12. ASSUME NEW p \in Process, ServerFails(p) PROVE AliveInv'
    <2> SUFFICES ASSUME robbed = {} PROVE \A q \in Process : Truth(q)'
        BY <1>12 DEF ServerFails, alive_mutex_die
    <2>1. pc[p] = "server"
        BY <1>12 DEF ServerFails, alive_mutex_die
    <2>2. Truth(p)'
        BY <1>12, <2>1 DEF ServerFails, alive_mutex_die
    <2>3. ASSUME NEW q \in Process, q # p PROVE Truth(q)'
        <3>1. pc[q] \notin Locked
            BY <1>0, <2>1, <2>3 DEF Locked
        <3>2. pc[q] \in {"new", "lock", "remove", "exit", "dead"} /\ pc'[q] = pc[q]
            BY <1>12, <2>1, <2>3, <3>1 DEF ServerFails, alive_mutex_die, Locked
        <3> QED
            BY <1>12, <2>1, <2>3, <3>2 DEF ServerFails, alive_mutex_die
    <2> QED
        BY <2>2, <2>3
<1>13. ASSUME NEW p \in Process, Test(p) PROVE AliveInv'
    BY <1>13 DEF Test
<1>14. ASSUME NEW p \in Process, Pause(p) PROVE AliveInv'
    BY <1>14 DEF Pause
<1>15. ASSUME NEW p \in Process, Die(p) PROVE AliveInv'
    <2> SUFFICES ASSUME robbed = {} PROVE \A q \in Process : Truth(q)'
        BY <1>15 DEF Die, alive_mutex_die
    <2>1. pc[p] = "die"
        BY <1>15 DEF Die, alive_mutex_die
    <2>2. Truth(p)'
        BY <1>15, <2>1 DEF Die, alive_mutex_die
    <2>3. ASSUME NEW q \in Process, q # p PROVE Truth(q)'
        <3>1. pc[q] \notin Locked
            BY <1>0, <2>1, <2>3 DEF Locked
        <3>2. pc[q] \in {"new", "lock", "remove", "exit", "dead"} /\ pc'[q] = pc[q]
            BY <1>15, <2>1, <2>3, <3>1 DEF Die, alive_mutex_die, Locked
        <3> QED
            BY <1>15, <2>1, <2>3, <3>2 DEF Die, alive_mutex_die
    <2> QED
        BY <2>2, <2>3
<1>16. ASSUME NEW p \in Process, StopThread(p) PROVE AliveInv'
    BY <1>16 DEF StopThread
<1>17. ASSUME NEW p \in Process, Stopped(p) PROVE AliveInv'
    BY <1>17 DEF Stopped
<1>18. ASSUME NEW p \in Process, Join(p) PROVE AliveInv'
    BY <1>18 DEF Join
<1>19. ASSUME NEW p \in Process, DestroyTables(p) PROVE AliveInv'
    BY <1>19 DEF DestroyTables
<1>20. ASSUME NEW p \in Process, alive_mutex_destroy(p) PROVE AliveInv'
    <2> SUFFICES ASSUME robbed = {} PROVE \A q \in Process : Truth(q)'
        BY <1>20 DEF alive_mutex_destroy
    <2>1. pc[p] = "destroy"
        BY <1>20 DEF alive_mutex_destroy
    <2>2. Truth(p)'
        BY <1>20, <2>1 DEF alive_mutex_destroy
    <2>3. ASSUME NEW q \in Process, q # p PROVE Truth(q)'
        <3>1. pc[q] \notin Locked
            BY <1>0, <2>1, <2>3 DEF Locked
        <3>2. pc[q] \in {"new", "lock", "remove", "exit", "dead"} /\ pc'[q] = pc[q]
            BY <1>20, <2>1, <2>3, <3>1 DEF alive_mutex_destroy, Locked
        <3> QED
            BY <1>20, <2>1, <2>3, <3>2 DEF alive_mutex_destroy
    <2> QED
        BY <2>2, <2>3
<1>21. ASSUME NEW p \in Process, StopServer(p) PROVE AliveInv'
    BY <1>21 DEF StopServer
<1>22. ASSUME NEW p \in Process, ServerStopped(p) PROVE AliveInv'
    BY <1>22 DEF ServerStopped
<1>23. ASSUME NEW p \in Process, ClosePid(p) PROVE AliveInv'
    BY <1>23 DEF ClosePid
<1>24. ASSUME NEW p \in Process, RemovePid(p) PROVE AliveInv'
    BY <1>24 DEF RemovePid
<1>25. ASSUME NEW p \in Process, PidFileFails(p) PROVE AliveInv'
    BY <1>25 DEF PidFileFails, Dies
<1>26. ASSUME NEW p \in Process, InstallFails(p) PROVE AliveInv'
    BY <1>26 DEF InstallFails
<1>27. ASSUME NEW p \in Process, CreateFails(p) PROVE AliveInv'
    BY <1>27 DEF CreateFails
<1>28. ASSUME NEW p \in Process, StartFails(p) PROVE AliveInv'
    BY <1>28 DEF StartFails
<1>29. ASSUME NEW p \in Process, ActivatorFails(p) PROVE AliveInv'
    <2> SUFFICES ASSUME robbed = {} PROVE \A q \in Process : Truth(q)'
        BY <1>29 DEF ActivatorFails, alive_mutex_die
    <2>1. pc[p] = "activator"
        BY <1>29 DEF ActivatorFails, alive_mutex_die
    <2>2. Truth(p)'
        BY <1>29, <2>1 DEF ActivatorFails, alive_mutex_die
    <2>3. ASSUME NEW q \in Process, q # p PROVE Truth(q)'
        <3>1. pc[q] \notin Locked
            BY <1>0, <2>1, <2>3 DEF Locked
        <3>2. pc[q] \in {"new", "lock", "remove", "exit", "dead"} /\ pc'[q] = pc[q]
            BY <1>29, <2>1, <2>3, <3>1 DEF ActivatorFails, alive_mutex_die, Locked
        <3> QED
            BY <1>29, <2>1, <2>3, <3>2 DEF ActivatorFails, alive_mutex_die
    <2> QED
        BY <2>2, <2>3
<1>30. ASSUME NEW p \in Process, Connect(p) PROVE AliveInv'
    BY <1>30 DEF Connect, SetConn
<1>31. ASSUME NEW p \in Process, HandlerBegin(p) PROVE AliveInv'
    BY <1>31 DEF HandlerBegin, SetConn
<1>32. ASSUME NEW p \in Process, HandlerEnd(p) PROVE AliveInv'
    BY <1>32 DEF HandlerEnd, SetConn
<1>33. ASSUME NEW p \in Process, Faults(p) PROVE AliveInv'
    BY <1>33 DEF Faults, Dies
<1>34. ASSUME NEW p \in Process, Crash(p) PROVE AliveInv'
    BY <1>34 DEF Crash, Dies
<1>35. ASSUME NEW p \in Process, NEW t \in Thread, ThreadLoop(p, t) PROVE AliveInv'
    BY <1>35 DEF ThreadLoop
<1>36. ASSUME NEW p \in Process, NEW t \in Thread, ThreadWait(p, t) PROVE AliveInv'
    BY <1>36 DEF ThreadWait
<1>37. ASSUME StopRead PROVE AliveInv'
    BY <1>37 DEF StopRead
<1>38. ASSUME StopKill PROVE AliveInv'
    BY <1>38 DEF StopKill
<1>39. ASSUME UNCHANGED vars PROVE AliveInv'
    BY <1>39 DEF vars
<1>40. ASSUME NEW p \in Process, KillAll(p) PROVE AliveInv'
    BY <1>40 DEF KillAll
<1>41. ASSUME NEW p \in Process, Activate(p) PROVE AliveInv'
    BY <1>41 DEF Activate
<1>42. ASSUME NEW p \in Process, KillThreads(p) PROVE AliveInv'
    BY <1>42 DEF KillThreads
<1>43. ASSUME NEW p \in Process, Hang(p) PROVE AliveInv'
    BY <1>43 DEF Hang
<1> HIDE DEF TypeInv, AliveInv, FileInv, SegmentInv
<1> QED
    BY <1>1, <1>2, <1>3, <1>4, <1>5, <1>6, <1>7, <1>8, <1>9, <1>10, <1>11, <1>12, <1>13,
       <1>14, <1>15, <1>16, <1>17, <1>18, <1>19, <1>20, <1>21, <1>22, <1>23, <1>24, <1>25,
       <1>26, <1>27, <1>28, <1>29, <1>30, <1>31, <1>32, <1>33, <1>34, <1>35, <1>36, <1>37,
       <1>38, <1>39, <1>40, <1>41, <1>42, <1>43
       DEF Next, MainStep, Fails

-----------------------------------------------------------------------------
(***************************************************************************)
(* The theorems.                                                           *)
(***************************************************************************)
MainInv ==
    TypeInv /\ FileInv /\ SegmentInv /\ AliveInv /\ ThreadInv /\ ServerInv /\ ProxyInv

LEMMA InitInv == Init => MainInv
<1> SUFFICES ASSUME Init PROVE MainInv
    OBVIOUS
<1>1. TypeInv
    BY TypeInit
<1>2. FileInv /\ SegmentInv
    BY DEF Init, FileInv, SegmentInv, Locked, Written, Early, Mapped, Announced, Over,
    State,
           Loop, Cleaning
<1>3. AliveInv /\ ThreadInv /\ ServerInv /\ ProxyInv
    BY NoneIsNoProcess
       DEF Init, AliveInv, Truth, ThreadInv, ServerInv, ProxyInv, Early, Mapped,
           Announced, Over,
           Loop, Cleaning
<1> QED
    BY <1>1, <1>2, <1>3 DEF MainInv

LEMMA Invariant == Spec => []MainInv
<1>1. MainInv /\ [Next]_vars => MainInv'
    BY TypeStep, FileInvStep, SegmentInvStep, AliveInvStep, ThreadInvStep, ServerInvStep,
       ProxyInvStep
       DEF MainInv
<1> QED
    BY <1>1, InitInv, PTL DEF Spec

\* Every variable has its type.
THEOREM MainTypeCorrect == Spec => []TypeOK
BY Invariant, TypeEq, PTL DEF MainInv

\* Two processes work at the same time only if the pid file of one of them was
\* removed by a third that ended (main.c:105-139).
THEOREM OneInstanceOnly == Spec => []OneInstance
<1>1. MainInv => OneInstance
    <2> SUFFICES ASSUME MainInv, NEW p \in Process, NEW q \in Process, p # q,
                        AtWork(p), AtWork(q), {p, q} \intersect robbed = {}
                 PROVE  FALSE
        BY DEF OneInstance
    <2>1. pc[p] \in Locked /\ pc[q] \in Locked
        BY DEF MainInv, TypeInv, AtWork, Locked
    <2> QED
        BY <2>1, Exclusive DEF MainInv
<1> QED
    BY <1>1, Invariant, PTL

\* The pid file of a gonggo that serves keeps its pid, or a launch in vain has
\* emptied it (main.c:105).
THEOREM PidFileIsKept == Spec => []PidFileKept
<1>1. MainInv => PidFileKept
    BY DEF MainInv, TypeInv, FileInv, PidFileKept, Loop, Over, Locked, Written, State
<1> QED
    BY <1>1, Invariant, PTL

\* The alive mutex says of the gonggo that serves that it lives, and of one that
\* cleans up that it does not (work.c:144, 208, 239).
THEOREM AliveIsTrue == Spec => []AliveTellsTruth
<1>1. MainInv => AliveTellsTruth
    <2> SUFFICES ASSUME MainInv, robbed = {}, NEW p \in announced
                 PROVE  /\ pc[p] \in Loop => /\ alive_path = segment[p]
                                             /\ alive[alive_path] /\ owner[alive_path] = p
                        /\ pc[p] \in Cleaning => ~alive[segment[p]]
        BY DEF AliveTellsTruth
    <2>1. Truth(p)
        BY DEF MainInv, AliveInv, TypeInv
    <2> QED
        BY <2>1 DEF Truth, Mapped, Announced
<1> QED
    BY <1>1, Invariant, PTL

\* When main destroys the tables and their locks, drain, timeout and activator
\* have ended, and of a gonggo that served every thread of a proxy that was
\* activated before main copied the names; when it closes the database the web
\* workers have ended, too.  Web workers, threads of proxies activated later, and
\* those of a gonggo whose web server did not start are not joined, and may find
\* the tables gone (work.c:208-213, 242, 245-281, proxy.c:130).
THEOREM ResourcesOutlive == Spec => []ResourcesOutliveUsers
<1>1. MainInv => ResourcesOutliveUsers
    BY NoneIsNoProcess
       DEF MainInv, ThreadInv, ServerInv, ProxyInv, Stopping, ResourcesOutliveUsers,
           Serving,
           Loop, Over, Cleaning
<1> QED
    BY <1>1, Invariant, PTL

-----------------------------------------------------------------------------
(***************************************************************************)
(* What the main thread waits for.  That a stop and a start come to their  *)
(* end is checked by TLC; proved here is that each thing main waits for is *)
(* one that another thread, or a running process, will yet do.             *)
(***************************************************************************)

(* Who holds the alive mutex got it in the segment it still has mapped, and *)
(* gives it up on the way to the stop; only a dead one keeps it.            *)
OwnerInv ==
    \A s, q \in Process : owner[s] = q => segment[q] = s /\ pc[q] \in Announced \union {"dead"}

(* Only started threads are told to end, and only who is told ends.         *)
EndInv ==
    \A p \in Process :
        /\ pc[p] # "dead" => ended[p] \subseteq Started(p)
        /\ pc[p] = "join" => Started(p) \subseteq ended[p]
        /\ \A t \in Thread : phase[p][t] = "done" => t \in ended[p]
        /\ phase[p]["timeout"] # "none" => phase[p]["drain"] # "none"

(* The owner of the alive mutex, action by action.                          *)
LEMMA OwnerInvStep == TypeInv /\ OwnerInv /\ [Next]_vars => OwnerInv'
<1> SUFFICES ASSUME TypeInv, OwnerInv, [Next]_vars PROVE OwnerInv'
    OBVIOUS
<1> USE NoneIsNoProcess
        DEF TypeInv, OwnerInv, Announced, files, shm, threads, server, proxying, count,
            history,
            Goto, Loop, Cleaning, Over, Thread, State, Pointer
<1>1. ASSUME NEW p \in Process, OpenPid(p) PROVE OwnerInv'
    BY <1>1 DEF OpenPid
<1>2. ASSUME NEW p \in Process, LockPid(p) PROVE OwnerInv'
    BY <1>2 DEF LockPid
<1>3. ASSUME NEW p \in Process, Refused(p) PROVE OwnerInv'
    BY <1>3 DEF Refused, Dies
<1>4. ASSUME NEW p \in Process, WritePid(p) PROVE OwnerInv'
    BY <1>4 DEF WritePid
<1>5. ASSUME NEW p \in Process, Install(p) PROVE OwnerInv'
    BY <1>5 DEF Install
<1>6. ASSUME NEW p \in Process, Create(p) PROVE OwnerInv'
    BY <1>6 DEF Create
<1>7. ASSUME NEW p \in Process, StartThread(p) PROVE OwnerInv'
    BY <1>7 DEF StartThread
<1>8. ASSUME NEW p \in Process, StartTerminator(p) PROVE OwnerInv'
    BY <1>8 DEF StartTerminator
<1>9. ASSUME NEW p \in Process, alive_mutex_lock(p) PROVE OwnerInv'
    BY <1>9 DEF alive_mutex_lock
<1>10. ASSUME NEW p \in Process, StartActivator(p) PROVE OwnerInv'
    BY <1>10 DEF StartActivator
<1>11. ASSUME NEW p \in Process, StartServer(p) PROVE OwnerInv'
    BY <1>11 DEF StartServer
<1>12. ASSUME NEW p \in Process, ServerFails(p) PROVE OwnerInv'
    BY <1>12 DEF ServerFails, alive_mutex_die
<1>13. ASSUME NEW p \in Process, Test(p) PROVE OwnerInv'
    BY <1>13 DEF Test
<1>14. ASSUME NEW p \in Process, Pause(p) PROVE OwnerInv'
    BY <1>14 DEF Pause
<1>15. ASSUME NEW p \in Process, Die(p) PROVE OwnerInv'
    BY <1>15 DEF Die, alive_mutex_die
<1>16. ASSUME NEW p \in Process, StopThread(p) PROVE OwnerInv'
    BY <1>16 DEF StopThread
<1>17. ASSUME NEW p \in Process, Stopped(p) PROVE OwnerInv'
    BY <1>17 DEF Stopped
<1>18. ASSUME NEW p \in Process, Join(p) PROVE OwnerInv'
    BY <1>18 DEF Join
<1>19. ASSUME NEW p \in Process, DestroyTables(p) PROVE OwnerInv'
    BY <1>19 DEF DestroyTables
<1>20. ASSUME NEW p \in Process, alive_mutex_destroy(p) PROVE OwnerInv'
    BY <1>20 DEF alive_mutex_destroy
<1>21. ASSUME NEW p \in Process, StopServer(p) PROVE OwnerInv'
    BY <1>21 DEF StopServer
<1>22. ASSUME NEW p \in Process, ServerStopped(p) PROVE OwnerInv'
    BY <1>22 DEF ServerStopped
<1>23. ASSUME NEW p \in Process, ClosePid(p) PROVE OwnerInv'
    BY <1>23 DEF ClosePid
<1>24. ASSUME NEW p \in Process, RemovePid(p) PROVE OwnerInv'
    BY <1>24 DEF RemovePid
<1>25. ASSUME NEW p \in Process, PidFileFails(p) PROVE OwnerInv'
    BY <1>25 DEF PidFileFails, Dies
<1>26. ASSUME NEW p \in Process, InstallFails(p) PROVE OwnerInv'
    BY <1>26 DEF InstallFails
<1>27. ASSUME NEW p \in Process, CreateFails(p) PROVE OwnerInv'
    BY <1>27 DEF CreateFails
<1>28. ASSUME NEW p \in Process, StartFails(p) PROVE OwnerInv'
    BY <1>28 DEF StartFails
<1>29. ASSUME NEW p \in Process, ActivatorFails(p) PROVE OwnerInv'
    BY <1>29 DEF ActivatorFails, alive_mutex_die
<1>30. ASSUME NEW p \in Process, Connect(p) PROVE OwnerInv'
    BY <1>30 DEF Connect, SetConn
<1>31. ASSUME NEW p \in Process, HandlerBegin(p) PROVE OwnerInv'
    BY <1>31 DEF HandlerBegin, SetConn
<1>32. ASSUME NEW p \in Process, HandlerEnd(p) PROVE OwnerInv'
    BY <1>32 DEF HandlerEnd, SetConn
<1>33. ASSUME NEW p \in Process, Faults(p) PROVE OwnerInv'
    BY <1>33 DEF Faults, Dies
<1>34. ASSUME NEW p \in Process, Crash(p) PROVE OwnerInv'
    BY <1>34 DEF Crash, Dies
<1>35. ASSUME NEW p \in Process, NEW t \in Thread, ThreadLoop(p, t) PROVE OwnerInv'
    BY <1>35 DEF ThreadLoop
<1>36. ASSUME NEW p \in Process, NEW t \in Thread, ThreadWait(p, t) PROVE OwnerInv'
    BY <1>36 DEF ThreadWait
<1>37. ASSUME StopRead PROVE OwnerInv'
    BY <1>37 DEF StopRead
<1>38. ASSUME StopKill PROVE OwnerInv'
    BY <1>38 DEF StopKill
<1>39. ASSUME UNCHANGED vars PROVE OwnerInv'
    BY <1>39 DEF vars
<1>40. ASSUME NEW p \in Process, KillAll(p) PROVE OwnerInv'
    BY <1>40 DEF KillAll
<1>41. ASSUME NEW p \in Process, Activate(p) PROVE OwnerInv'
    BY <1>41 DEF Activate
<1>42. ASSUME NEW p \in Process, KillThreads(p) PROVE OwnerInv'
    BY <1>42 DEF KillThreads
<1>43. ASSUME NEW p \in Process, Hang(p) PROVE OwnerInv'
    BY <1>43 DEF Hang
<1> QED
    BY <1>1, <1>2, <1>3, <1>4, <1>5, <1>6, <1>7, <1>8, <1>9, <1>10, <1>11, <1>12, <1>13,
       <1>14, <1>15, <1>16, <1>17, <1>18, <1>19, <1>20, <1>21, <1>22, <1>23, <1>24, <1>25,
       <1>26, <1>27, <1>28, <1>29, <1>30, <1>31, <1>32, <1>33, <1>34, <1>35, <1>36, <1>37,
       <1>38, <1>39, <1>40, <1>41, <1>42, <1>43
       DEF Next, MainStep, Fails

(* The ends of the threads, action by action.                               *)
LEMMA EndInvStep == TypeInv /\ EndInv /\ [Next]_vars => EndInv'
<1> SUFFICES ASSUME TypeInv, EndInv, [Next]_vars PROVE EndInv'
    OBVIOUS
<1> USE NoneIsNoProcess
        DEF TypeInv, EndInv, Started, files, shm, threads, server, proxying, count, history,
            Goto, Loop, Cleaning, Over, Thread, State, Pointer
<1>1. ASSUME NEW p \in Process, OpenPid(p) PROVE EndInv'
    BY <1>1 DEF OpenPid
<1>2. ASSUME NEW p \in Process, LockPid(p) PROVE EndInv'
    BY <1>2 DEF LockPid
<1>3. ASSUME NEW p \in Process, Refused(p) PROVE EndInv'
    BY <1>3 DEF Refused, Dies
<1>4. ASSUME NEW p \in Process, WritePid(p) PROVE EndInv'
    BY <1>4 DEF WritePid
<1>5. ASSUME NEW p \in Process, Install(p) PROVE EndInv'
    BY <1>5 DEF Install
<1>6. ASSUME NEW p \in Process, Create(p) PROVE EndInv'
    BY <1>6 DEF Create
<1>7. ASSUME NEW p \in Process, StartThread(p) PROVE EndInv'
    BY <1>7 DEF StartThread
<1>8. ASSUME NEW p \in Process, StartTerminator(p) PROVE EndInv'
    BY <1>8 DEF StartTerminator
<1>9. ASSUME NEW p \in Process, alive_mutex_lock(p) PROVE EndInv'
    BY <1>9 DEF alive_mutex_lock
<1>10. ASSUME NEW p \in Process, StartActivator(p) PROVE EndInv'
    BY <1>10 DEF StartActivator
<1>11. ASSUME NEW p \in Process, StartServer(p) PROVE EndInv'
    BY <1>11 DEF StartServer
<1>12. ASSUME NEW p \in Process, ServerFails(p) PROVE EndInv'
    BY <1>12 DEF ServerFails, alive_mutex_die
<1>13. ASSUME NEW p \in Process, Test(p) PROVE EndInv'
    BY <1>13 DEF Test
<1>14. ASSUME NEW p \in Process, Pause(p) PROVE EndInv'
    BY <1>14 DEF Pause
<1>15. ASSUME NEW p \in Process, Die(p) PROVE EndInv'
    BY <1>15 DEF Die, alive_mutex_die
<1>16. ASSUME NEW p \in Process, StopThread(p) PROVE EndInv'
    BY <1>16 DEF StopThread
<1>17. ASSUME NEW p \in Process, Stopped(p) PROVE EndInv'
    BY <1>17 DEF Stopped
<1>18. ASSUME NEW p \in Process, Join(p) PROVE EndInv'
    BY <1>18 DEF Join
<1>19. ASSUME NEW p \in Process, DestroyTables(p) PROVE EndInv'
    BY <1>19 DEF DestroyTables
<1>20. ASSUME NEW p \in Process, alive_mutex_destroy(p) PROVE EndInv'
    BY <1>20 DEF alive_mutex_destroy
<1>21. ASSUME NEW p \in Process, StopServer(p) PROVE EndInv'
    BY <1>21 DEF StopServer
<1>22. ASSUME NEW p \in Process, ServerStopped(p) PROVE EndInv'
    BY <1>22 DEF ServerStopped
<1>23. ASSUME NEW p \in Process, ClosePid(p) PROVE EndInv'
    BY <1>23 DEF ClosePid
<1>24. ASSUME NEW p \in Process, RemovePid(p) PROVE EndInv'
    BY <1>24 DEF RemovePid
<1>25. ASSUME NEW p \in Process, PidFileFails(p) PROVE EndInv'
    BY <1>25 DEF PidFileFails, Dies
<1>26. ASSUME NEW p \in Process, InstallFails(p) PROVE EndInv'
    BY <1>26 DEF InstallFails
<1>27. ASSUME NEW p \in Process, CreateFails(p) PROVE EndInv'
    BY <1>27 DEF CreateFails
<1>28. ASSUME NEW p \in Process, StartFails(p) PROVE EndInv'
    BY <1>28 DEF StartFails
<1>29. ASSUME NEW p \in Process, ActivatorFails(p) PROVE EndInv'
    BY <1>29 DEF ActivatorFails, alive_mutex_die
<1>30. ASSUME NEW p \in Process, Connect(p) PROVE EndInv'
    BY <1>30 DEF Connect, SetConn
<1>31. ASSUME NEW p \in Process, HandlerBegin(p) PROVE EndInv'
    BY <1>31 DEF HandlerBegin, SetConn
<1>32. ASSUME NEW p \in Process, HandlerEnd(p) PROVE EndInv'
    BY <1>32 DEF HandlerEnd, SetConn
<1>33. ASSUME NEW p \in Process, Faults(p) PROVE EndInv'
    BY <1>33 DEF Faults, Dies
<1>34. ASSUME NEW p \in Process, Crash(p) PROVE EndInv'
    BY <1>34 DEF Crash, Dies
<1>35. ASSUME NEW p \in Process, NEW t \in Thread, ThreadLoop(p, t) PROVE EndInv'
    BY <1>35 DEF ThreadLoop
<1>36. ASSUME NEW p \in Process, NEW t \in Thread, ThreadWait(p, t) PROVE EndInv'
    BY <1>36 DEF ThreadWait
<1>37. ASSUME StopRead PROVE EndInv'
    BY <1>37 DEF StopRead
<1>38. ASSUME StopKill PROVE EndInv'
    BY <1>38 DEF StopKill
<1>39. ASSUME UNCHANGED vars PROVE EndInv'
    BY <1>39 DEF vars
<1>40. ASSUME NEW p \in Process, KillAll(p) PROVE EndInv'
    BY <1>40 DEF KillAll
<1>41. ASSUME NEW p \in Process, Activate(p) PROVE EndInv'
    BY <1>41 DEF Activate
<1>42. ASSUME NEW p \in Process, KillThreads(p) PROVE EndInv'
    BY <1>42 DEF KillThreads
<1>43. ASSUME NEW p \in Process, Hang(p) PROVE EndInv'
    BY <1>43 DEF Hang
<1> QED
    BY <1>1, <1>2, <1>3, <1>4, <1>5, <1>6, <1>7, <1>8, <1>9, <1>10, <1>11, <1>12, <1>13,
       <1>14, <1>15, <1>16, <1>17, <1>18, <1>19, <1>20, <1>21, <1>22, <1>23, <1>24, <1>25,
       <1>26, <1>27, <1>28, <1>29, <1>30, <1>31, <1>32, <1>33, <1>34, <1>35, <1>36, <1>37,
       <1>38, <1>39, <1>40, <1>41, <1>42, <1>43
       DEF Next, MainStep, Fails

(* Whom main waits for at alive_mutex_lock, and which threads in the stop.  *)
NotHeldUp(p) ==
    /\ pc[p] = "alivelock" =>
          \A q \in Process : owner[segment[p]] = q =>
                pc[q] = "dead" \/ {p, q} \intersect robbed # {}
    /\ pc[p] = "stop" /\ ended[p] # Started(p) =>
          \E t \in Started(p) \ ended[p] :
                phase[p][t] \in {"out", "pass"} /\ (t = "timeout" => "drain" \in ended[p])
    /\ pc[p] = "join" =>
          \A t \in Started(p) : phase[p][t] # "done" => t \in ended[p]

\* The main thread waits for the alive mutex only where its owner is dead, so
\* that it is got, or where one of the two was robbed of its pid file.  As long
\* as a thread was not told to end, one of those is next in the order of the
\* code and comes back from its pass to where main gets its lock; and
\* pthread_join waits only for threads that were told to end (work.c:144, 285-326,
\* alivemutex.c:57, 69-71).  This is about drain and timeout: what main waits for
\* of activator, terminator and proxies is in ProxyLifecycle_proofs.
THEOREM MainIsNotHeldUp == Spec => [](\A p \in Process : NotHeldUp(p))
<1> DEFINE I == MainInv /\ OwnerInv /\ EndInv
<1>1. Init => OwnerInv /\ EndInv
    BY NoneIsNoProcess DEF Init, OwnerInv, EndInv, Started, Thread
<1>2. I /\ [Next]_vars => OwnerInv' /\ EndInv'
    BY OwnerInvStep, EndInvStep DEF MainInv
<1>3. I => \A p \in Process : NotHeldUp(p)
    <2> SUFFICES ASSUME MainInv, OwnerInv, EndInv, NEW p \in Process PROVE NotHeldUp(p)
        OBVIOUS
    <2> USE DEF MainInv, TypeInv
    <2>1. ASSUME pc[p] = "alivelock", NEW q \in Process, owner[segment[p]] = q, pc[q] # "dead"
          PROVE  {p, q} \intersect robbed # {}
        <3>1. segment[p] \in Process
            BY <2>1 DEF SegmentInv, Mapped, Pointer
        <3>2. pc[q] \in Announced
            BY <2>1, <3>1 DEF OwnerInv
        <3>3. p # q /\ pc[p] \in Locked /\ pc[q] \in Locked
            BY <2>1, <3>2 DEF Announced, Locked, State, Loop, Cleaning, Over
        <3> QED
            BY <3>3, Exclusive
    <2>2. ASSUME pc[p] = "stop", ended[p] # Started(p)
          PROVE  \E t \in Started(p) \ ended[p] :
                    /\ phase[p][t] \in {"out", "pass"}
                    /\ t = "timeout" => "drain" \in ended[p]
        <3>1. \A t \in Started(p) \ ended[p] : phase[p][t] \in {"out", "pass"}
            BY DEF EndInv, Started
        <3>2. ended[p] \subseteq Started(p)
            BY <2>2 DEF EndInv
        <3>3. CASE "drain" \in Started(p) \ ended[p]
            BY <3>1, <3>3
        <3>4. CASE "drain" \notin Started(p) \ ended[p]
            <4>1. PICK t \in Started(p) \ ended[p] : TRUE
                BY <2>2, <3>2
            <4>2. t = "timeout"
                BY <3>4, <4>1 DEF Started, Thread
            <4>3. "drain" \in Started(p)
                BY <4>1, <4>2 DEF EndInv, Started, Thread
            <4> QED
                BY <3>1, <3>4, <4>1, <4>3
        <3> QED
            BY <3>3, <3>4
    <2>3. pc[p] = "join" => \A t \in Started(p) : phase[p][t] # "done" => t \in ended[p]
        BY DEF EndInv
    <2> QED
        BY <2>1, <2>2, <2>3 DEF NotHeldUp
<1> QED
    BY <1>1, <1>2, <1>3, Invariant, PTL DEF Spec
=============================================================================
