----------------------------- MODULE GonggoMain -----------------------------
(***************************************************************************)
(* The life of gonggo processes: main() with the pid file and --stop       *)
(* (main.c), work() from the signal handler to clean_up() (work.c), the    *)
(* alive mutex (alivemutex.c), and how the drain and the timeout thread    *)
(* start and stop (dbresponddrain.c, clienttimeout.c).  Several processes  *)
(* may be launched, with the same configuration, at any time.              *)
(*                                                                         *)
(* pc[p] names what the main thread of p does next.  Of activator and      *)
(* proxies only what main depends on is here: that threads of proxies come *)
(* and go, which of them main kills, and that some thread may wait for     *)
(* good (ProxyLifecycle and ProxyChannel have how).  The kernel's files,   *)
(* locks and signals and the web server are external.                      *)
(***************************************************************************)
EXTENDS Integers, FiniteSets

CONSTANTS
    None,       \* the null value
    MaxProcess, \* bound: processes that are launched
    MaxStop,    \* bound: runs of gonggo --stop
    MaxTrouble, \* bound: crashes, and calls that fail for lack of some resource
    MaxProxy,   \* bound: activations of proxies
    Connecting  \* bound: whether clients connect

ASSUME BoundAssumption == {MaxProcess, MaxStop, MaxTrouble, MaxProxy} \subseteq Nat
ASSUME ConnectingAssumption == Connecting \in BOOLEAN
ASSUME NullAssumption == None \notin Nat

Process == 1 .. MaxProcess    \* in the order in which they are launched
Thread == {"drain", "timeout"}

VARIABLES
    pc,         \* what the main thread does next
    exiting,    \* processes with gonggo_exit set
    path,       \* the file pid_file leads to; files are named for their creators
    opened,     \* opened[p]: the file p has open as pid_filenum
    content,    \* content[f]: the pid in file f, None if it is empty
    holder,     \* holder[f]: who has locked f
    alive_path, \* the segment that the name of the alive mutex leads to
    segment,    \* segment[p]: the one p has mapped
    alive,      \* alive[s]: its alive flag
    owner,      \* owner[s]: who holds its lock
    phase,      \* phase[p][t]: "none", "out" (starts, or waits), "pass" (has its lock), "done"
    ended,      \* ended[p]: threads of p that were told to end
    tables,     \* processes whose tables exist
    port,       \* who listens
    conn,       \* conn[p]: "none", "open", or "busy": a worker is in a handler
    activator,  \* processes whose activator runs
    proxies,    \* proxies[p]: threads of proxies it has: "early", or "late" for main's stop
    stuck,      \* processes of which some other thread waits for good
    stopper,    \* whom gonggo --stop has yet to signal
    stops, troubles, activations,
    robbed,     \* history: those whose open pid file another process removed
    announced,  \* history: those who got the alive lock
    served      \* history: those whose web server was started

files == <<path, opened, content, holder>>
shm == <<alive_path, segment, alive, owner>>
threads == <<phase, ended>>
proxying == <<activator, proxies, stuck>>
server == <<port, conn, proxying>>
count == <<stopper, stops, troubles, activations>>
history == <<robbed, announced, served>>
vars == <<pc, exiting, files, shm, threads, tables, server, count, history>>

Over == {"exit", "dead"}
Loop == {"test", "topause", "paused"}
Cleaning == {"tables", "destroy", "mgstop", "mgwait", "close", "remove", "exit"}
AtWork(p) == pc[p] \notin {"new", "lock", "write", "close", "remove"} \union Over

Goto(p, from, to) == pc[p] = from /\ pc' = [pc EXCEPT ![p] = to]

Trouble ==
    /\ troubles < MaxTrouble
    /\ troubles' = troubles + 1
    /\ UNCHANGED <<stopper, stops, activations>>

Init ==
    /\ pc = [p \in Process |-> "new"]
    /\ exiting = {} /\ tables = {}
    /\ path = None /\ alive_path = None /\ port = None
    /\ opened = [p \in Process |-> None] /\ segment = [p \in Process |-> None]
    /\ content = [f \in Process |-> None] /\ holder = [f \in Process |-> None]
    /\ alive = [s \in Process |-> FALSE] /\ owner = [s \in Process |-> None]
    /\ phase = [p \in Process |-> [t \in Thread |-> "none"]]
    /\ ended = [p \in Process |-> {}]
    /\ conn = [p \in Process |-> "none"]
    /\ activator = {} /\ stuck = {} /\ proxies = [p \in Process |-> {}]
    /\ stopper = {} /\ stops = 0 /\ troubles = 0 /\ activations = 0
    /\ robbed = {} /\ announced = {} /\ served = {}

(* No thread of p's proxies and no activator is left.                       *)
NoProxies(p) ==
    /\ activator' = activator \ {p}
    /\ proxies' = [proxies EXCEPT ![p] = {}]
    /\ stuck' = stuck \ {p}

(* The end of a process: the kernel drops its file lock and its port.  It   *)
(* leaves files and segments, and a robust lock has a dead owner.           *)
Dies(p) ==
    /\ pc' = [pc EXCEPT ![p] = "dead"]
    /\ holder' = [f \in Process |-> IF holder[f] = p THEN None ELSE holder[f]]
    /\ port' = IF port = p THEN None ELSE port
    /\ phase' = [phase EXCEPT ![p] = [t \in Thread |-> "none"]]
    /\ tables' = tables \ {p}
    /\ conn' = [conn EXCEPT ![p] = "none"]
    /\ exiting' = exiting \ {p}
    /\ NoProxies(p)
    /\ UNCHANGED <<path, opened, content, shm, ended, history>>

-----------------------------------------------------------------------------
(***************************************************************************)
(* main(): the child of the launcher's fork.                               *)
(***************************************************************************)

(* open() with O_CREAT and O_TRUNC: an existing file is emptied, even one   *)
(* that a running gonggo has locked.                                        *)
OpenPid(p) ==
    LET f == IF path = None THEN p ELSE path IN
    /\ \A q \in 1 .. p - 1 : pc[q] # "new"
    /\ Goto(p, "new", "lock")
    /\ path' = f
    /\ opened' = [opened EXCEPT ![p] = f]
    /\ content' = [content EXCEPT ![f] = None]
    /\ UNCHANGED <<exiting, holder, shm, threads, tables, server, count, history>>

(* Mutant: without the lock.                                                *)
LockPid_shared(p) ==
    /\ Goto(p, "lock", "write")
    /\ holder' = [holder EXCEPT ![opened[p]] = p]
    /\ UNCHANGED <<exiting, path, opened, content, shm, threads, tables, server, count,
                   history>>

(* lockf() with F_TLOCK.                                                    *)
LockPid(p) ==
    /\ Goto(p, "lock", "write")
    /\ holder[opened[p]] = None
    /\ holder' = [holder EXCEPT ![opened[p]] = p]
    /\ UNCHANGED <<exiting, path, opened, content, shm, threads, tables, server, count,
                   history>>

(* Mutant: the refused process removes the file, as a served one does.      *)
Refused_remove(p) ==
    /\ pc[p] = "lock" /\ holder[opened[p]] # None
    /\ pc' = [pc EXCEPT ![p] = "dead"]
    /\ path' = None
    /\ UNCHANGED <<exiting, opened, content, holder, shm, threads, tables, server,
                   count, history>>

(* Mutant: F_LOCK, which waits for the lock.                                *)
Refused_waits(p) == pc[p] = "lock" /\ holder[opened[p]] # None /\ UNCHANGED vars

(* The file is locked: "Forking Error 3".                                   *)
Refused(p) ==
    /\ pc[p] = "lock" /\ holder[opened[p]] # None
    /\ Dies(p)
    /\ UNCHANGED count

(* Mutant: 0, what fork() returned to the child, for getpid().              *)
WritePid_fork(p) ==
    /\ Goto(p, "write", "init")
    /\ content' = [content EXCEPT ![opened[p]] = 0]
    /\ UNCHANGED <<exiting, path, opened, holder, shm, threads, tables, server, count,
                   history>>

WritePid(p) ==
    /\ Goto(p, "write", "init")
    /\ content' = [content EXCEPT ![opened[p]] = p]
    /\ UNCHANGED <<exiting, path, opened, holder, shm, threads, tables, server, count,
                   history>>

(* "Forking Error 2" and 4: open() or write() fails.                        *)
PidFileFails(p) == pc[p] \in {"new", "write"} /\ Dies(p) /\ Trouble

(* close() releases the lock; only then is the file removed.                *)
ClosePid(p) ==
    /\ Goto(p, "close", "remove")
    /\ holder' = [holder EXCEPT ![opened[p]] = IF @ = p THEN None ELSE @]
    /\ UNCHANGED <<exiting, path, opened, content, shm, threads, tables, server, count,
                   history>>

RemovePid(p) ==
    /\ Goto(p, "remove", "exit")
    /\ path' = None
    /\ robbed' = robbed \union
                    {q \in Process \ {p} : opened[q] \in {path} \ {None} /\ pc[q] \notin Over}
    /\ NoProxies(p)
    /\ UNCHANGED <<exiting, opened, content, holder, shm, threads, tables, port, conn,
                   count, announced, served>>

-----------------------------------------------------------------------------
(***************************************************************************)
(* work(): the start.  A start that fails goes on at "stop" or "tables".   *)
(***************************************************************************)

(* The database, then the handler of SIGTERM.                               *)
Install(p) ==
    /\ Goto(p, "init", "create")
    /\ UNCHANGED <<exiting, files, shm, threads, tables, server, count, history>>

InstallFails(p) ==
    /\ Goto(p, "init", "tables")
    /\ Trouble
    /\ UNCHANGED <<exiting, files, shm, threads, tables, server, history>>

(* The tables and alive_mutex_create: the segment is used as it is found,   *)
(* its lock initialized anew, whoever held it.                              *)
Create(p) ==
    LET s == IF alive_path = None THEN p ELSE alive_path IN
    /\ Goto(p, "create", "start")
    /\ tables' = tables \union {p}
    /\ alive_path' = s
    /\ segment' = [segment EXCEPT ![p] = s]
    /\ alive' = [alive EXCEPT ![s] = TRUE]
    /\ owner' = [owner EXCEPT ![s] = None]
    /\ UNCHANGED <<exiting, files, threads, server, count, history>>

(* alive_mutex_create fails: no segment, but tables to destroy.             *)
CreateFails(p) ==
    /\ Goto(p, "create", "tables")
    /\ tables' = tables \union {p}
    /\ Trouble
    /\ UNCHANGED <<exiting, files, shm, threads, server, history>>

(* pthread_create; main waits for the thread's started flag.                *)
StartThread(p) ==
    /\ pc[p] = "start"
    /\ \E t \in Thread :
          /\ phase[p][t] = "none"
          /\ t = "timeout" => phase[p]["drain"] # "none"
          /\ pc' = [pc EXCEPT ![p] = IF t = "drain" THEN "start" ELSE "terminator"]
          /\ phase' = [phase EXCEPT ![p][t] = "out"]
    /\ UNCHANGED <<exiting, files, shm, ended, tables, server, count, history>>

(* proxy_activator_context_init or the creation of a thread fails before    *)
(* the alive lock is taken.                                                 *)
StartFails(p) ==
    /\ Goto(p, pc[p], "stop")
    /\ pc[p] \in {"start", "terminator"}
    /\ Trouble
    /\ UNCHANGED <<exiting, files, shm, threads, tables, server, history>>

StartTerminator(p) ==
    /\ Goto(p, "terminator", "alivelock")
    /\ UNCHANGED <<exiting, files, shm, threads, tables, server, count, history>>

(* A lock whose owner is dead is got, with EOWNERDEAD.                      *)
alive_mutex_lock(p) ==
    /\ Goto(p, "alivelock", "activator")
    /\ owner[segment[p]] \notin {q \in Process : pc[q] \notin Over}
    /\ owner' = [owner EXCEPT ![segment[p]] = p]
    /\ announced' = announced \union {p}
    /\ UNCHANGED <<exiting, files, alive_path, segment, alive, threads, tables, server,
                   count, robbed, served>>

(* The lock is of the error-checking kind: only its owner unlocks it.       *)
alive_mutex_die(p) ==
    /\ alive' = [alive EXCEPT ![segment[p]] = FALSE]
    /\ owner' = [owner EXCEPT ![segment[p]] = IF @ = p THEN None ELSE @]
    /\ UNCHANGED <<alive_path, segment>>

StartActivator(p) ==
    /\ Goto(p, "activator", "server")
    /\ activator' = activator \union {p}
    /\ UNCHANGED <<exiting, files, shm, threads, tables, port, conn, proxies, stuck,
                   count, history>>

ActivatorFails(p) ==
    /\ Goto(p, "activator", "stop")
    /\ alive_mutex_die(p)
    /\ Trouble
    /\ UNCHANGED <<exiting, files, threads, tables, server, history>>

(* mg_start2 and the registration of the handlers.                          *)
StartServer(p) ==
    /\ port = None
    /\ Goto(p, "server", "test")
    /\ port' = p
    /\ served' = served \union {p}
    /\ UNCHANGED <<exiting, files, shm, threads, tables, conn, proxying, count, robbed,
                   announced>>

(* Mutant: the alive mutex is left as it is.                                *)
ServerFails_alive(p) ==
    /\ Goto(p, "server", "stop")
    /\ exiting' = exiting \union {p}
    /\ (port # None /\ UNCHANGED count) \/ Trouble
    /\ UNCHANGED <<files, shm, threads, tables, server, history>>

(* The port is taken, or the server cannot start for another reason; the    *)
(* proxies' threads are not killed.                                         *)
ServerFails(p) ==
    /\ Goto(p, "server", "stop")
    /\ alive_mutex_die(p)
    /\ exiting' = exiting \union {p}
    /\ (port # None /\ UNCHANGED count) \/ Trouble
    /\ UNCHANGED <<files, threads, tables, server, history>>

-----------------------------------------------------------------------------
(***************************************************************************)
(* work(): the loop and the stop.                                          *)
(***************************************************************************)

(* while(!gonggo_exit)                                                      *)
Test(p) ==
    /\ Goto(p, "test", IF p \in exiting THEN "die" ELSE "topause")
    /\ UNCHANGED <<exiting, files, shm, threads, tables, server, count, history>>

(* pause() returns only for a signal that comes while it sleeps.            *)
Pause(p) ==
    /\ Goto(p, "topause", "paused")
    /\ UNCHANGED <<exiting, files, shm, threads, tables, server, count, history>>

(* alive_mutex_die, and proxy_thread_kill_all copies the proxies' names.    *)
Die(p) ==
    /\ Goto(p, "die", "killall")
    /\ alive_mutex_die(p)
    /\ UNCHANGED <<exiting, files, threads, tables, server, count, history>>

(* Mutant: the alive mutex is left to tell the proxies, as in a start that  *)
(* fails.                                                                   *)
KillAll_none(p) ==
    /\ Goto(p, "killall", "stop")
    /\ UNCHANGED <<exiting, files, shm, threads, tables, server, count, history>>

(* proxy_thread_kill, for every name in the copy.                           *)
KillAll(p) ==
    /\ Goto(p, "killall", "stop")
    /\ proxies' = [proxies EXCEPT ![p] = @ \ {"early"}]
    /\ UNCHANGED <<exiting, files, shm, threads, tables, port, conn, activator, stuck,
                   count, history>>


(* db_respond_drain_stop, client_timeout_stop: the thread's lock, which it  *)
(* has except while it starts and waits, is taken to tell it to end.        *)
StopThread(p) ==
    /\ pc[p] = "stop"
    /\ \E t \in Thread :
          /\ phase[p][t] = "out" /\ t \notin ended[p]
          /\ t = "timeout" => "drain" \in ended[p]
          /\ ended' = [ended EXCEPT ![p] = @ \union {t}]
    /\ UNCHANGED <<pc, exiting, files, shm, phase, tables, server, count, history>>

Started(p) == {t \in Thread : phase[p][t] # "none"}

Stopped(p) ==
    /\ Goto(p, "stop", "join")
    /\ ended[p] = Started(p)
    /\ UNCHANGED <<exiting, files, shm, threads, tables, server, count, history>>

(* pthread_join of every thread that was started, the activator's included. *)
Join(p) ==
    /\ Goto(p, "join", "tables")
    /\ \A t \in Started(p) : phase[p][t] = "done"
    /\ activator' = activator \ {p}
    /\ UNCHANGED <<exiting, files, shm, threads, tables, port, conn, proxies, stuck,
                   count, history>>

(* clean_up: the tables are destroyed, no table's lock is taken for it.     *)
DestroyTables(p) ==
    /\ Goto(p, "tables", "destroy")
    /\ tables' = tables \ {p}
    /\ UNCHANGED <<exiting, files, shm, threads, server, count, history>>

(* The segment is unlinked by its name.                                     *)
alive_mutex_destroy(p) ==
    /\ Goto(p, "destroy", "mgstop")
    /\ alive_path' = IF segment[p] = None THEN alive_path ELSE None
    /\ UNCHANGED <<exiting, files, segment, alive, owner, threads, tables, server,
                   count, history>>

(* mg_stop returns when the workers have closed all connections; after it   *)
(* the database is closed.                                                  *)
StopServer(p) ==
    /\ Goto(p, "mgstop", "mgwait")
    /\ UNCHANGED <<exiting, files, shm, threads, tables, server, count, history>>

ServerStopped(p) ==
    /\ Goto(p, "mgwait", "close")
    /\ conn[p] = "none"
    /\ port' = IF port = p THEN None ELSE port
    /\ UNCHANGED <<exiting, files, shm, threads, tables, conn, proxying, count, history>>

MainStep(p) ==
    \/ LockPid(p) \/ Refused(p) \/ WritePid(p) \/ Install(p) \/ Create(p) \/ StartThread(p)
    \/ StartTerminator(p) \/ alive_mutex_lock(p) \/ StartActivator(p)
    \/ StartServer(p) \/ ServerFails(p)
    \/ Test(p) \/ Pause(p) \/ Die(p) \/ KillAll(p) \/ StopThread(p) \/ Stopped(p) \/ Join(p)
    \/ DestroyTables(p) \/ alive_mutex_destroy(p) \/ StopServer(p) \/ ServerStopped(p)
    \/ ClosePid(p) \/ RemovePid(p)

Fails(p) ==
    \/ PidFileFails(p) \/ InstallFails(p) \/ CreateFails(p) \/ StartFails(p)
    \/ ActivatorFails(p)

-----------------------------------------------------------------------------
(***************************************************************************)
(* The other threads of a process.                                         *)
(***************************************************************************)

(* The thread gets its lock, at its start or after its timed wait, and      *)
(* looks whether it should end.                                             *)
ThreadLoop(p, t) ==
    /\ phase[p][t] = "out"
    /\ phase' = [phase EXCEPT ![p][t] = IF t \in ended[p] THEN "done" ELSE "pass"]
    /\ UNCHANGED <<pc, exiting, files, shm, ended, tables, server, count, history>>

(* The end of a purge, or of a round of expiries.                           *)
ThreadWait(p, t) ==
    /\ phase[p][t] = "pass"
    /\ phase' = [phase EXCEPT ![p][t] = "out"]
    /\ UNCHANGED <<pc, exiting, files, shm, ended, tables, server, count, history>>

SetConn(p, from, to) ==
    /\ conn[p] = from /\ conn' = [conn EXCEPT ![p] = to]
    /\ UNCHANGED <<pc, exiting, files, shm, threads, tables, port, proxying, count,
                   history>>

(* A client connects, or sends a request, until the server stops; the       *)
(* client or mg_stop closes the connection, and then the close handler runs. *)
Connect(p) == Connecting /\ port = p /\ pc[p] # "mgwait" /\ SetConn(p, "none", "open")
HandlerBegin(p) == SetConn(p, "open", "busy")
HandlerEnd(p) ==
    \/ pc[p] # "mgwait" /\ SetConn(p, "busy", "open")
    \/ SetConn(p, "busy", "none")

(* The activator creates the threads of a proxy.  Main kills those whose    *)
(* names are in the copy it makes of them.                                  *)
Activate(p) ==
    /\ p \in activator
    /\ activations < MaxProxy /\ activations' = activations + 1
    /\ proxies' = [proxies EXCEPT ![p] =
          @ \union {IF pc[p] \in {"killall", "stop", "join"} THEN "late" ELSE "early"}]
    /\ UNCHANGED <<pc, exiting, files, shm, threads, tables, port, conn, activator,
                   stuck, stopper, stops, troubles, history>>

(* Activator or terminator ends the threads of proxies.                     *)
KillThreads(p) ==
    /\ p \in activator \ stuck /\ proxies[p] # {}
    /\ proxies' = [proxies EXCEPT ![p] = {}]
    /\ UNCHANGED <<pc, exiting, files, shm, threads, tables, port, conn, activator,
                   stuck, count, history>>

(* A thread of a proxy sleeps for good, for one that died with a request,   *)
(* and whoever waits for it does: a handler with the channel table's lock,  *)
(* the one that kills it, with the lock of the kills.                       *)
Hang(p) ==
    /\ proxies[p] # {} /\ p \notin stuck
    /\ stuck' = stuck \union {p}
    /\ UNCHANGED <<pc, exiting, files, shm, threads, tables, port, conn, activator,
                   proxies, count, history>>

(* A handler, or a thread of a proxy, that uses a destroyed table or its    *)
(* destroyed lock may fault.                                                *)
Faults(p) ==
    /\ conn[p] = "busy" \/ proxies[p] # {}
    /\ p \notin tables
    /\ Dies(p)
    /\ UNCHANGED count

-----------------------------------------------------------------------------
(***************************************************************************)
(* gonggo --stop, and crashes.                                             *)
(***************************************************************************)

(* What is read is a pid, or nothing: then the buffer, which was never      *)
(* written, makes any number, and kill() takes one that is no pid for a     *)
(* group of processes, for all of them, or for none.                        *)
StopRead ==
    /\ stopper = {} /\ stops < MaxStop /\ path # None
    /\ stops' = stops + 1
    /\ stopper' \in IF content[path] = None
                    THEN SUBSET {p \in Process : pc[p] \notin {"new"} \union Over}
                    ELSE {{content[path]}}
    /\ UNCHANGED <<pc, exiting, files, shm, threads, tables, server, troubles,
                   activations, history>>

(* kill(): before the handler is installed, SIGTERM ends the process.       *)
StopKill ==
    LET ends == {p \in stopper : pc[p] \in {"lock", "write", "init"}} IN
    /\ stopper # {} /\ stopper' = {}
    /\ exiting' = exiting \union {p \in stopper \ ends : pc[p] \notin {"new"} \union Over}
    /\ pc' = [p \in Process |-> IF p \in ends THEN "dead"
                                ELSE IF p \in stopper /\ pc[p] = "paused" THEN "test"
                                ELSE pc[p]]
    /\ holder' = [f \in Process |-> IF holder[f] \in ends THEN None ELSE holder[f]]
    /\ UNCHANGED <<path, opened, content, shm, threads, tables, server, stops, troubles,
                   activations, history>>

Crash(p) ==
    /\ pc[p] \notin {"new"} \union Over
    /\ Dies(p)
    /\ Trouble

-----------------------------------------------------------------------------
Next ==
    \/ \E p \in Process :
          \/ OpenPid(p) \/ MainStep(p) \/ Fails(p)
          \/ \E t \in Thread : ThreadLoop(p, t) \/ ThreadWait(p, t)
          \/ Connect(p) \/ HandlerBegin(p) \/ HandlerEnd(p)
          \/ Activate(p) \/ KillThreads(p) \/ Hang(p) \/ Faults(p) \/ Crash(p)
    \/ StopRead \/ StopKill

(* Main kills, stops, joins or waits for threads, one of which is stuck.    *)
HeldUp(p) == p \in stuck /\ pc[p] \in {"killall", "stop", "join", "mgwait"}

(* Threads run and timed waits end, and mg_stop closes what is open.  What  *)
(* waits for another thread goes on as long as none is stuck; when one is,  *)
(* it may and need not.  A wait of drain and timeout lasts at least a       *)
(* second, so that main, which only wants the lock, gets it (confvar.c:49,  *)
(* 69).  Nobody has to launch, stop, connect, or activate a proxy.          *)
Fairness ==
    \A p \in Process :
        /\ WF_vars(MainStep(p) /\ ~HeldUp(p)) /\ SF_vars(StopThread(p) /\ ~HeldUp(p))
        /\ \A t \in Thread : WF_vars(ThreadLoop(p, t)) /\ WF_vars(ThreadWait(p, t))
        /\ WF_vars(HandlerEnd(p) /\ p \notin stuck)
        /\ WF_vars(pc[p] = "mgwait" /\ HandlerBegin(p))

Spec == Init /\ [][Next]_vars /\ Fairness

-----------------------------------------------------------------------------
(***************************************************************************)
(* Properties.                                                             *)
(***************************************************************************)

\* Every variable has its type.
TypeOK ==
    /\ pc \in [Process -> Loop \union Cleaning \union
                {"new", "lock", "write", "init", "create", "start", "terminator", "alivelock",
                 "activator", "server", "die", "killall", "stop", "join", "dead"}]
    /\ {exiting, tables, activator, stuck, stopper, robbed, announced, served}
          \subseteq SUBSET Process
    /\ {path, alive_path, port} \subseteq Process \union {None}
    /\ \A f \in {opened, content, holder, segment, owner} :
          f \in [Process -> Process \union {None}]
    /\ alive \in [Process -> BOOLEAN]
    /\ phase \in [Process -> [Thread -> {"none", "out", "pass", "done"}]]
    /\ ended \in [Process -> SUBSET Thread]
    /\ conn \in [Process -> {"none", "open", "busy"}]
    /\ proxies \in [Process -> SUBSET {"early", "late"}]
    /\ stops \in 0 .. MaxStop /\ troubles \in 0 .. MaxTrouble /\ activations \in 0 .. MaxProxy

\* The lock on the pid file keeps a second gonggo out of work(), whatever
\* crashed before, unless a third removed the file of one of them when it
\* ended (main.c:105-139).
OneInstance ==
    \A p, q \in Process :
        p # q /\ AtWork(p) /\ AtWork(q) => {p, q} \intersect robbed # {}

\* As long as no file was taken so, the pid file of a gonggo that serves is
\* there and has its pid in it; or it is empty, and a process that was launched
\* in vain has emptied it (main.c:105).
PidFileKept ==
    \A p \in Process :
        robbed = {} /\ pc[p] \in Loop =>
            /\ path = opened[p] /\ content[path] \in {p, None}
            /\ content[path] = None => \E q \in Process \ {p} : opened[q] = path

\* As long as no file was taken so, what the name of the alive mutex leads to is
\* alive and locked by the gonggo that serves, so no proxy thinks it dead, and
\* says that it is dead when it has come to its clean-up, whichever way
\* (work.c:144, 208, 239).
AliveTellsTruth ==
    robbed = {} =>
        \A p \in announced :
            /\ pc[p] \in Loop => /\ alive_path = segment[p]
                                 /\ alive[alive_path] /\ owner[alive_path] = p
            /\ pc[p] \in Cleaning => ~alive[segment[p]]

\* When main comes to destroy the locks of the threads and the tables, the
\* drain, the timeout and the activator thread have ended, and so have the
\* threads of every proxy, unless it was activated when main had copied the
\* names of those to kill, or the web server did not start, in which case main
\* kills none.  Threads of such a proxy, and web workers, may find the tables
\* gone; no worker finds the database closed (work.c:208-213, 242, 245-281,
\* proxy.c:130).
ResourcesOutliveUsers ==
    \A p \in Process :
        /\ pc[p] \in Cleaning =>
              /\ \A t \in Thread : phase[p][t] \in {"none", "done"}
              /\ p \notin activator
              /\ p \in served => "early" \notin proxies[p]
        /\ conn[p] # "none" => pc[p] \notin {"close", "remove"} \union Over


\* A gonggo that is launched comes to serve, or ends: no lock that a crashed
\* one left, in files or in memory, holds it up (main.c:114, alivemutex.c:58).
\* A failed start may be held up by proxies that were activated before it failed.
StartEnds ==
    \A p \in Process :
        pc[p] = "lock" ~> (pc[p] \in Loop \union Over \/ robbed # {} \/ []HeldUp(p))

=============================================================================
