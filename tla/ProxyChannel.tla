---------------------------- MODULE ProxyChannel ---------------------------
(***************************************************************************)
(* The request channel of one incarnation of one proxy, with its three     *)
(* locks and four condition variables:                                     *)
(*   table  proxy_channel_thread_table_lock                                *)
(*   ctx    ProxyChannelContext.lock, with wakeup                          *)
(*   shm    ProxyChannelShm.lock, robust and shared with the proxy, with   *)
(*          idle, dispatcher_wakeup and proxy_wakeup                       *)
(* and everyone who takes them: the channel thread (proxychannel.c), the   *)
(* websocket workers that route and drop (clientservice.c), REST workers   *)
(* (resthandler.c), the killer, which is the terminator or main (proxy.c), *)
(* the activator (proxyactivator.c) and the proxy process, which is        *)
(* external and may die at any moment.  An action runs from the moment a   *)
(* thread gets a lock to the next point where it may block.                *)
(***************************************************************************)
EXTENDS Naturals

CONSTANTS
    Client,       \* websocket workers; each routes one request, then closes
    Rest,         \* REST workers; each makes one call
    Pending,      \* requests that wait for the proxy from before
    CreateFails,  \* TRUE: the payload's shared memory may fail to be created
    NoThread, NoRid

Thread == Client \union Rest \union {"channel", "killer", "activator", "proxy"}

\* What a client asks of the proxy: its request, and the request to drop it.
RequestOf(c) == <<c, "request">>
DropOf(c) == <<c, "drop">>
Rid == Pending \union {RequestOf(c) : c \in Client} \union {DropOf(c) : c \in Client}

ASSUME NamesAssumption ==
    /\ Client \cap Rest = {}
    /\ (Client \union Rest) \cap {"channel", "killer", "activator", "proxy"} = {}
    /\ NoThread \notin Thread
    /\ NoRid \notin Rid
    /\ \A c \in Client : Pending \cap {RequestOf(c), DropOf(c)} = {}
ASSUME CreateAssumption == CreateFails \in BOOLEAN

VARIABLES
    lock,        \* lock -> the thread that holds it, NoThread
    owner_dead,  \* the last holder of the shm lock died with it
    waiting,     \* condition variable -> threads in pthread_cond_wait
    state,       \* ProxyChannelShm.state
    shm_rid,     \* ProxyChannelShm.rid
    stop,        \* ProxyChannelContext.stop
    registered,  \* the context is in the channel thread table
    freed,       \* the context is destroyed
    terminate,   \* the proxy's name is in the terminate array
    listed,      \* the proxy's request_uuids in client_proxyname_table
    sent,        \* those whose sents flag is true
    todo, rid,   \* locals of proxy_channel_exchange
    passed,      \* what the last round of it copied and left unsent
    delivered,   \* what the proxy has read and acknowledged
    lost,        \* the kill is the terminator's, after the proxy died
    pc

vars == <<lock, owner_dead, waiting, state, shm_rid, stop, registered, freed,
          terminate, listed, sent, todo, rid, passed, delivered, lost, pc>>

locks == <<lock, owner_dead>>
shm == <<state, shm_rid>>
context == <<stop, registered, freed, terminate>>
requests == <<listed, sent>>
locals == <<todo, rid>>
ghosts == <<passed, delivered, lost>>

Init ==
    /\ lock = [l \in {"table", "ctx", "shm"} |-> NoThread]
    /\ owner_dead = FALSE
    /\ waiting = [v \in {"wakeup", "idle", "dispatcher", "proxy"} |-> {}]
    /\ state = "INIT"
    /\ shm_rid = NoRid
    /\ stop = FALSE
    /\ registered = FALSE
    /\ freed = FALSE
    /\ terminate = FALSE
    /\ listed = Pending
    /\ sent = {}
    /\ todo = {}
    /\ rid = NoRid
    /\ passed = {}
    /\ delivered = {}
    /\ lost = FALSE
    /\ pc = [t \in Thread |-> CASE t = "channel" -> "start"
                                [] t = "activator" -> "handshake"
                                [] t = "proxy" -> "run"
                                [] OTHER -> "idle"]

-----------------------------------------------------------------------------
(***************************************************************************)
(* Locks and condition variables.                                          *)
(***************************************************************************)
Free(l) == lock[l] = NoThread
Awake(t) == \A v \in DOMAIN waiting : t \notin waiting[v]
Goto(t, label) == pc' = [pc EXCEPT ![t] = label]

\* pthread_cond_signal wakes one waiter, if there is one.
Signalled(w, v) == IF w[v] = {} THEN {w} ELSE {[w EXCEPT ![v] = @ \ {t}] : t \in w[v]}
Signal(v) == waiting' \in Signalled(waiting, v)
\* A thread that signals v and then waits for u.
SignalAndWait(v, t, u) ==
    \E w \in Signalled(waiting, v) : waiting' = [w EXCEPT ![u] = @ \union {t}]
Wait(t, u) == waiting' = [waiting EXCEPT ![u] = @ \union {t}]

\* proxy_channel_idle_wait, entered at label here and asleep on idle at label
\* asleep.  It looks at the state again only for CHANNEL_TERMINATION, and when
\* it fails it returns with the shm lock held.
IdleSleep(t, here, asleep) ==
    /\ pc[t] = here
    /\ Free("shm") /\ ~owner_dead
    /\ state \notin {"TERMINATION", "IDLE"}
    /\ Wait(t, "idle")
    /\ Goto(t, asleep)
    /\ UNCHANGED <<locks, shm, context, requests, locals, ghosts>>

IdleReady(t, here, asleep) ==
    /\ Free("shm") /\ ~owner_dead
    /\ state # "TERMINATION"
    /\ \/ pc[t] = here /\ state = "IDLE"
       \/ pc[t] = asleep /\ Awake(t)

IdleFailed(t, here, asleep) ==
    /\ Free("shm")
    /\ owner_dead \/ state = "TERMINATION"
    /\ pc[t] = here \/ (pc[t] = asleep /\ Awake(t))
    /\ owner_dead' = FALSE

-----------------------------------------------------------------------------
(***************************************************************************)
(* The channel thread.                                                     *)
(***************************************************************************)
ChannelLock ==
    /\ pc["channel"] = "start" \/ (pc["channel"] = "wakeup" /\ Awake("channel"))
    /\ Free("ctx")
    /\ lock' = [lock EXCEPT !["ctx"] = "channel"]
    /\ Goto("channel", "loop")
    /\ UNCHANGED <<owner_dead, waiting, shm, context, requests, locals, ghosts>>

\* The head of the loop, with the copy of the requests not yet sent.
ChannelLoop ==
    /\ pc["channel"] = "loop"
    /\ todo' = IF stop \/ terminate THEN {} ELSE listed \ sent
    /\ passed' = {}
    /\ Goto("channel", IF stop THEN "leave" ELSE IF terminate THEN "stop_shm" ELSE "next")
    /\ UNCHANGED <<locks, waiting, shm, context, requests, rid, delivered, lost>>

\* A request that has lost its payload meanwhile is passed over.
ChannelNext(r) ==
    /\ pc["channel"] = "next"
    /\ r \in todo
    /\ todo' = todo \ {r}
    /\ IF r \in listed
          THEN rid' = r /\ Goto("channel", "send_shm")
          ELSE UNCHANGED <<rid, pc>>
    /\ UNCHANGED <<locks, waiting, shm, context, requests, ghosts>>

\* pthread_cond_wait(&ctx->wakeup, &ctx->lock)
ChannelSleep ==
    /\ pc["channel"] = "next"
    /\ todo = {}
    /\ lock' = [lock EXCEPT !["ctx"] = NoThread]
    /\ Wait("channel", "wakeup")
    /\ Goto("channel", "wakeup")
    /\ UNCHANGED <<owner_dead, shm, context, requests, locals, ghosts>>

ChannelIdleSleep ==
    \/ IdleSleep("channel", "send_shm", "send_idle")
    \/ IdleSleep("channel", "stop_shm", "stop_idle")

ChannelSend ==
    /\ IdleReady("channel", "send_shm", "send_idle")
    /\ state' = "REQUEST"
    /\ shm_rid' = rid
    /\ SignalAndWait("proxy", "channel", "dispatcher")
    /\ Goto("channel", "answer")
    /\ UNCHANGED <<locks, context, requests, locals, ghosts>>

\* proxy_channel_create_request fails: on to the next request.
ChannelCreateFails ==
    /\ CreateFails
    /\ IdleReady("channel", "send_shm", "send_idle")
    /\ rid' = NoRid
    /\ passed' = passed \union {rid}
    /\ Goto("channel", "next")
    /\ UNCHANGED <<locks, waiting, shm, context, requests, todo, delivered, lost>>

\* Mutant: the flag is set whether the request is still listed or not.
request_sent_blind(r) == sent' = sent \union {r}

\* client_proxyname_table_request_sent: only a listed request has a flag to set.
request_sent(r) == sent' = IF r \in listed THEN sent \union {r} ELSE sent

\* Woken by an answer that is not its own, it goes on to the next request.
ChannelAnswer ==
    /\ pc["channel"] = "answer" /\ Awake("channel")
    /\ Free("shm")
    /\ owner_dead' = FALSE
    /\ rid' = NoRid
    /\ IF owner_dead \/ state = "TERMINATION"
          THEN /\ Goto("channel", "leave")
               /\ todo' = {}
               /\ UNCHANGED <<waiting, state, sent, passed>>
          ELSE /\ Goto("channel", "next")
               /\ IF state \in {"ACKNOWLEDGED", "FAILS"}
                     THEN /\ state' = "DONE"
                          /\ Signal("proxy")
                          /\ request_sent(rid)
                          /\ UNCHANGED passed
                     ELSE /\ passed' = passed \union {rid}
                          /\ UNCHANGED <<waiting, state, sent>>
               /\ UNCHANGED todo
    /\ UNCHANGED <<lock, shm_rid, context, listed, delivered, lost>>

\* The activation timed out: the proxy is asked to stop.
ChannelStopRequest ==
    /\ IdleReady("channel", "stop_shm", "stop_idle")
    /\ state' = "STOP_REQUEST"
    /\ Signal("proxy")
    /\ terminate' = FALSE
    /\ Goto("channel", "leave")
    /\ UNCHANGED <<locks, shm_rid, stop, registered, freed, requests, locals, ghosts>>

ChannelIdleFails ==
    /\ \/ IdleFailed("channel", "send_shm", "send_idle") /\ UNCHANGED terminate
       \/ IdleFailed("channel", "stop_shm", "stop_idle") /\ terminate' = FALSE
    /\ lock' = [lock EXCEPT !["shm"] = "channel"]
    /\ rid' = NoRid
    /\ todo' = {}
    /\ Goto("channel", "leave")
    /\ UNCHANGED <<waiting, shm, stop, registered, freed, requests, ghosts>>

\* The thread ends; a robust lock it still holds has a dead owner from now on.
ChannelLeave ==
    /\ pc["channel"] = "leave"
    /\ lock' = [l \in DOMAIN lock |-> IF lock[l] = "channel" THEN NoThread ELSE lock[l]]
    /\ owner_dead' = (owner_dead \/ lock["shm"] = "channel")
    /\ Goto("channel", "exit")
    /\ UNCHANGED <<waiting, shm, context, requests, locals, ghosts>>

ChannelStep ==
    \/ ChannelLock \/ ChannelLoop \/ (\E r \in Rid : ChannelNext(r)) \/ ChannelSleep
    \/ ChannelIdleSleep \/ ChannelSend \/ ChannelCreateFails \/ ChannelAnswer
    \/ ChannelStopRequest \/ ChannelIdleFails \/ ChannelLeave

-----------------------------------------------------------------------------
(***************************************************************************)
(* Websocket workers: the end of client_service_route, and                 *)
(* client_service_drop_conn when the connection closes.                    *)
(***************************************************************************)
\* The tables have the request (ClientRegistry models how it got there).
Submit(c) ==
    /\ pc[c] = "idle"
    /\ listed' = listed \union {RequestOf(c)}
    /\ Goto(c, "route_table")
    /\ UNCHANGED <<locks, waiting, shm, context, sent, locals, ghosts>>

\* Mutant: the request stays in the proxy's list.
Withdraw_listed(c) ==
    /\ pc[c] = "open"
    /\ Goto(c, "drop_table")
    /\ UNCHANGED <<locks, waiting, shm, context, requests, locals, ghosts>>

\* The connection closes and its request is out of the tables.
Withdraw(c) ==
    /\ pc[c] = "open"
    /\ listed' = listed \ {RequestOf(c)}
    /\ sent' = sent \ {RequestOf(c)}
    /\ Goto(c, "drop_table")
    /\ UNCHANGED <<locks, waiting, shm, context, locals, ghosts>>

\* Mutant: the table is locked for the lookup only.
ClientLookup_unlocks(c) ==
    /\ pc[c] \in {"route_table", "drop_table"}
    /\ Free("table")
    /\ IF registered
          THEN IF pc[c] = "route_table"
                  THEN Goto(c, "route_ctx") /\ UNCHANGED listed
                  ELSE Goto(c, "drop_ctx") /\ listed' = listed \union {DropOf(c)}
          ELSE /\ Goto(c, IF pc[c] = "route_table" THEN "open" ELSE "closed")
               /\ UNCHANGED listed
    /\ UNCHANGED <<locks, waiting, shm, context, sent, locals, ghosts>>

\* With the table locked: is the channel registered?  If it is, drop_conn puts
\* its drop request in the tables, and either goes on to the context's lock.
ClientLookup(c) ==
    /\ pc[c] \in {"route_table", "drop_table"}
    /\ Free("table")
    /\ IF registered
          THEN /\ lock' = [lock EXCEPT !["table"] = c]
               /\ IF pc[c] = "route_table"
                     THEN Goto(c, "route_ctx") /\ UNCHANGED listed
                     ELSE Goto(c, "drop_ctx") /\ listed' = listed \union {DropOf(c)}
          ELSE /\ Goto(c, IF pc[c] = "route_table" THEN "open" ELSE "closed")
               /\ UNCHANGED <<lock, listed>>
    /\ UNCHANGED <<owner_dead, waiting, shm, context, sent, locals, ghosts>>

\* Mutant: the signal is sent without the context's lock.
ClientSignal_unlocked(c) ==
    /\ pc[c] \in {"route_ctx", "drop_ctx"}
    /\ Signal("wakeup")
    /\ lock' = [lock EXCEPT !["table"] = NoThread]
    /\ Goto(c, IF pc[c] = "route_ctx" THEN "open" ELSE "closed")
    /\ UNCHANGED <<owner_dead, shm, context, requests, locals, ghosts>>

ClientSignal(c) ==
    /\ pc[c] \in {"route_ctx", "drop_ctx"}
    /\ Free("ctx")
    /\ Signal("wakeup")
    /\ lock' = [lock EXCEPT !["table"] = NoThread]
    /\ Goto(c, IF pc[c] = "route_ctx" THEN "open" ELSE "closed")
    /\ UNCHANGED <<owner_dead, shm, context, requests, locals, ghosts>>

ClientStep(c) == ClientLookup(c) \/ ClientSignal(c)

-----------------------------------------------------------------------------
(***************************************************************************)
(* REST workers: rest_handler keeps the table locked until                 *)
(* proxy_channel_rest returns.                                             *)
(***************************************************************************)
RestLookup(x) ==
    /\ pc[x] = "idle"
    /\ Free("table")
    /\ IF registered
          THEN lock' = [lock EXCEPT !["table"] = x] /\ Goto(x, "rest_body")
          ELSE Goto(x, "rest_done") /\ UNCHANGED lock
    /\ UNCHANGED <<owner_dead, waiting, shm, context, requests, locals, ghosts>>

\* The body is read with the table locked; a wrong content type or method ends
\* the call.
RestRead(x) ==
    /\ pc[x] = "rest_body"
    /\ \/ Goto(x, "rest_shm") /\ UNCHANGED lock
       \/ lock' = [lock EXCEPT !["table"] = NoThread] /\ Goto(x, "rest_done")
    /\ UNCHANGED <<owner_dead, waiting, shm, context, requests, locals, ghosts>>

RestIdleSleep(x) == IdleSleep(x, "rest_shm", "rest_idle")

\* The call's own identifier is in no table.
RestSend(x) ==
    /\ IdleReady(x, "rest_shm", "rest_idle")
    /\ state' = "REST"
    /\ shm_rid' = NoRid
    /\ SignalAndWait("proxy", x, "dispatcher")
    /\ Goto(x, "rest_answer")
    /\ UNCHANGED <<locks, context, requests, locals, ghosts>>

RestCreateFails(x) ==
    /\ CreateFails
    /\ IdleReady(x, "rest_shm", "rest_idle")
    /\ lock' = [lock EXCEPT !["table"] = NoThread]
    /\ Goto(x, "rest_done")
    /\ UNCHANGED <<owner_dead, waiting, shm, context, requests, locals, ghosts>>

RestAnswer(x) ==
    /\ pc[x] = "rest_answer" /\ Awake(x)
    /\ Free("shm")
    /\ owner_dead' = FALSE
    /\ IF ~owner_dead /\ state = "REST_RESPOND"
          THEN state' = "DONE" /\ Signal("proxy")
          ELSE UNCHANGED <<state, waiting>>
    /\ lock' = [lock EXCEPT !["table"] = NoThread]
    /\ Goto(x, "rest_done")
    /\ UNCHANGED <<shm_rid, context, requests, locals, ghosts>>

\* "proxy is out of service": the worker returns, and nobody unlocks shm.
RestIdleFails(x) ==
    /\ IdleFailed(x, "rest_shm", "rest_idle")
    /\ lock' = [lock EXCEPT !["shm"] = x, !["table"] = NoThread]
    /\ Goto(x, "rest_done")
    /\ UNCHANGED <<waiting, shm, context, requests, locals, ghosts>>

\* What a REST worker does once it has the table.
RestStep(x) ==
    \/ RestRead(x) \/ RestIdleSleep(x) \/ RestSend(x) \/ RestCreateFails(x)
    \/ RestAnswer(x) \/ RestIdleFails(x)

-----------------------------------------------------------------------------
(***************************************************************************)
(* Stopping the channel: proxy_thread_kill, called by the terminator once  *)
(* the proxy is dead and it has set the proxy's requests to unsent, or by  *)
(* main when gonggo stops; and the failure path of proxy_activation.       *)
(***************************************************************************)
\* Mutant: the dead proxy's requests stay sent.
KillStart_sent ==
    /\ pc["killer"] = "idle"
    /\ registered
    /\ lost' = (pc["proxy"] = "dead")
    /\ Goto("killer", "kill_table")
    /\ UNCHANGED <<locks, waiting, shm, context, requests, locals, passed, delivered>>

KillStart ==
    /\ pc["killer"] = "idle"
    /\ registered
    /\ \/ pc["proxy"] = "dead" /\ lost' = TRUE /\ sent' = sent \ listed
       \/ UNCHANGED <<lost, sent>>
    /\ Goto("killer", "kill_table")
    /\ UNCHANGED <<locks, waiting, shm, context, listed, locals, passed, delivered>>

KillLookup ==
    /\ pc["killer"] = "kill_table"
    /\ Free("table")
    /\ lock' = [lock EXCEPT !["table"] = "killer"]
    /\ Goto("killer", "stop_shm")
    /\ UNCHANGED <<owner_dead, waiting, shm, context, requests, locals, ghosts>>

\* Mutant: a channel thread that waits for an answer is not woken.
StopShm_idle(t) ==
    /\ t \in {"killer", "activator"}
    /\ pc[t] = "stop_shm"
    /\ Free("shm")
    /\ owner_dead' = FALSE
    /\ state' = "TERMINATION"
    /\ Signal("idle")
    /\ Goto(t, "stop_ctx")
    /\ UNCHANGED <<lock, shm_rid, context, requests, locals, ghosts>>

\* The first half of proxy_channel_stop.
StopShm(t) ==
    /\ t \in {"killer", "activator"}
    /\ pc[t] = "stop_shm"
    /\ Free("shm")
    /\ owner_dead' = FALSE
    /\ state' = "TERMINATION"
    /\ \E w \in Signalled(waiting, "idle") : waiting' \in Signalled(w, "dispatcher")
    /\ Goto(t, "stop_ctx")
    /\ UNCHANGED <<lock, shm_rid, context, requests, locals, ghosts>>

\* The second half; then the killer unlocks the table.
StopCtx(t) ==
    /\ pc[t] = "stop_ctx"
    /\ Free("ctx")
    /\ stop' = TRUE
    /\ Signal("wakeup")
    /\ lock' = [lock EXCEPT !["table"] = IF @ = t THEN NoThread ELSE @]
    /\ Goto(t, "join")
    /\ UNCHANGED <<owner_dead, shm, registered, freed, terminate, requests, locals, ghosts>>

\* pthread_join, then the table's entry is removed and its context destroyed;
\* the activator's context is in no table.
Join(t) ==
    /\ pc[t] = "join"
    /\ pc["channel"] = "exit"
    /\ Free("table") \/ t = "activator"
    /\ registered' = FALSE
    /\ freed' = TRUE
    /\ Goto(t, "killed")
    /\ UNCHANGED <<locks, waiting, shm, stop, terminate, requests, locals, ghosts>>

-----------------------------------------------------------------------------
(***************************************************************************)
(* The end of an activation, with the channel thread already running.      *)
(***************************************************************************)
\* The proxy has acknowledged its activation.
Register ==
    /\ pc["activator"] = "handshake"
    /\ Free("table")
    /\ registered' = TRUE
    /\ Goto("activator", "signal")
    /\ UNCHANGED <<locks, waiting, shm, stop, freed, terminate, requests, locals, ghosts>>

\* It has not: the channel thread is to ask it to stop.
ActivationTimeout ==
    /\ pc["activator"] = "handshake"
    /\ terminate' = TRUE
    /\ Goto("activator", "timeout")
    /\ UNCHANGED <<locks, waiting, shm, stop, registered, freed, requests, locals, ghosts>>

\* It died with the activation lock, or gonggo stops.
ActivationFails ==
    /\ pc["activator"] = "handshake"
    /\ Goto("activator", "stop_shm")
    /\ UNCHANGED <<locks, waiting, shm, context, requests, locals, ghosts>>

ActivatorSignal ==
    /\ pc["activator"] \in {"signal", "timeout"}
    /\ Free("ctx")
    /\ Signal("wakeup")
    /\ Goto("activator", IF pc["activator"] = "signal" THEN "done" ELSE "stop_shm")
    /\ UNCHANGED <<locks, shm, context, requests, locals, ghosts>>

ActivatorStep ==
    \/ Register \/ ActivationTimeout \/ ActivationFails \/ ActivatorSignal
    \/ StopShm("activator") \/ StopCtx("activator") \/ Join("activator")

KillerStep == KillLookup \/ StopShm("killer") \/ StopCtx("killer") \/ Join("killer")

-----------------------------------------------------------------------------
(***************************************************************************)
(* The proxy (external; its side of the protocol is the right half of      *)
(* sequence/08_request_processing.d2).  It may die at any moment, with the *)
(* shm lock if it is not asleep and the lock is free.                      *)
(***************************************************************************)
Stopped == state \in {"TERMINATION", "STOP_REQUEST"}

ProxyIdle ==
    /\ pc["proxy"] = "run"
    /\ Free("shm") /\ ~owner_dead /\ ~Stopped
    /\ state' = "IDLE"
    /\ SignalAndWait("idle", "proxy", "proxy")
    /\ Goto("proxy", "await_request")
    /\ UNCHANGED <<locks, shm_rid, context, requests, locals, ghosts>>

ProxyServe ==
    /\ pc["proxy"] = "await_request" /\ Awake("proxy")
    /\ Free("shm") /\ ~owner_dead
    /\ \/ /\ state = "REQUEST"
          /\ \/ state' = "ACKNOWLEDGED" /\ delivered' = delivered \union {shm_rid}
             \/ state' = "FAILS" /\ UNCHANGED delivered
       \/ /\ state = "REST"
          /\ state' = "REST_RESPOND"
          /\ UNCHANGED delivered
    /\ SignalAndWait("dispatcher", "proxy", "proxy")
    /\ Goto("proxy", "await_done")
    /\ UNCHANGED <<locks, shm_rid, context, requests, locals, passed, lost>>

ProxyDone ==
    /\ pc["proxy"] = "await_done" /\ Awake("proxy")
    /\ Free("shm") /\ ~owner_dead
    /\ state = "DONE"
    /\ Goto("proxy", "run")
    /\ UNCHANGED <<locks, waiting, shm, context, requests, locals, ghosts>>

\* Woken for something else than what it waits for, it waits on.
ProxyWaitOn ==
    /\ Awake("proxy") /\ Free("shm") /\ ~owner_dead /\ ~Stopped
    /\ \/ pc["proxy"] = "await_request" /\ state \notin {"REQUEST", "REST"}
       \/ pc["proxy"] = "await_done" /\ state # "DONE"
    /\ Wait("proxy", "proxy")
    /\ UNCHANGED <<locks, shm, context, requests, locals, ghosts, pc>>

\* Asked to stop, or the other side died with the lock.
ProxyStops ==
    /\ pc["proxy"] # "dead" /\ Awake("proxy")
    /\ Free("shm")
    /\ owner_dead \/ Stopped
    /\ owner_dead' = FALSE
    /\ Goto("proxy", "dead")
    /\ UNCHANGED <<lock, waiting, shm, context, requests, locals, ghosts>>

ProxyDies ==
    /\ pc["proxy"] # "dead"
    /\ Goto("proxy", "dead")
    /\ waiting' = [v \in DOMAIN waiting |-> waiting[v] \ {"proxy"}]
    /\ \/ UNCHANGED owner_dead
       \/ Awake("proxy") /\ Free("shm") /\ owner_dead' = TRUE
    /\ UNCHANGED <<lock, shm, context, requests, locals, ghosts>>

ProxyStep == ProxyIdle \/ ProxyServe \/ ProxyDone \/ ProxyWaitOn \/ ProxyStops

-----------------------------------------------------------------------------
Next ==
    \/ ChannelStep \/ KillStart \/ KillerStep \/ ActivatorStep
    \/ \E c \in Client : Submit(c) \/ Withdraw(c) \/ ClientStep(c)
    \/ \E x \in Rest : RestLookup(x) \/ RestStep(x)
    \/ ProxyStep \/ ProxyDies

\* A thread that can go on does.  Nobody has to submit, to close, to call or to
\* die, but a proxy that lives keeps to its protocol, and the body of a REST call
\* that is being read comes to its end.
Fairness ==
    /\ WF_vars(ChannelStep) /\ WF_vars(KillerStep) /\ WF_vars(ActivatorStep)
    /\ WF_vars(ProxyStep)
    /\ \A c \in Client : WF_vars(ClientStep(c))
    /\ \A x \in Rest : WF_vars(RestStep(x))

Spec == Init /\ [][Next]_vars /\ Fairness

-----------------------------------------------------------------------------
(***************************************************************************)
(* Properties.                                                             *)
(***************************************************************************)
\* Every variable has its type, and a sents flag belongs to a listed request: an
\* acknowledgement that comes after its request was dropped sets none
\* (clientproxynametable.c:84).
TypeOK ==
    /\ lock \in [{"table", "ctx", "shm"} -> Thread \union {NoThread}]
    /\ owner_dead \in BOOLEAN
    /\ waiting \in [{"wakeup", "idle", "dispatcher", "proxy"} -> SUBSET Thread]
    /\ state \in {"INIT", "IDLE", "REQUEST", "ACKNOWLEDGED", "FAILS", "DONE",
                  "STOP_REQUEST", "REST", "REST_RESPOND", "TERMINATION"}
    /\ shm_rid \in Rid \union {NoRid}
    /\ stop \in BOOLEAN /\ registered \in BOOLEAN /\ freed \in BOOLEAN
    /\ terminate \in BOOLEAN /\ lost \in BOOLEAN
    /\ listed \in SUBSET Rid /\ sent \in SUBSET listed
    /\ todo \in SUBSET Rid /\ rid \in Rid \union {NoRid}
    /\ passed \in SUBSET Rid /\ delivered \in SUBSET Rid
    /\ DOMAIN pc = Thread

\* A context that is destroyed is in no worker's hands: a worker looks it up
\* and uses it under one hold of the table lock, and the entry goes under
\* that lock (clientservice.c:157-165, resthandler.c:71-153, proxy.c:103-109).
FreedUnused ==
    freed => /\ \A c \in Client : pc[c] \notin {"route_ctx", "drop_ctx"}
             /\ \A x \in Rest : pc[x] \in {"idle", "rest_done"}
             /\ pc["channel"] = "exit"

\* No proxy ever gets a request after the request to drop it: drop_conn takes
\* the request out before it puts the drop in, and the channel thread hands
\* over what it has copied before it copies again (proxychannel.c:264-311).
DropComesLast ==
    [][\A c \in Client : (DropOf(c) \in delivered /\ RequestOf(c) \notin delivered)
                            => RequestOf(c) \notin delivered']_vars

\* Someone sleeps for an answer and the proxy has none to give: what it was asked was
\* overwritten by another, or its answer woke the other.
AnswerMissed ==
    /\ waiting["dispatcher"] # {}
    /\ ~(pc["proxy"] = "await_request" /\ state \in {"REQUEST", "REST"})

\* Someone sleeps for the idle state in that state: its wakeup went to another, who
\* found nothing to send.
IdleMissed == waiting["idle"] # {} /\ state = "IDLE"

\* No request is forgotten but for what sharing the channel costs: a request in the
\* tables is handed over, unless it is withdrawn, the proxy dies, the channel is
\* stopped, or it is passed over: its payload cannot be created, or the channel
\* thread is woken by a REST worker's answer.  And channel thread and proxy
\* may come to wait for each other for good: a REST worker and the channel thread each
\* wait once for the idle state and do not look at it again, so one of them may write
\* over the other's exchange, or sleep through the state it waits for
\* (proxychannel.c:278-281, 291-306, 341).
RequestsAreSent ==
    \A r \in Rid :
        r \in listed \ sent ~> \/ r \notin listed \ sent
                               \/ pc["proxy"] = "dead"
                               \/ pc["killer"] # "idle"
                               \/ pc["activator"] \notin {"handshake", "signal", "done"}
                               \/ r \in passed
                               \/ []AnswerMissed \/ []IdleMissed

\* Stopping a channel ends, wherever its thread is and however the proxy
\* behaves: sequence/06_proxy_stop.d2:56-57, the terminator stops the channel
\* thread and drops its entry (proxychannel.c:150-163, proxy.c:79-109).
KillCompletes == pc["killer"] = "kill_table" ~> pc["killer"] = "killed"

\* What keeps a kill from ending.  A worker has the table locked while it waits for the
\* context's lock, which the channel thread has, or makes a REST call, and the channel
\* thread or the call waits for a proxy that is dead or will not answer
\* (clientservice.c:157-161, resthandler.c:71-153, proxychannel.c:201, 291, 341,
\* proxy.c:79).  Or a REST worker has left the shared lock locked
\* (proxychannel.c:175-179, 331).
KillHeldUp ==
    \/ /\ pc["killer"] = "kill_table"
       /\ lock["table"] \in Client \union Rest
       /\ waiting["idle"] \union waiting["dispatcher"] # {}
       /\ pc["proxy"] = "dead" \/ AnswerMissed \/ IdleMissed
    \/ /\ pc["killer"] \in {"kill_table", "stop_shm", "join"}
       /\ lock["shm"] \in Rest

\* A kill ends, or is held up so for good.
KillEndsOrIsHeldUp ==
    pc["killer"] = "kill_table" ~> (pc["killer"] = "killed" \/ []KillHeldUp)

\* proxyterminator.c:58-60, "set back to unsent so when the proxt back to live
\* all the requests will be picked up": all but at most one, the one that the
\* channel thread was still exchanging (proxychannel.c:291-306).
AllButOneUnsent ==
    pc["killer"] = "killed" /\ lost => \A q, r \in sent \cap listed : q = r

=============================================================================
