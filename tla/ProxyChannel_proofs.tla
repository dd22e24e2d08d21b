------------------------- MODULE ProxyChannel_proofs -------------------------
(***************************************************************************)
(* What holds of a proxy's channel for any number of workers and requests: *)
(* no worker uses a context that is destroyed, no request overtakes its    *)
(* drop, and a dead proxy's requests are unsent but for one.               *)
(***************************************************************************)
EXTENDS ProxyChannel, TLAPS

Condition == {"wakeup", "idle", "dispatcher", "proxy"}
Label == {"idle", "start", "loop", "next", "send_shm", "send_idle", "stop_shm", "stop_idle",
          "answer", "wakeup", "leave", "exit", "route_table", "route_ctx", "drop_table",
          "drop_ctx", "open", "closed", "rest_body", "rest_shm", "rest_idle", "rest_answer",
          "rest_done",
          "kill_table", "stop_ctx", "join", "killed", "handshake", "signal", "timeout", "done",
          "run", "await_request", "await_done", "dead"}

(* TypeOK, with the places at which each thread can be, and a request in the*)
(* hands of who exchanges one.                                              *)
TypeInv ==
    /\ lock \in [{"table", "ctx", "shm"} -> Thread \union {NoThread}]
    /\ owner_dead \in BOOLEAN
    /\ waiting \in [Condition -> SUBSET Thread]
    /\ state \in {"INIT", "IDLE", "REQUEST", "ACKNOWLEDGED", "FAILS", "DONE",
                  "STOP_REQUEST", "REST", "REST_RESPOND", "TERMINATION"}
    /\ shm_rid \in Rid \union {NoRid}
    /\ stop \in BOOLEAN /\ registered \in BOOLEAN /\ freed \in BOOLEAN
    /\ terminate \in BOOLEAN /\ lost \in BOOLEAN
    /\ listed \in SUBSET Rid /\ sent \in SUBSET listed
    /\ todo \in SUBSET Rid /\ rid \in Rid \union {NoRid}
    /\ passed \in SUBSET Rid /\ delivered \in SUBSET Rid
    /\ pc \in [Thread -> Label]
    /\ state = "REQUEST" => shm_rid \in Rid
    /\ pc["channel"] \in {"send_shm", "send_idle", "answer"} => rid \in Rid

(* Whoever is between the table's lock and its release holds the lock, and  *)
(* the context is registered meanwhile.                                     *)
Using == {"route_ctx", "drop_ctx", "rest_body", "rest_shm", "rest_idle", "rest_answer"}

TableInv ==
    /\ \A t \in Client \union Rest : pc[t] \in Using => lock["table"] = t /\ registered
    /\ \A c \in Client : pc[c] \in {"idle", "open", "closed", "route_table", "drop_table",
                                    "route_ctx", "drop_ctx"}
    /\ \A x \in Rest : pc[x] \in {"idle", "rest_done", "rest_body", "rest_shm", "rest_idle",
                              "rest_answer"}
    /\ lock["table"] # "channel"
    /\ lock["table"] = "killer" => pc["killer"] \in {"stop_shm", "stop_ctx"}
    /\ lock["table"] # "activator"
    /\ registered => pc["activator"] \in {"signal", "done"} /\ ~freed
    /\ pc["killer"] # "idle" => pc["activator"] \in {"signal", "done"}
    /\ pc["activator"] = "handshake" => ~freed
    /\ freed => pc["channel"] = "exit"

(* A request is out of the tables before its drop is put in, and out of the *)
(* channel thread's hands before the drop is handed over.                   *)
DropInv ==
    \A c \in Client :
        /\ pc[c] = "idle" => RequestOf(c) \notin listed
        /\ pc[c] \in {"drop_table", "drop_ctx", "closed"} => RequestOf(c) \notin listed
        /\ DropOf(c) \in listed \union todo \union {rid, shm_rid} \union delivered =>
              pc[c] \in {"drop_ctx", "closed"}
        /\ DropOf(c) \in todo \union {rid, shm_rid} \union delivered =>
              RequestOf(c) \notin todo /\ rid # RequestOf(c)
        /\ DropOf(c) \in delivered \union {shm_rid} => shm_rid # RequestOf(c)
        /\ pc["channel"] \in {"loop", "next", "start", "wakeup"} => rid = NoRid

(* After the death of the proxy at most one answer is left to be taken.     *)
LostInv ==
    lost => /\ pc["proxy"] = "dead" /\ pc["killer"] # "idle"
            /\ state \in {"ACKNOWLEDGED", "FAILS"} => sent = {}
            /\ \A q, r \in sent : q = r

ChannelInv == TypeInv /\ TableInv /\ DropInv /\ LostInv

-----------------------------------------------------------------------------
(***************************************************************************)
(* Names, signals.                                                         *)
(***************************************************************************)
LEMMA NamesDiffer ==
    /\ \A c \in Client : /\ RequestOf(c) \in Rid /\ DropOf(c) \in Rid
                         /\ RequestOf(c) \notin Pending /\ DropOf(c) \notin Pending
    /\ \A c, d \in Client : /\ RequestOf(c) # DropOf(d)
                            /\ RequestOf(c) = RequestOf(d) => c = d
                            /\ DropOf(c) = DropOf(d) => c = d
    /\ NoRid \notin Rid /\ NoThread \notin Thread
    /\ Pending \subseteq Rid
BY NamesAssumption DEF Rid, RequestOf, DropOf

LEMMA ThreadsDiffer ==
    /\ \A c \in Client : /\ c \in Thread /\ c \notin Rest /\ c # NoThread
                         /\ c \notin {"channel", "killer", "activator", "proxy"}
    /\ \A x \in Rest : /\ x \in Thread /\ x \notin Client /\ x # NoThread
                       /\ x \notin {"channel", "killer", "activator", "proxy"}
    /\ {"channel", "killer", "activator", "proxy"} \subseteq Thread \ {NoThread}
BY NamesAssumption DEF Thread

(* A signal takes a thread from those that wait, a wait puts one there.     *)
LEMMA SignalledType ==
    ASSUME NEW w \in [Condition -> SUBSET Thread], NEW v \in Condition,
           NEW u \in Signalled(w, v)
    PROVE  u \in [Condition -> SUBSET Thread]
BY DEF Signalled, Condition

(* Every step keeps the types. *)
LEMMA TypeInvStep == TypeInv /\ [Next]_vars => TypeInv'
<1> SUFFICES ASSUME TypeInv, [Next]_vars PROVE TypeInv'
    OBVIOUS
<1> USE NamesDiffer, ThreadsDiffer, SignalledType
        DEF TypeInv, Condition, Label,
            Goto, Free, vars, locks, shm, context, requests, locals, ghosts
<1>1. ASSUME ChannelLock PROVE TypeInv'
    BY <1>1 DEF ChannelLock
<1>2. ASSUME ChannelLoop PROVE TypeInv'
    BY <1>2 DEF ChannelLoop
<1>3. ASSUME NEW r \in Rid, ChannelNext(r) PROVE TypeInv'
    BY <1>3 DEF ChannelNext
<1>4. ASSUME ChannelSleep PROVE TypeInv'
    BY <1>4 DEF ChannelSleep, Wait
<1>5. ASSUME ChannelIdleSleep PROVE TypeInv'
    BY <1>5 DEF ChannelIdleSleep, IdleSleep, Wait
<1>6. ASSUME ChannelSend PROVE TypeInv'
    BY <1>6 DEF ChannelSend, IdleReady, SignalAndWait
<1>7. ASSUME ChannelCreateFails PROVE TypeInv'
    BY <1>7 DEF ChannelCreateFails, IdleReady
<1>8. ASSUME ChannelAnswer PROVE TypeInv'
    <2>1. pc' \in [Thread -> Label]
        BY <1>8 DEF ChannelAnswer, Signal, request_sent
    <2>2. lock' \in [{"table", "ctx", "shm"} -> Thread \union {NoThread}]
        BY <1>8 DEF ChannelAnswer, Signal, request_sent
    <2>3. waiting' \in [Condition -> SUBSET Thread]
        BY <1>8 DEF ChannelAnswer, Signal, request_sent
    <2>4. state' \in {"INIT", "IDLE", "REQUEST", "ACKNOWLEDGED", "FAILS", "DONE",
                      "STOP_REQUEST", "REST", "REST_RESPOND", "TERMINATION"}
        BY <1>8 DEF ChannelAnswer, Signal, request_sent
    <2>5. /\ owner_dead' \in BOOLEAN
          /\ stop' \in BOOLEAN /\ registered' \in BOOLEAN /\ freed' \in BOOLEAN
          /\ terminate' \in BOOLEAN /\ lost' \in BOOLEAN
        BY <1>8 DEF ChannelAnswer, Signal, request_sent
    <2>6. /\ shm_rid' \in Rid \union {NoRid}
          /\ listed' \in SUBSET Rid /\ sent' \in SUBSET listed'
          /\ todo' \in SUBSET Rid /\ rid' \in Rid \union {NoRid}
          /\ passed' \in SUBSET Rid /\ delivered' \in SUBSET Rid
          /\ state' = "REQUEST" => shm_rid' \in Rid
          /\ pc'["channel"] \in {"send_shm", "send_idle", "answer"} => rid' \in Rid
        BY <1>8 DEF ChannelAnswer, Signal, request_sent
    <2> QED BY <2>1, <2>2, <2>3, <2>4, <2>5, <2>6
<1>9. ASSUME ChannelStopRequest PROVE TypeInv'
    BY <1>9 DEF ChannelStopRequest, IdleReady, Signal
<1>10. ASSUME ChannelIdleFails PROVE TypeInv'
    <2>1. pc' \in [Thread -> Label]
        BY <1>10 DEF ChannelIdleFails, IdleFailed
    <2>2. lock' \in [{"table", "ctx", "shm"} -> Thread \union {NoThread}]
        BY <1>10 DEF ChannelIdleFails, IdleFailed
    <2>3. waiting' \in [Condition -> SUBSET Thread]
        BY <1>10 DEF ChannelIdleFails, IdleFailed
    <2>4. state' \in {"INIT", "IDLE", "REQUEST", "ACKNOWLEDGED", "FAILS", "DONE",
                      "STOP_REQUEST", "REST", "REST_RESPOND", "TERMINATION"}
        BY <1>10 DEF ChannelIdleFails, IdleFailed
    <2>5. /\ owner_dead' \in BOOLEAN
          /\ stop' \in BOOLEAN /\ registered' \in BOOLEAN /\ freed' \in BOOLEAN
          /\ terminate' \in BOOLEAN /\ lost' \in BOOLEAN
        BY <1>10 DEF ChannelIdleFails, IdleFailed
    <2>6. /\ shm_rid' \in Rid \union {NoRid}
          /\ listed' \in SUBSET Rid /\ sent' \in SUBSET listed'
          /\ todo' \in SUBSET Rid /\ rid' \in Rid \union {NoRid}
          /\ passed' \in SUBSET Rid /\ delivered' \in SUBSET Rid
          /\ state' = "REQUEST" => shm_rid' \in Rid
          /\ pc'["channel"] \in {"send_shm", "send_idle", "answer"} => rid' \in Rid
        BY <1>10 DEF ChannelIdleFails, IdleFailed
    <2> QED BY <2>1, <2>2, <2>3, <2>4, <2>5, <2>6
<1>11. ASSUME ChannelLeave PROVE TypeInv'
    BY <1>11 DEF ChannelLeave
<1>12. ASSUME NEW c \in Client, Submit(c) PROVE TypeInv'
    BY <1>12 DEF Submit
<1>13. ASSUME NEW c \in Client, Withdraw(c) PROVE TypeInv'
    BY <1>13 DEF Withdraw
<1>14. ASSUME NEW c \in Client, ClientLookup(c) PROVE TypeInv'
    BY <1>14 DEF ClientLookup
<1>15. ASSUME NEW c \in Client, ClientSignal(c) PROVE TypeInv'
    BY <1>15 DEF ClientSignal, Signal
<1>16. ASSUME NEW x \in Rest, RestLookup(x) PROVE TypeInv'
    BY <1>16 DEF RestLookup
<1>17. ASSUME NEW x \in Rest, RestIdleSleep(x) PROVE TypeInv'
    BY <1>17 DEF RestIdleSleep, IdleSleep, Wait
<1>18. ASSUME NEW x \in Rest, RestSend(x) PROVE TypeInv'
    BY <1>18 DEF RestSend, IdleReady, SignalAndWait
<1>19. ASSUME NEW x \in Rest, RestCreateFails(x) PROVE TypeInv'
    BY <1>19 DEF RestCreateFails, IdleReady
<1>20. ASSUME NEW x \in Rest, RestAnswer(x) PROVE TypeInv'
    <2>1. pc' \in [Thread -> Label]
        BY <1>20 DEF RestAnswer, Signal
    <2>2. lock' \in [{"table", "ctx", "shm"} -> Thread \union {NoThread}]
        BY <1>20 DEF RestAnswer, Signal
    <2>3. waiting' \in [Condition -> SUBSET Thread]
        BY <1>20 DEF RestAnswer, Signal
    <2>4. state' \in {"INIT", "IDLE", "REQUEST", "ACKNOWLEDGED", "FAILS", "DONE",
                      "STOP_REQUEST", "REST", "REST_RESPOND", "TERMINATION"}
        BY <1>20 DEF RestAnswer, Signal
    <2>5. /\ owner_dead' \in BOOLEAN
          /\ stop' \in BOOLEAN /\ registered' \in BOOLEAN /\ freed' \in BOOLEAN
          /\ terminate' \in BOOLEAN /\ lost' \in BOOLEAN
        BY <1>20 DEF RestAnswer, Signal
    <2>6. /\ shm_rid' \in Rid \union {NoRid}
          /\ listed' \in SUBSET Rid /\ sent' \in SUBSET listed'
          /\ todo' \in SUBSET Rid /\ rid' \in Rid \union {NoRid}
          /\ passed' \in SUBSET Rid /\ delivered' \in SUBSET Rid
          /\ state' = "REQUEST" => shm_rid' \in Rid
          /\ pc'["channel"] \in {"send_shm", "send_idle", "answer"} => rid' \in Rid
        BY <1>20 DEF RestAnswer, Signal
    <2> QED BY <2>1, <2>2, <2>3, <2>4, <2>5, <2>6
<1>21. ASSUME NEW x \in Rest, RestIdleFails(x) PROVE TypeInv'
    <2>1. pc' \in [Thread -> Label]
        BY <1>21 DEF RestIdleFails, IdleFailed
    <2>2. lock' \in [{"table", "ctx", "shm"} -> Thread \union {NoThread}]
        BY <1>21 DEF RestIdleFails, IdleFailed
    <2>3. waiting' \in [Condition -> SUBSET Thread]
        BY <1>21 DEF RestIdleFails, IdleFailed
    <2>4. state' \in {"INIT", "IDLE", "REQUEST", "ACKNOWLEDGED", "FAILS", "DONE",
                      "STOP_REQUEST", "REST", "REST_RESPOND", "TERMINATION"}
        BY <1>21 DEF RestIdleFails, IdleFailed
    <2>5. /\ owner_dead' \in BOOLEAN
          /\ stop' \in BOOLEAN /\ registered' \in BOOLEAN /\ freed' \in BOOLEAN
          /\ terminate' \in BOOLEAN /\ lost' \in BOOLEAN
        BY <1>21 DEF RestIdleFails, IdleFailed
    <2>6. /\ shm_rid' \in Rid \union {NoRid}
          /\ listed' \in SUBSET Rid /\ sent' \in SUBSET listed'
          /\ todo' \in SUBSET Rid /\ rid' \in Rid \union {NoRid}
          /\ passed' \in SUBSET Rid /\ delivered' \in SUBSET Rid
          /\ state' = "REQUEST" => shm_rid' \in Rid
          /\ pc'["channel"] \in {"send_shm", "send_idle", "answer"} => rid' \in Rid
        BY <1>21 DEF RestIdleFails, IdleFailed
    <2> QED BY <2>1, <2>2, <2>3, <2>4, <2>5, <2>6
<1>22. ASSUME KillStart PROVE TypeInv'
    <2>1. pc' \in [Thread -> Label]
        BY <1>22 DEF KillStart
    <2>2. lock' \in [{"table", "ctx", "shm"} -> Thread \union {NoThread}]
        BY <1>22 DEF KillStart
    <2>3. waiting' \in [Condition -> SUBSET Thread]
        BY <1>22 DEF KillStart
    <2>4. state' \in {"INIT", "IDLE", "REQUEST", "ACKNOWLEDGED", "FAILS", "DONE",
                      "STOP_REQUEST", "REST", "REST_RESPOND", "TERMINATION"}
        BY <1>22 DEF KillStart
    <2>5. /\ owner_dead' \in BOOLEAN
          /\ stop' \in BOOLEAN /\ registered' \in BOOLEAN /\ freed' \in BOOLEAN
          /\ terminate' \in BOOLEAN /\ lost' \in BOOLEAN
        BY <1>22 DEF KillStart
    <2>6. /\ shm_rid' \in Rid \union {NoRid}
          /\ listed' \in SUBSET Rid /\ sent' \in SUBSET listed'
          /\ todo' \in SUBSET Rid /\ rid' \in Rid \union {NoRid}
          /\ passed' \in SUBSET Rid /\ delivered' \in SUBSET Rid
          /\ state' = "REQUEST" => shm_rid' \in Rid
          /\ pc'["channel"] \in {"send_shm", "send_idle", "answer"} => rid' \in Rid
        BY <1>22 DEF KillStart
    <2> QED BY <2>1, <2>2, <2>3, <2>4, <2>5, <2>6
<1>23. ASSUME KillLookup PROVE TypeInv'
    BY <1>23 DEF KillLookup
<1>24. ASSUME NEW t \in {"killer", "activator"}, StopShm(t) PROVE TypeInv'
    BY <1>24 DEF StopShm
<1>25. ASSUME NEW t \in {"killer", "activator"}, StopCtx(t) PROVE TypeInv'
    BY <1>25 DEF StopCtx, Signal
<1>26. ASSUME NEW t \in {"killer", "activator"}, Join(t) PROVE TypeInv'
    <2>1. pc' \in [Thread -> Label]
        BY <1>26 DEF Join
    <2>2. lock' \in [{"table", "ctx", "shm"} -> Thread \union {NoThread}]
        BY <1>26 DEF Join
    <2>3. waiting' \in [Condition -> SUBSET Thread]
        BY <1>26 DEF Join
    <2>4. state' \in {"INIT", "IDLE", "REQUEST", "ACKNOWLEDGED", "FAILS", "DONE",
                      "STOP_REQUEST", "REST", "REST_RESPOND", "TERMINATION"}
        BY <1>26 DEF Join
    <2>5. /\ owner_dead' \in BOOLEAN
          /\ stop' \in BOOLEAN /\ registered' \in BOOLEAN /\ freed' \in BOOLEAN
          /\ terminate' \in BOOLEAN /\ lost' \in BOOLEAN
        BY <1>26 DEF Join
    <2>6. /\ shm_rid' \in Rid \union {NoRid}
          /\ listed' \in SUBSET Rid /\ sent' \in SUBSET listed'
          /\ todo' \in SUBSET Rid /\ rid' \in Rid \union {NoRid}
          /\ passed' \in SUBSET Rid /\ delivered' \in SUBSET Rid
          /\ state' = "REQUEST" => shm_rid' \in Rid
          /\ pc'["channel"] \in {"send_shm", "send_idle", "answer"} => rid' \in Rid
        BY <1>26 DEF Join
    <2> QED BY <2>1, <2>2, <2>3, <2>4, <2>5, <2>6
<1>27. ASSUME Register PROVE TypeInv'
    BY <1>27 DEF Register
<1>28. ASSUME ActivationTimeout PROVE TypeInv'
    BY <1>28 DEF ActivationTimeout
<1>29. ASSUME ActivationFails PROVE TypeInv'
    BY <1>29 DEF ActivationFails
<1>30. ASSUME ActivatorSignal PROVE TypeInv'
    BY <1>30 DEF ActivatorSignal, Signal
<1>31. ASSUME ProxyIdle PROVE TypeInv'
    BY <1>31 DEF ProxyIdle, SignalAndWait, Stopped
<1>32. ASSUME ProxyServe PROVE TypeInv'
    <2>1. pc' \in [Thread -> Label]
        BY <1>32 DEF ProxyServe, SignalAndWait
    <2>2. lock' \in [{"table", "ctx", "shm"} -> Thread \union {NoThread}]
        BY <1>32 DEF ProxyServe, SignalAndWait
    <2>3. waiting' \in [Condition -> SUBSET Thread]
        BY <1>32 DEF ProxyServe, SignalAndWait
    <2>4. state' \in {"INIT", "IDLE", "REQUEST", "ACKNOWLEDGED", "FAILS", "DONE",
                      "STOP_REQUEST", "REST", "REST_RESPOND", "TERMINATION"}
        BY <1>32 DEF ProxyServe, SignalAndWait
    <2>5. /\ owner_dead' \in BOOLEAN
          /\ stop' \in BOOLEAN /\ registered' \in BOOLEAN /\ freed' \in BOOLEAN
          /\ terminate' \in BOOLEAN /\ lost' \in BOOLEAN
        BY <1>32 DEF ProxyServe, SignalAndWait
    <2>6. /\ shm_rid' \in Rid \union {NoRid}
          /\ listed' \in SUBSET Rid /\ sent' \in SUBSET listed'
          /\ todo' \in SUBSET Rid /\ rid' \in Rid \union {NoRid}
          /\ passed' \in SUBSET Rid /\ delivered' \in SUBSET Rid
          /\ state' = "REQUEST" => shm_rid' \in Rid
          /\ pc'["channel"] \in {"send_shm", "send_idle", "answer"} => rid' \in Rid
        BY <1>32 DEF ProxyServe, SignalAndWait
    <2> QED BY <2>1, <2>2, <2>3, <2>4, <2>5, <2>6
<1>33. ASSUME ProxyDone PROVE TypeInv'
    BY <1>33 DEF ProxyDone
<1>34. ASSUME ProxyWaitOn PROVE TypeInv'
    BY <1>34 DEF ProxyWaitOn, Wait, Stopped
<1>35. ASSUME ProxyStops PROVE TypeInv'
    <2>1. pc' \in [Thread -> Label]
        BY <1>35 DEF ProxyStops, Stopped
    <2>2. lock' \in [{"table", "ctx", "shm"} -> Thread \union {NoThread}]
        BY <1>35 DEF ProxyStops, Stopped
    <2>3. waiting' \in [Condition -> SUBSET Thread]
        BY <1>35 DEF ProxyStops, Stopped
    <2>4. state' \in {"INIT", "IDLE", "REQUEST", "ACKNOWLEDGED", "FAILS", "DONE",
                      "STOP_REQUEST", "REST", "REST_RESPOND", "TERMINATION"}
        BY <1>35 DEF ProxyStops, Stopped
    <2>5. /\ owner_dead' \in BOOLEAN
          /\ stop' \in BOOLEAN /\ registered' \in BOOLEAN /\ freed' \in BOOLEAN
          /\ terminate' \in BOOLEAN /\ lost' \in BOOLEAN
        BY <1>35 DEF ProxyStops, Stopped
    <2>6. /\ shm_rid' \in Rid \union {NoRid}
          /\ listed' \in SUBSET Rid /\ sent' \in SUBSET listed'
          /\ todo' \in SUBSET Rid /\ rid' \in Rid \union {NoRid}
          /\ passed' \in SUBSET Rid /\ delivered' \in SUBSET Rid
          /\ state' = "REQUEST" => shm_rid' \in Rid
          /\ pc'["channel"] \in {"send_shm", "send_idle", "answer"} => rid' \in Rid
        BY <1>35 DEF ProxyStops, Stopped
    <2> QED BY <2>1, <2>2, <2>3, <2>4, <2>5, <2>6
<1>36. ASSUME ProxyDies PROVE TypeInv'
    <2>1. pc' \in [Thread -> Label]
        BY <1>36 DEF ProxyDies
    <2>2. lock' \in [{"table", "ctx", "shm"} -> Thread \union {NoThread}]
        BY <1>36 DEF ProxyDies
    <2>3. waiting' \in [Condition -> SUBSET Thread]
        BY <1>36 DEF ProxyDies
    <2>4. state' \in {"INIT", "IDLE", "REQUEST", "ACKNOWLEDGED", "FAILS", "DONE",
                      "STOP_REQUEST", "REST", "REST_RESPOND", "TERMINATION"}
        BY <1>36 DEF ProxyDies
    <2>5. /\ owner_dead' \in BOOLEAN
          /\ stop' \in BOOLEAN /\ registered' \in BOOLEAN /\ freed' \in BOOLEAN
          /\ terminate' \in BOOLEAN /\ lost' \in BOOLEAN
        BY <1>36 DEF ProxyDies
    <2>6. /\ shm_rid' \in Rid \union {NoRid}
          /\ listed' \in SUBSET Rid /\ sent' \in SUBSET listed'
          /\ todo' \in SUBSET Rid /\ rid' \in Rid \union {NoRid}
          /\ passed' \in SUBSET Rid /\ delivered' \in SUBSET Rid
          /\ state' = "REQUEST" => shm_rid' \in Rid
          /\ pc'["channel"] \in {"send_shm", "send_idle", "answer"} => rid' \in Rid
        BY <1>36 DEF ProxyDies
    <2> QED BY <2>1, <2>2, <2>3, <2>4, <2>5, <2>6
<1>37. ASSUME NEW x \in Rest, RestRead(x) PROVE TypeInv'
    BY <1>37 DEF RestRead
<1>38. ASSUME UNCHANGED vars PROVE TypeInv'
    BY <1>38
<1> QED
    <2> HIDE DEF TypeInv, Condition, Label
    <2> QED
        BY <1>1, <1>2, <1>3, <1>4, <1>5, <1>6, <1>7, <1>8, <1>9, <1>10, <1>11, <1>12, <1>13,
           <1>14, <1>15, <1>16, <1>17, <1>18, <1>19, <1>20, <1>21, <1>22, <1>23, <1>24, <1>25,
           <1>26, <1>27, <1>28, <1>29, <1>30, <1>31, <1>32, <1>33, <1>34, <1>35, <1>36, <1>37,
           <1>38
           DEF Next, ChannelStep, ClientStep, RestStep, KillerStep, ActivatorStep, ProxyStep

(* No worker loses the table. *)
LEMMA TableInvStep == TypeInv /\ TableInv /\ [Next]_vars => TableInv'
<1> SUFFICES ASSUME TypeInv, TableInv, [Next]_vars PROVE TableInv'
    OBVIOUS
<1> USE ThreadsDiffer
        DEF TypeInv, Label, TableInv, Using,
            Goto, Free, vars, locks, shm, context, requests, locals, ghosts
<1>1. ASSUME ChannelLock PROVE TableInv'
    BY <1>1 DEF ChannelLock
<1>2. ASSUME ChannelLoop PROVE TableInv'
    BY <1>2 DEF ChannelLoop
<1>3. ASSUME NEW r \in Rid, ChannelNext(r) PROVE TableInv'
    BY <1>3 DEF ChannelNext
<1>4. ASSUME ChannelSleep PROVE TableInv'
    BY <1>4 DEF ChannelSleep, Wait
<1>5. ASSUME ChannelIdleSleep PROVE TableInv'
    BY <1>5 DEF ChannelIdleSleep, IdleSleep, Wait
<1>6. ASSUME ChannelSend PROVE TableInv'
    BY <1>6 DEF ChannelSend, IdleReady, SignalAndWait
<1>7. ASSUME ChannelCreateFails PROVE TableInv'
    BY <1>7 DEF ChannelCreateFails, IdleReady
<1>8. ASSUME ChannelAnswer PROVE TableInv'
    BY <1>8 DEF ChannelAnswer, Signal, request_sent
<1>9. ASSUME ChannelStopRequest PROVE TableInv'
    BY <1>9 DEF ChannelStopRequest, IdleReady, Signal
<1>10. ASSUME ChannelIdleFails PROVE TableInv'
    BY <1>10 DEF ChannelIdleFails, IdleFailed
<1>11. ASSUME ChannelLeave PROVE TableInv'
    BY <1>11 DEF ChannelLeave
<1>12. ASSUME NEW c \in Client, Submit(c) PROVE TableInv'
    BY <1>12 DEF Submit
<1>13. ASSUME NEW c \in Client, Withdraw(c) PROVE TableInv'
    BY <1>13 DEF Withdraw
<1>14. ASSUME NEW c \in Client, ClientLookup(c) PROVE TableInv'
    BY <1>14 DEF ClientLookup
<1>15. ASSUME NEW c \in Client, ClientSignal(c) PROVE TableInv'
    BY <1>15 DEF ClientSignal, Signal
<1>16. ASSUME NEW x \in Rest, RestLookup(x) PROVE TableInv'
    BY <1>16 DEF RestLookup
<1>17. ASSUME NEW x \in Rest, RestIdleSleep(x) PROVE TableInv'
    BY <1>17 DEF RestIdleSleep, IdleSleep, Wait
<1>18. ASSUME NEW x \in Rest, RestSend(x) PROVE TableInv'
    BY <1>18 DEF RestSend, IdleReady, SignalAndWait
<1>19. ASSUME NEW x \in Rest, RestCreateFails(x) PROVE TableInv'
    BY <1>19 DEF RestCreateFails, IdleReady
<1>20. ASSUME NEW x \in Rest, RestAnswer(x) PROVE TableInv'
    BY <1>20 DEF RestAnswer, Signal
<1>21. ASSUME NEW x \in Rest, RestIdleFails(x) PROVE TableInv'
    BY <1>21 DEF RestIdleFails, IdleFailed
<1>22. ASSUME KillStart PROVE TableInv'
    BY <1>22 DEF KillStart
<1>23. ASSUME KillLookup PROVE TableInv'
    BY <1>23 DEF KillLookup
<1>24. ASSUME NEW t \in {"killer", "activator"}, StopShm(t) PROVE TableInv'
    BY <1>24 DEF StopShm
<1>25. ASSUME NEW t \in {"killer", "activator"}, StopCtx(t) PROVE TableInv'
    BY <1>25 DEF StopCtx, Signal
<1>26. ASSUME NEW t \in {"killer", "activator"}, Join(t) PROVE TableInv'
    BY <1>26 DEF Join
<1>27. ASSUME Register PROVE TableInv'
    BY <1>27 DEF Register
<1>28. ASSUME ActivationTimeout PROVE TableInv'
    BY <1>28 DEF ActivationTimeout
<1>29. ASSUME ActivationFails PROVE TableInv'
    BY <1>29 DEF ActivationFails
<1>30. ASSUME ActivatorSignal PROVE TableInv'
    BY <1>30 DEF ActivatorSignal, Signal
<1>31. ASSUME ProxyIdle PROVE TableInv'
    BY <1>31 DEF ProxyIdle, SignalAndWait, Stopped
<1>32. ASSUME ProxyServe PROVE TableInv'
    BY <1>32 DEF ProxyServe, SignalAndWait
<1>33. ASSUME ProxyDone PROVE TableInv'
    BY <1>33 DEF ProxyDone
<1>34. ASSUME ProxyWaitOn PROVE TableInv'
    BY <1>34 DEF ProxyWaitOn, Wait, Stopped
<1>35. ASSUME ProxyStops PROVE TableInv'
    BY <1>35 DEF ProxyStops, Stopped
<1>36. ASSUME ProxyDies PROVE TableInv'
    BY <1>36 DEF ProxyDies
<1>37. ASSUME NEW x \in Rest, RestRead(x) PROVE TableInv'
    BY <1>37 DEF RestRead
<1>38. ASSUME UNCHANGED vars PROVE TableInv'
    BY <1>38
<1> QED
    <2> HIDE DEF TypeInv, Label, TableInv, Using
    <2> QED
        BY <1>1, <1>2, <1>3, <1>4, <1>5, <1>6, <1>7, <1>8, <1>9, <1>10, <1>11, <1>12, <1>13,
           <1>14, <1>15, <1>16, <1>17, <1>18, <1>19, <1>20, <1>21, <1>22, <1>23, <1>24, <1>25,
           <1>26, <1>27, <1>28, <1>29, <1>30, <1>31, <1>32, <1>33, <1>34, <1>35, <1>36, <1>37,
           <1>38
           DEF Next, ChannelStep, ClientStep, RestStep, KillerStep, ActivatorStep, ProxyStep

(* No drop overtakes its request. *)
LEMMA DropInvStep == TypeInv /\ TableInv /\ DropInv /\ [Next]_vars => DropInv'
<1> SUFFICES ASSUME TypeInv, TableInv, DropInv, [Next]_vars PROVE DropInv'
    OBVIOUS
<1> USE NamesDiffer, ThreadsDiffer
        DEF TypeInv, Label, TableInv, DropInv, Using,
            Goto, Free, vars, locks, shm, context, requests, locals, ghosts
<1>1. ASSUME ChannelLock PROVE DropInv'
    BY <1>1 DEF ChannelLock
<1>2. ASSUME ChannelLoop PROVE DropInv'
    BY <1>2 DEF ChannelLoop
<1>3. ASSUME NEW r \in Rid, ChannelNext(r) PROVE DropInv'
    BY <1>3 DEF ChannelNext
<1>4. ASSUME ChannelSleep PROVE DropInv'
    BY <1>4 DEF ChannelSleep, Wait
<1>5. ASSUME ChannelIdleSleep PROVE DropInv'
    BY <1>5 DEF ChannelIdleSleep, IdleSleep, Wait
<1>6. ASSUME ChannelSend PROVE DropInv'
    BY <1>6 DEF ChannelSend, IdleReady, SignalAndWait
<1>7. ASSUME ChannelCreateFails PROVE DropInv'
    BY <1>7 DEF ChannelCreateFails, IdleReady
<1>8. ASSUME ChannelAnswer PROVE DropInv'
    BY <1>8 DEF ChannelAnswer, Signal, request_sent
<1>9. ASSUME ChannelStopRequest PROVE DropInv'
    BY <1>9 DEF ChannelStopRequest, IdleReady, Signal
<1>10. ASSUME ChannelIdleFails PROVE DropInv'
    BY <1>10 DEF ChannelIdleFails, IdleFailed
<1>11. ASSUME ChannelLeave PROVE DropInv'
    BY <1>11 DEF ChannelLeave
<1>12. ASSUME NEW c \in Client, Submit(c) PROVE DropInv'
    BY <1>12 DEF Submit
<1>13. ASSUME NEW c \in Client, Withdraw(c) PROVE DropInv'
    BY <1>13 DEF Withdraw
<1>14. ASSUME NEW c \in Client, ClientLookup(c) PROVE DropInv'
    BY <1>14 DEF ClientLookup
<1>15. ASSUME NEW c \in Client, ClientSignal(c) PROVE DropInv'
    BY <1>15 DEF ClientSignal, Signal
<1>16. ASSUME NEW x \in Rest, RestLookup(x) PROVE DropInv'
    BY <1>16 DEF RestLookup
<1>17. ASSUME NEW x \in Rest, RestIdleSleep(x) PROVE DropInv'
    BY <1>17 DEF RestIdleSleep, IdleSleep, Wait
<1>18. ASSUME NEW x \in Rest, RestSend(x) PROVE DropInv'
    BY <1>18 DEF RestSend, IdleReady, SignalAndWait
<1>19. ASSUME NEW x \in Rest, RestCreateFails(x) PROVE DropInv'
    BY <1>19 DEF RestCreateFails, IdleReady
<1>20. ASSUME NEW x \in Rest, RestAnswer(x) PROVE DropInv'
    BY <1>20 DEF RestAnswer, Signal
<1>21. ASSUME NEW x \in Rest, RestIdleFails(x) PROVE DropInv'
    BY <1>21 DEF RestIdleFails, IdleFailed
<1>22. ASSUME KillStart PROVE DropInv'
    BY <1>22 DEF KillStart
<1>23. ASSUME KillLookup PROVE DropInv'
    BY <1>23 DEF KillLookup
<1>24. ASSUME NEW t \in {"killer", "activator"}, StopShm(t) PROVE DropInv'
    BY <1>24 DEF StopShm
<1>25. ASSUME NEW t \in {"killer", "activator"}, StopCtx(t) PROVE DropInv'
    BY <1>25 DEF StopCtx, Signal
<1>26. ASSUME NEW t \in {"killer", "activator"}, Join(t) PROVE DropInv'
    BY <1>26 DEF Join
<1>27. ASSUME Register PROVE DropInv'
    BY <1>27 DEF Register
<1>28. ASSUME ActivationTimeout PROVE DropInv'
    BY <1>28 DEF ActivationTimeout
<1>29. ASSUME ActivationFails PROVE DropInv'
    BY <1>29 DEF ActivationFails
<1>30. ASSUME ActivatorSignal PROVE DropInv'
    BY <1>30 DEF ActivatorSignal, Signal
<1>31. ASSUME ProxyIdle PROVE DropInv'
    BY <1>31 DEF ProxyIdle, SignalAndWait, Stopped
<1>32. ASSUME ProxyServe PROVE DropInv'
    BY <1>32 DEF ProxyServe, SignalAndWait
<1>33. ASSUME ProxyDone PROVE DropInv'
    BY <1>33 DEF ProxyDone
<1>34. ASSUME ProxyWaitOn PROVE DropInv'
    BY <1>34 DEF ProxyWaitOn, Wait, Stopped
<1>35. ASSUME ProxyStops PROVE DropInv'
    BY <1>35 DEF ProxyStops, Stopped
<1>36. ASSUME ProxyDies PROVE DropInv'
    BY <1>36 DEF ProxyDies
<1>37. ASSUME NEW x \in Rest, RestRead(x) PROVE DropInv'
    BY <1>37 DEF RestRead
<1>38. ASSUME UNCHANGED vars PROVE DropInv'
    BY <1>38
<1> QED
    <2> HIDE DEF TypeInv, Label, TableInv, DropInv, Using
    <2> QED
        BY <1>1, <1>2, <1>3, <1>4, <1>5, <1>6, <1>7, <1>8, <1>9, <1>10, <1>11, <1>12, <1>13,
           <1>14, <1>15, <1>16, <1>17, <1>18, <1>19, <1>20, <1>21, <1>22, <1>23, <1>24, <1>25,
           <1>26, <1>27, <1>28, <1>29, <1>30, <1>31, <1>32, <1>33, <1>34, <1>35, <1>36, <1>37,
           <1>38
           DEF Next, ChannelStep, ClientStep, RestStep, KillerStep, ActivatorStep, ProxyStep

(* A dead proxy answers nothing. *)
LEMMA LostInvStep == TypeInv /\ LostInv /\ [Next]_vars => LostInv'
<1> SUFFICES ASSUME TypeInv, LostInv, [Next]_vars PROVE LostInv'
    OBVIOUS
<1> USE NamesDiffer, ThreadsDiffer
        DEF TypeInv, LostInv, Label,
            Goto, Free, vars, locks, shm, context, requests, locals, ghosts
<1>1. ASSUME ChannelLock PROVE LostInv'
    BY <1>1 DEF ChannelLock
<1>2. ASSUME ChannelLoop PROVE LostInv'
    BY <1>2 DEF ChannelLoop
<1>3. ASSUME NEW r \in Rid, ChannelNext(r) PROVE LostInv'
    BY <1>3 DEF ChannelNext
<1>4. ASSUME ChannelSleep PROVE LostInv'
    BY <1>4 DEF ChannelSleep, Wait
<1>5. ASSUME ChannelIdleSleep PROVE LostInv'
    <2>1. CASE IdleSleep("channel", "send_shm", "send_idle")
        BY <2>1 DEF IdleSleep, Wait
    <2>2. CASE IdleSleep("channel", "stop_shm", "stop_idle")
        BY <2>2 DEF IdleSleep, Wait
    <2> QED BY <1>5, <2>1, <2>2 DEF ChannelIdleSleep
<1>6. ASSUME ChannelSend PROVE LostInv'
    BY <1>6 DEF ChannelSend, IdleReady, SignalAndWait
<1>7. ASSUME ChannelCreateFails PROVE LostInv'
    BY <1>7 DEF ChannelCreateFails, IdleReady
<1>8. ASSUME ChannelAnswer PROVE LostInv'
    BY <1>8 DEF ChannelAnswer, Signal, request_sent
<1>9. ASSUME ChannelStopRequest PROVE LostInv'
    BY <1>9 DEF ChannelStopRequest, IdleReady, Signal
<1>10. ASSUME ChannelIdleFails PROVE LostInv'
    BY <1>10 DEF ChannelIdleFails, IdleFailed
<1>11. ASSUME ChannelLeave PROVE LostInv'
    BY <1>11 DEF ChannelLeave
<1>12. ASSUME NEW c \in Client, Submit(c) PROVE LostInv'
    BY <1>12 DEF Submit
<1>13. ASSUME NEW c \in Client, Withdraw(c) PROVE LostInv'
    BY <1>13 DEF Withdraw
<1>14. ASSUME NEW c \in Client, ClientLookup(c) PROVE LostInv'
    BY <1>14 DEF ClientLookup
<1>15. ASSUME NEW c \in Client, ClientSignal(c) PROVE LostInv'
    BY <1>15 DEF ClientSignal, Signal
<1>16. ASSUME NEW x \in Rest, RestLookup(x) PROVE LostInv'
    BY <1>16 DEF RestLookup
<1>17. ASSUME NEW x \in Rest, RestIdleSleep(x) PROVE LostInv'
    BY <1>17 DEF RestIdleSleep, IdleSleep, Wait
<1>18. ASSUME NEW x \in Rest, RestSend(x) PROVE LostInv'
    BY <1>18 DEF RestSend, IdleReady, SignalAndWait
<1>19. ASSUME NEW x \in Rest, RestCreateFails(x) PROVE LostInv'
    BY <1>19 DEF RestCreateFails, IdleReady
<1>20. ASSUME NEW x \in Rest, RestAnswer(x) PROVE LostInv'
    BY <1>20 DEF RestAnswer, Signal
<1>21. ASSUME NEW x \in Rest, RestIdleFails(x) PROVE LostInv'
    BY <1>21 DEF RestIdleFails, IdleFailed
<1>22. ASSUME KillStart PROVE LostInv'
    BY <1>22 DEF KillStart
<1>23. ASSUME KillLookup PROVE LostInv'
    BY <1>23 DEF KillLookup
<1>24. ASSUME NEW t \in {"killer", "activator"}, StopShm(t) PROVE LostInv'
    BY <1>24 DEF StopShm
<1>25. ASSUME NEW t \in {"killer", "activator"}, StopCtx(t) PROVE LostInv'
    BY <1>25 DEF StopCtx, Signal
<1>26. ASSUME NEW t \in {"killer", "activator"}, Join(t) PROVE LostInv'
    BY <1>26 DEF Join
<1>27. ASSUME Register PROVE LostInv'
    BY <1>27 DEF Register
<1>28. ASSUME ActivationTimeout PROVE LostInv'
    BY <1>28 DEF ActivationTimeout
<1>29. ASSUME ActivationFails PROVE LostInv'
    BY <1>29 DEF ActivationFails
<1>30. ASSUME ActivatorSignal PROVE LostInv'
    BY <1>30 DEF ActivatorSignal, Signal
<1>31. ASSUME ProxyIdle PROVE LostInv'
    BY <1>31 DEF ProxyIdle, SignalAndWait, Stopped
<1>32. ASSUME ProxyServe PROVE LostInv'
    BY <1>32 DEF ProxyServe, SignalAndWait
<1>33. ASSUME ProxyDone PROVE LostInv'
    BY <1>33 DEF ProxyDone
<1>34. ASSUME ProxyWaitOn PROVE LostInv'
    BY <1>34 DEF ProxyWaitOn, Wait, Stopped
<1>35. ASSUME ProxyStops PROVE LostInv'
    BY <1>35 DEF ProxyStops, Stopped
<1>36. ASSUME ProxyDies PROVE LostInv'
    BY <1>36 DEF ProxyDies
<1>37. ASSUME NEW x \in Rest, RestRead(x) PROVE LostInv'
    BY <1>37 DEF RestRead
<1>38. ASSUME UNCHANGED vars PROVE LostInv'
    BY <1>38
<1> QED
    <2> HIDE DEF TypeInv, LostInv, Label
    <2> QED
        BY <1>1, <1>2, <1>3, <1>4, <1>5, <1>6, <1>7, <1>8, <1>9, <1>10, <1>11, <1>12, <1>13,
           <1>14, <1>15, <1>16, <1>17, <1>18, <1>19, <1>20, <1>21, <1>22, <1>23, <1>24, <1>25,
           <1>26, <1>27, <1>28, <1>29, <1>30, <1>31, <1>32, <1>33, <1>34, <1>35, <1>36, <1>37,
           <1>38
           DEF Next, ChannelStep, ClientStep, RestStep, KillerStep, ActivatorStep, ProxyStep

-----------------------------------------------------------------------------
(***************************************************************************)
(* The invariant holds from the start, and what follows from it.           *)
(***************************************************************************)
LEMMA ChannelInvHolds == Spec => []ChannelInv
<1>1. Init => ChannelInv
    <2> SUFFICES ASSUME Init PROVE ChannelInv
        OBVIOUS
    <2>1. TypeInv
        BY NamesDiffer, ThreadsDiffer DEF Init, TypeInv, Condition, Label
    <2>2. TableInv
        BY ThreadsDiffer DEF Init, TableInv, Using
    <2>3. DropInv
        BY NamesDiffer, ThreadsDiffer DEF Init, DropInv
    <2>4. LostInv
        BY DEF Init, LostInv
    <2> QED
        BY <2>1, <2>2, <2>3, <2>4 DEF ChannelInv
<1>2. ChannelInv /\ [Next]_vars => ChannelInv'
    BY TypeInvStep, TableInvStep, DropInvStep, LostInvStep DEF ChannelInv
<1> QED
    BY <1>1, <1>2, PTL DEF Spec

(* Every variable has its type, and a sents flag belongs to a request that  *)
(* is in the tables (clientproxynametable.c:84).                            *)
THEOREM ChannelTypeCorrect == Spec => []TypeOK
<1>1. ChannelInv => TypeOK
    BY DEF ChannelInv, TypeInv, Condition, TypeOK
<1> QED
    BY <1>1, ChannelInvHolds, PTL

(* However many workers there are, none has a context that is destroyed     *)
(* (clientservice.c:157-165, resthandler.c:71-153, proxy.c:103-109).        *)
THEOREM FreedIsUnused == Spec => []FreedUnused
<1>1. ChannelInv => FreedUnused
    BY DEF ChannelInv, TableInv, Using, FreedUnused
<1> QED
    BY <1>1, ChannelInvHolds, PTL

(* However many requests wait, all but at most one are unsent when the      *)
(* channel of a dead proxy is gone (proxyterminator.c:58-60).               *)
THEOREM AllButOneAreUnsent == Spec => []AllButOneUnsent
<1>1. ChannelInv => AllButOneUnsent
    BY DEF ChannelInv, LostInv, AllButOneUnsent
<1> QED
    BY <1>1, ChannelInvHolds, PTL

(* A request that the proxy was asked to drop is never delivered afterwards *)
(* (clientservice.c:137-165, proxychannel.c:264-311).                       *)
LEMMA DropIsLastStep ==
    ASSUME TypeInv, DropInv, [Next]_vars, NEW c \in Client,
           DropOf(c) \in delivered, RequestOf(c) \notin delivered
    PROVE  RequestOf(c) \notin delivered'
<1>1. CASE ProxyServe
    <2>1. shm_rid # RequestOf(c)
        BY DEF DropInv
    <2> QED
        BY <1>1, <2>1 DEF ProxyServe
<1>2. CASE UNCHANGED delivered
    BY <1>2
<1>3. ProxyServe \/ UNCHANGED delivered
    BY DEF Next, ChannelStep, ChannelLock, ChannelLoop, ChannelNext, ChannelSleep,
           ChannelIdleSleep, IdleSleep, ChannelSend, ChannelCreateFails, ChannelAnswer,
           ChannelStopRequest, ChannelIdleFails, ChannelLeave, Submit, Withdraw,
           ClientStep, ClientLookup, ClientSignal, RestLookup, RestStep, RestRead, RestIdleSleep,
           RestSend, RestCreateFails, RestAnswer, RestIdleFails, KillStart, KillerStep,
           KillLookup, StopShm, StopCtx, Join, ActivatorStep, Register, ActivationTimeout,
           ActivationFails, ActivatorSignal, ProxyStep, ProxyIdle, ProxyDone, ProxyWaitOn,
           ProxyStops, ProxyDies, ghosts, vars
<1> QED
    BY <1>1, <1>2, <1>3

THEOREM DropIsLast == Spec => DropComesLast
<1>1. ChannelInv /\ [Next]_vars =>
          [\A c \in Client : (DropOf(c) \in delivered /\ RequestOf(c) \notin delivered)
                                 => RequestOf(c) \notin delivered']_vars
    BY DropIsLastStep DEF ChannelInv
<1> QED
    BY <1>1, ChannelInvHolds, PTL DEF Spec, DropComesLast

-----------------------------------------------------------------------------
(***************************************************************************)
(* No wakeup is lost.  That a request is sent and a stop ends is a matter  *)
(* of fairness; that the channel thread does not sleep through what it     *)
(* waits for is not.                                                       *)
(***************************************************************************)
(* Who holds the context's lock, and who waits on what.                     *)
HasContext == {"loop", "next", "send_shm", "send_idle", "stop_shm", "stop_idle", "answer",
               "leave"}

SleepInv ==
    /\ pc["channel"] \in HasContext \union {"start", "wakeup", "exit"}
    /\ pc["channel"] \in HasContext => lock["ctx"] = "channel"
    /\ waiting["wakeup"] \subseteq {"channel"}
    /\ waiting["idle"] \subseteq {"channel"} \union Rest
    /\ waiting["dispatcher"] \subseteq {"channel"} \union Rest
    /\ waiting["proxy"] \subseteq {"proxy"}
    /\ "channel" \in waiting["wakeup"] => pc["channel"] = "wakeup"
    /\ "channel" \in waiting["idle"] => pc["channel"] \in {"send_idle", "stop_idle"}
    /\ "channel" \in waiting["dispatcher"] => pc["channel"] = "answer"
    /\ \A x \in Rest : x \in waiting["idle"] => pc[x] = "rest_idle"
    /\ \A x \in Rest : x \in waiting["dispatcher"] => pc[x] = "rest_answer"

(* What the two halves of proxy_channel_stop leave behind: the channel      *)
(* thread is out of the exchange after the first, and awake after the second.*)
StopInv ==
    /\ stop => /\ pc["channel"] \in {"start", "loop", "leave", "exit", "wakeup"}
               /\ "channel" \notin waiting["wakeup"]
    /\ \A t \in {"killer", "activator"} :
          /\ pc[t] \in {"join", "killed"} => stop
          /\ pc[t] \in {"stop_ctx", "join", "killed"} => state = "TERMINATION"
    /\ pc["killer"] \in {"stop_shm", "stop_ctx"} => lock["table"] = "killer"
    /\ state = "TERMINATION" => "channel" \notin waiting["idle"] \union waiting["dispatcher"]
    /\ registered \/ stop
          \/ pc["activator"] \in {"handshake", "timeout", "stop_shm", "stop_ctx"}

(* Who holds which lock, and where the killer is.  A REST worker that holds *)
(* the shared lock has left it locked.                                      *)
HolderInv ==
    /\ lock["ctx"] = IF pc["channel"] \in HasContext THEN "channel" ELSE NoThread
    /\ lock["shm"] \in {NoThread, "channel"} \union Rest
    /\ lock["shm"] = "channel" => pc["channel"] = "leave"
    /\ lock["shm"] \in Rest => pc["activator"] \in {"signal", "done"}
    /\ owner_dead \/ lock["shm"] # NoThread => pc["proxy"] = "dead" \/ state = "TERMINATION"
    /\ lock["table"] \in {NoThread, "killer"} \union {t \in Client \union Rest : pc[t] \in Using}
    /\ pc["killer"] \in {"idle", "kill_table", "stop_shm", "stop_ctx", "join", "killed"}
    /\ lock["table"] = "killer" <=> pc["killer"] \in {"stop_shm", "stop_ctx"}
    /\ pc["killer"] = "stop_ctx" => lock["shm"] \notin Rest

(* Whose turn it is in the exchange, that this side is awake, and who it is *)
(* that sent what the state says.                                           *)
TurnInv ==
    /\ pc["proxy"] \in {"run", "await_request", "await_done", "dead"}
    /\ state = "INIT" => pc["proxy"] \in {"run", "dead"}
    /\ state \in {"ACKNOWLEDGED", "FAILS", "REST_RESPOND", "DONE"} =>
          pc["proxy"] \in {"run", "await_done", "dead"}
    /\ pc["proxy"] = "run" \/ state = "DONE" => "proxy" \notin waiting["proxy"]
    /\ state \in {"REQUEST", "REST"} /\ pc["proxy"] = "await_request" =>
          "proxy" \notin waiting["proxy"]
    /\ state = "REQUEST" => "channel" \in waiting["dispatcher"]
    /\ state \in {"ACKNOWLEDGED", "FAILS"} => pc["channel"] = "answer" \/ pc["proxy"] = "dead"
    /\ state = "REST" => \E x \in Rest : x \in waiting["dispatcher"]
    /\ state = "REST_RESPOND" => (\E x \in Rest : pc[x] = "rest_answer") \/ pc["proxy"] = "dead"
    /\ state \in {"TERMINATION", "STOP_REQUEST"} =>
          \A t \in Rest \union {"channel"} : t \notin waiting["idle"] \union waiting["dispatcher"]
    /\ terminate \/ pc["channel"] \in {"stop_shm", "stop_idle"} \/ state = "STOP_REQUEST" =>
          pc["activator"] \notin {"handshake", "signal", "done"}
    /\ state = "STOP_REQUEST" => pc["channel"] \in {"leave", "exit"}

(* Somebody is on the way to signal the channel thread after r was listed.  *)
SignalComing(r) ==
    \/ \E c \in Client : pc[c] \in {"route_ctx", "drop_ctx"}
    \/ \E c \in Client : r = RequestOf(c) /\ pc[c] = "route_table"
    \/ pc["activator"] \in {"handshake", "signal", "timeout", "stop_shm", "stop_ctx"}
    \/ pc["killer"] \in {"kill_table", "stop_shm", "stop_ctx"}

Asleep == "channel" \in waiting["wakeup"]

(* A request that is not sent is in the channel thread's hands, or passed   *)
(* over in this round, or somebody is on the way to signal.                 *)
CopyInv ==
    /\ pc["channel"] \in {"start", "loop", "next", "wakeup"} => rid = NoRid
    /\ pc["channel"] \in {"next", "send_shm", "send_idle", "answer"} =>
          \A r \in (listed \ sent) \ passed : r \in todo \union {rid} \/ SignalComing(r)
    /\ Asleep => \A r \in (listed \ sent) \ passed : SignalComing(r)

(* A signal wakes whoever is the only one to wait.                          *)
LEMMA SignalledWakes ==
    ASSUME NEW w \in [Condition -> SUBSET Thread], NEW v \in Condition,
           NEW u \in Signalled(w, v)
    PROVE  /\ \A k \in Condition : u[k] \subseteq w[k]
           /\ \A k \in Condition : k # v => u[k] = w[k]
           /\ \A z : w[v] \subseteq {z} => u[v] = {}
<1>1. CASE w[v] = {}
    BY <1>1 DEF Signalled
<1>2. CASE w[v] # {}
    <2>1. PICK z \in w[v] : u = [w EXCEPT ![v] = @ \ {z}]
        BY <1>2 DEF Signalled
    <2> QED
        BY <2>1
<1> QED
    BY <1>1, <1>2

(* What a step does to those who wait when it signals v, when it then waits *)
(* for u as well, and when it is the first half of proxy_channel_stop.      *)
Wakes(v) ==
    /\ \A k \in Condition : waiting'[k] \subseteq waiting[k]
    /\ \A k \in Condition : k # v => waiting'[k] = waiting[k]
    /\ \A z : waiting[v] \subseteq {z} => waiting'[v] = {}

WakesAndWaits(v, t, u) ==
    /\ \A k \in Condition : k # u => waiting'[k] \subseteq waiting[k]
    /\ \A k \in Condition \ {u, v} : waiting'[k] = waiting[k]
    /\ waiting'[u] \subseteq waiting[u] \union {t}
    /\ t \in waiting'[u]
    /\ \A z : u # v /\ waiting[v] \subseteq {z} => waiting'[v] = {}

WakesExchange ==
    /\ \A k \in Condition : waiting'[k] \subseteq waiting[k]
    /\ \A k \in {"wakeup", "proxy"} : waiting'[k] = waiting[k]
    /\ \A k \in {"idle", "dispatcher"} : \A z : waiting[k] \subseteq {z} => waiting'[k] = {}

LEMMA SignalFacts ==
    ASSUME waiting \in [Condition -> SUBSET Thread], NEW v \in Condition, Signal(v)
    PROVE  Wakes(v)
<1>1. waiting' \in Signalled(waiting, v)
    BY DEF Signal
<1> QED
    BY <1>1, SignalledWakes DEF Wakes

LEMMA SignalAndWaitFacts ==
    ASSUME waiting \in [Condition -> SUBSET Thread], NEW v \in Condition, NEW u \in Condition,
           NEW t \in Thread, SignalAndWait(v, t, u)
    PROVE  WakesAndWaits(v, t, u)
<1>1. PICK w \in Signalled(waiting, v) : waiting' = [w EXCEPT ![u] = @ \union {t}]
    BY DEF SignalAndWait
<1>2. w \in [Condition -> SUBSET Thread]
    BY SignalledType
<1>3. /\ \A k \in Condition : w[k] \subseteq waiting[k]
      /\ \A k \in Condition : k # v => w[k] = waiting[k]
      /\ \A z : waiting[v] \subseteq {z} => w[v] = {}
    BY SignalledWakes
<1> QED
    BY <1>1, <1>2, <1>3 DEF WakesAndWaits

LEMMA StopShmFacts ==
    ASSUME waiting \in [Condition -> SUBSET Thread], NEW t, StopShm(t)
    PROVE  WakesExchange
<1>1. PICK w \in Signalled(waiting, "idle") : waiting' \in Signalled(w, "dispatcher")
    BY DEF StopShm
<1>2. "idle" \in Condition /\ "dispatcher" \in Condition
    BY DEF Condition
<1>3. w \in [Condition -> SUBSET Thread]
    BY <1>1, <1>2, SignalledType
<1>4. /\ \A k \in Condition : w[k] \subseteq waiting[k]
      /\ \A k \in Condition : k # "idle" => w[k] = waiting[k]
      /\ \A z : waiting["idle"] \subseteq {z} => w["idle"] = {}
    BY <1>1, <1>2, SignalledWakes
<1>5. /\ \A k \in Condition : waiting'[k] \subseteq w[k]
      /\ \A k \in Condition : k # "dispatcher" => waiting'[k] = w[k]
      /\ \A z : w["dispatcher"] \subseteq {z} => waiting'["dispatcher"] = {}
    BY <1>1, <1>2, <1>3, SignalledWakes
<1> QED
    BY <1>2, <1>4, <1>5 DEF Condition, WakesExchange

(* Every step keeps who waits on what. *)
LEMMA SleepInvStep == TypeInv /\ SleepInv /\ [Next]_vars => SleepInv'
<1> SUFFICES ASSUME TypeInv, SleepInv, [Next]_vars PROVE SleepInv'
    OBVIOUS
<1> USE NamesDiffer, ThreadsDiffer
        DEF TypeInv, Condition, SleepInv, HasContext,
            Goto, Free, Awake, vars, locks, shm, context, requests, locals, ghosts
<1>1. ASSUME ChannelLock PROVE SleepInv'
    BY <1>1 DEF ChannelLock
<1>2. ASSUME ChannelLoop PROVE SleepInv'
    BY <1>2 DEF ChannelLoop
<1>3. ASSUME NEW r \in Rid, ChannelNext(r) PROVE SleepInv'
    BY <1>3 DEF ChannelNext
<1>4. ASSUME ChannelSleep PROVE SleepInv'
    BY <1>4 DEF ChannelSleep, Wait
<1>5. ASSUME ChannelIdleSleep PROVE SleepInv'
    BY <1>5 DEF ChannelIdleSleep, IdleSleep, Wait
<1>6. ASSUME ChannelSend PROVE SleepInv'
    <2>1. SignalAndWait("proxy", "channel", "dispatcher")
        BY <1>6 DEF ChannelSend, IdleReady
    <2>2. WakesAndWaits("proxy", "channel", "dispatcher")
        BY <2>1, SignalAndWaitFacts
    <2> QED
        BY <1>6, <2>2 DEF WakesAndWaits, ChannelSend, IdleReady
<1>7. ASSUME ChannelCreateFails PROVE SleepInv'
    BY <1>7 DEF ChannelCreateFails, IdleReady
<1>8. ASSUME ChannelAnswer PROVE SleepInv'
    <2>1. /\ \A k \in Condition : waiting'[k] \subseteq waiting[k]
          /\ \A k \in Condition : k # "proxy" => waiting'[k] = waiting[k]
        <3>1. CASE Signal("proxy")
            BY <3>1, SignalFacts DEF Wakes
        <3>2. CASE UNCHANGED waiting
            BY <3>2
        <3> QED
            BY <1>8, <3>1, <3>2 DEF ChannelAnswer, request_sent
    <2> QED
        BY <1>8, <2>1 DEF ChannelAnswer, request_sent
<1>9. ASSUME ChannelStopRequest PROVE SleepInv'
    <2>1. Signal("proxy")
        BY <1>9 DEF ChannelStopRequest, IdleReady
    <2>2. Wakes("proxy")
        BY <2>1, SignalFacts
    <2> QED
        BY <1>9, <2>2 DEF Wakes, ChannelStopRequest, IdleReady
<1>10. ASSUME ChannelIdleFails PROVE SleepInv'
    BY <1>10 DEF ChannelIdleFails, IdleFailed
<1>11. ASSUME ChannelLeave PROVE SleepInv'
    BY <1>11 DEF ChannelLeave
<1>12. ASSUME NEW c \in Client, Submit(c) PROVE SleepInv'
    BY <1>12 DEF Submit
<1>13. ASSUME NEW c \in Client, Withdraw(c) PROVE SleepInv'
    BY <1>13 DEF Withdraw
<1>14. ASSUME NEW c \in Client, ClientLookup(c) PROVE SleepInv'
    BY <1>14 DEF ClientLookup
<1>15. ASSUME NEW c \in Client, ClientSignal(c) PROVE SleepInv'
    <2>1. Signal("wakeup")
        BY <1>15 DEF ClientSignal
    <2>2. Wakes("wakeup")
        BY <2>1, SignalFacts
    <2> QED
        BY <1>15, <2>2 DEF Wakes, ClientSignal
<1>16. ASSUME NEW x \in Rest, RestLookup(x) PROVE SleepInv'
    BY <1>16 DEF RestLookup
<1>17. ASSUME NEW x \in Rest, RestIdleSleep(x) PROVE SleepInv'
    BY <1>17 DEF RestIdleSleep, IdleSleep, Wait
<1>18. ASSUME NEW x \in Rest, RestSend(x) PROVE SleepInv'
    <2>1. SignalAndWait("proxy", x, "dispatcher")
        BY <1>18 DEF RestSend, IdleReady
    <2>2. WakesAndWaits("proxy", x, "dispatcher")
        BY <2>1, SignalAndWaitFacts
    <2> QED
        BY <1>18, <2>2 DEF WakesAndWaits, RestSend, IdleReady
<1>19. ASSUME NEW x \in Rest, RestCreateFails(x) PROVE SleepInv'
    BY <1>19 DEF RestCreateFails, IdleReady
<1>20. ASSUME NEW x \in Rest, RestAnswer(x) PROVE SleepInv'
    <2>1. /\ \A k \in Condition : waiting'[k] \subseteq waiting[k]
          /\ \A k \in Condition : k # "proxy" => waiting'[k] = waiting[k]
        <3>1. CASE Signal("proxy")
            BY <3>1, SignalFacts DEF Wakes
        <3>2. CASE UNCHANGED waiting
            BY <3>2
        <3> QED
            BY <1>20, <3>1, <3>2 DEF RestAnswer
    <2> QED
        BY <1>20, <2>1 DEF RestAnswer
<1>21. ASSUME NEW x \in Rest, RestIdleFails(x) PROVE SleepInv'
    BY <1>21 DEF RestIdleFails, IdleFailed
<1>22. ASSUME KillStart PROVE SleepInv'
    BY <1>22 DEF KillStart
<1>23. ASSUME KillLookup PROVE SleepInv'
    BY <1>23 DEF KillLookup
<1>24. ASSUME NEW t \in {"killer", "activator"}, StopShm(t) PROVE SleepInv'
    <2>1. WakesExchange
        BY <1>24, StopShmFacts
    <2> QED
        BY <1>24, <2>1 DEF WakesExchange, StopShm
<1>25. ASSUME NEW t \in {"killer", "activator"}, StopCtx(t) PROVE SleepInv'
    <2>1. Signal("wakeup")
        BY <1>25 DEF StopCtx
    <2>2. Wakes("wakeup")
        BY <2>1, SignalFacts
    <2> QED
        BY <1>25, <2>2 DEF Wakes, StopCtx
<1>26. ASSUME NEW t \in {"killer", "activator"}, Join(t) PROVE SleepInv'
    BY <1>26 DEF Join
<1>27. ASSUME Register PROVE SleepInv'
    BY <1>27 DEF Register
<1>28. ASSUME ActivationTimeout PROVE SleepInv'
    BY <1>28 DEF ActivationTimeout
<1>29. ASSUME ActivationFails PROVE SleepInv'
    BY <1>29 DEF ActivationFails
<1>30. ASSUME ActivatorSignal PROVE SleepInv'
    <2>1. Signal("wakeup")
        BY <1>30 DEF ActivatorSignal
    <2>2. Wakes("wakeup")
        BY <2>1, SignalFacts
    <2> QED
        BY <1>30, <2>2 DEF Wakes, ActivatorSignal
<1>31. ASSUME ProxyIdle PROVE SleepInv'
    <2>1. SignalAndWait("idle", "proxy", "proxy")
        BY <1>31 DEF ProxyIdle, Stopped
    <2>2. WakesAndWaits("idle", "proxy", "proxy")
        BY <2>1, SignalAndWaitFacts
    <2> QED
        BY <1>31, <2>2 DEF WakesAndWaits, ProxyIdle, Stopped
<1>32. ASSUME ProxyServe PROVE SleepInv'
    <2>1. SignalAndWait("dispatcher", "proxy", "proxy")
        BY <1>32 DEF ProxyServe
    <2>2. WakesAndWaits("dispatcher", "proxy", "proxy")
        BY <2>1, SignalAndWaitFacts
    <2> QED
        BY <1>32, <2>2 DEF WakesAndWaits, ProxyServe
<1>33. ASSUME ProxyDone PROVE SleepInv'
    BY <1>33 DEF ProxyDone
<1>34. ASSUME ProxyWaitOn PROVE SleepInv'
    BY <1>34 DEF ProxyWaitOn, Wait, Stopped
<1>35. ASSUME ProxyStops PROVE SleepInv'
    BY <1>35 DEF ProxyStops, Stopped
<1>36. ASSUME ProxyDies PROVE SleepInv'
    BY <1>36 DEF ProxyDies
<1>37. ASSUME NEW x \in Rest, RestRead(x) PROVE SleepInv'
    BY <1>37 DEF RestRead
<1>38. ASSUME UNCHANGED vars PROVE SleepInv'
    BY <1>38
<1> QED
    <2> HIDE DEF TypeInv, Condition, SleepInv, HasContext
    <2> QED
        BY <1>1, <1>2, <1>3, <1>4, <1>5, <1>6, <1>7, <1>8, <1>9, <1>10, <1>11, <1>12, <1>13,
           <1>14, <1>15, <1>16, <1>17, <1>18, <1>19, <1>20, <1>21, <1>22, <1>23, <1>24,
           <1>25, <1>26, <1>27, <1>28, <1>29, <1>30, <1>31, <1>32, <1>33, <1>34, <1>35,
           <1>36, <1>37, <1>38
           DEF Next, ChannelStep, ClientStep, RestStep, KillerStep, ActivatorStep, ProxyStep

(* Every step keeps what a stop leaves behind. *)
LEMMA StopInvStep == TypeInv /\ TableInv /\ SleepInv /\ StopInv /\ [Next]_vars => StopInv'
<1> SUFFICES ASSUME TypeInv, TableInv, SleepInv, StopInv, [Next]_vars PROVE StopInv'
    OBVIOUS
<1> USE NamesDiffer, ThreadsDiffer
        DEF TypeInv, Condition, TableInv, Using, SleepInv, HasContext, StopInv,
            Goto, Free, Awake, vars, locks, shm, context, requests, locals, ghosts
<1>1. ASSUME ChannelLock PROVE StopInv'
    BY <1>1 DEF ChannelLock
<1>2. ASSUME ChannelLoop PROVE StopInv'
    BY <1>2 DEF ChannelLoop
<1>3. ASSUME NEW r \in Rid, ChannelNext(r) PROVE StopInv'
    BY <1>3 DEF ChannelNext
<1>4. ASSUME ChannelSleep PROVE StopInv'
    BY <1>4 DEF ChannelSleep, Wait
<1>5. ASSUME ChannelIdleSleep PROVE StopInv'
    BY <1>5 DEF ChannelIdleSleep, IdleSleep, Wait
<1>6. ASSUME ChannelSend PROVE StopInv'
    <2>1. SignalAndWait("proxy", "channel", "dispatcher")
        BY <1>6 DEF ChannelSend, IdleReady
    <2>2. WakesAndWaits("proxy", "channel", "dispatcher")
        BY <2>1, SignalAndWaitFacts
    <2> QED
        BY <1>6, <2>2 DEF WakesAndWaits, ChannelSend, IdleReady
<1>7. ASSUME ChannelCreateFails PROVE StopInv'
    BY <1>7 DEF ChannelCreateFails, IdleReady
<1>8. ASSUME ChannelAnswer PROVE StopInv'
    <2>1. /\ \A k \in Condition : waiting'[k] \subseteq waiting[k]
          /\ \A k \in Condition : k # "proxy" => waiting'[k] = waiting[k]
        <3>1. CASE Signal("proxy")
            BY <3>1, SignalFacts DEF Wakes
        <3>2. CASE UNCHANGED waiting
            BY <3>2
        <3> QED
            BY <1>8, <3>1, <3>2 DEF ChannelAnswer, request_sent
    <2> QED
        BY <1>8, <2>1 DEF ChannelAnswer, request_sent
<1>9. ASSUME ChannelStopRequest PROVE StopInv'
    <2>1. Signal("proxy")
        BY <1>9 DEF ChannelStopRequest, IdleReady
    <2>2. Wakes("proxy")
        BY <2>1, SignalFacts
    <2> QED
        BY <1>9, <2>2 DEF Wakes, ChannelStopRequest, IdleReady
<1>10. ASSUME ChannelIdleFails PROVE StopInv'
    BY <1>10 DEF ChannelIdleFails, IdleFailed
<1>11. ASSUME ChannelLeave PROVE StopInv'
    BY <1>11 DEF ChannelLeave
<1>12. ASSUME NEW c \in Client, Submit(c) PROVE StopInv'
    BY <1>12 DEF Submit
<1>13. ASSUME NEW c \in Client, Withdraw(c) PROVE StopInv'
    BY <1>13 DEF Withdraw
<1>14. ASSUME NEW c \in Client, ClientLookup(c) PROVE StopInv'
    BY <1>14 DEF ClientLookup
<1>15. ASSUME NEW c \in Client, ClientSignal(c) PROVE StopInv'
    <2>1. Signal("wakeup")
        BY <1>15 DEF ClientSignal
    <2>2. Wakes("wakeup")
        BY <2>1, SignalFacts
    <2> QED
        BY <1>15, <2>2 DEF Wakes, ClientSignal
<1>16. ASSUME NEW x \in Rest, RestLookup(x) PROVE StopInv'
    BY <1>16 DEF RestLookup
<1>17. ASSUME NEW x \in Rest, RestIdleSleep(x) PROVE StopInv'
    BY <1>17 DEF RestIdleSleep, IdleSleep, Wait
<1>18. ASSUME NEW x \in Rest, RestSend(x) PROVE StopInv'
    <2>1. SignalAndWait("proxy", x, "dispatcher")
        BY <1>18 DEF RestSend, IdleReady
    <2>2. WakesAndWaits("proxy", x, "dispatcher")
        BY <2>1, SignalAndWaitFacts
    <2> QED
        BY <1>18, <2>2 DEF WakesAndWaits, RestSend, IdleReady
<1>19. ASSUME NEW x \in Rest, RestCreateFails(x) PROVE StopInv'
    BY <1>19 DEF RestCreateFails, IdleReady
<1>20. ASSUME NEW x \in Rest, RestAnswer(x) PROVE StopInv'
    <2>1. /\ \A k \in Condition : waiting'[k] \subseteq waiting[k]
          /\ \A k \in Condition : k # "proxy" => waiting'[k] = waiting[k]
        <3>1. CASE Signal("proxy")
            BY <3>1, SignalFacts DEF Wakes
        <3>2. CASE UNCHANGED waiting
            BY <3>2
        <3> QED
            BY <1>20, <3>1, <3>2 DEF RestAnswer
    <2> QED
        BY <1>20, <2>1 DEF RestAnswer
<1>21. ASSUME NEW x \in Rest, RestIdleFails(x) PROVE StopInv'
    BY <1>21 DEF RestIdleFails, IdleFailed
<1>22. ASSUME KillStart PROVE StopInv'
    BY <1>22 DEF KillStart
<1>23. ASSUME KillLookup PROVE StopInv'
    BY <1>23 DEF KillLookup
<1>24. ASSUME NEW t \in {"killer", "activator"}, StopShm(t) PROVE StopInv'
    <2>1. WakesExchange
        BY <1>24, StopShmFacts
    <2> QED
        BY <1>24, <2>1 DEF WakesExchange, StopShm
<1>25. ASSUME NEW t \in {"killer", "activator"}, StopCtx(t) PROVE StopInv'
    <2>1. Signal("wakeup")
        BY <1>25 DEF StopCtx
    <2>2. Wakes("wakeup")
        BY <2>1, SignalFacts
    <2> QED
        BY <1>25, <2>2 DEF Wakes, StopCtx
<1>26. ASSUME NEW t \in {"killer", "activator"}, Join(t) PROVE StopInv'
    BY <1>26 DEF Join
<1>27. ASSUME Register PROVE StopInv'
    BY <1>27 DEF Register
<1>28. ASSUME ActivationTimeout PROVE StopInv'
    BY <1>28 DEF ActivationTimeout
<1>29. ASSUME ActivationFails PROVE StopInv'
    BY <1>29 DEF ActivationFails
<1>30. ASSUME ActivatorSignal PROVE StopInv'
    <2>1. Signal("wakeup")
        BY <1>30 DEF ActivatorSignal
    <2>2. Wakes("wakeup")
        BY <2>1, SignalFacts
    <2> QED
        BY <1>30, <2>2 DEF Wakes, ActivatorSignal
<1>31. ASSUME ProxyIdle PROVE StopInv'
    <2>1. SignalAndWait("idle", "proxy", "proxy")
        BY <1>31 DEF ProxyIdle, Stopped
    <2>2. WakesAndWaits("idle", "proxy", "proxy")
        BY <2>1, SignalAndWaitFacts
    <2> QED
        BY <1>31, <2>2 DEF WakesAndWaits, ProxyIdle, Stopped
<1>32. ASSUME ProxyServe PROVE StopInv'
    <2>1. SignalAndWait("dispatcher", "proxy", "proxy")
        BY <1>32 DEF ProxyServe
    <2>2. WakesAndWaits("dispatcher", "proxy", "proxy")
        BY <2>1, SignalAndWaitFacts
    <2> QED
        BY <1>32, <2>2 DEF WakesAndWaits, ProxyServe
<1>33. ASSUME ProxyDone PROVE StopInv'
    BY <1>33 DEF ProxyDone
<1>34. ASSUME ProxyWaitOn PROVE StopInv'
    BY <1>34 DEF ProxyWaitOn, Wait, Stopped
<1>35. ASSUME ProxyStops PROVE StopInv'
    BY <1>35 DEF ProxyStops, Stopped
<1>36. ASSUME ProxyDies PROVE StopInv'
    BY <1>36 DEF ProxyDies
<1>37. ASSUME NEW x \in Rest, RestRead(x) PROVE StopInv'
    BY <1>37 DEF RestRead
<1>38. ASSUME UNCHANGED vars PROVE StopInv'
    BY <1>38
<1> QED
    <2> HIDE DEF TypeInv, Condition, TableInv, Using, SleepInv, HasContext, StopInv
    <2> QED
        BY <1>1, <1>2, <1>3, <1>4, <1>5, <1>6, <1>7, <1>8, <1>9, <1>10, <1>11, <1>12, <1>13,
           <1>14, <1>15, <1>16, <1>17, <1>18, <1>19, <1>20, <1>21, <1>22, <1>23, <1>24,
           <1>25, <1>26, <1>27, <1>28, <1>29, <1>30, <1>31, <1>32, <1>33, <1>34, <1>35,
           <1>36, <1>37, <1>38
           DEF Next, ChannelStep, ClientStep, RestStep, KillerStep, ActivatorStep, ProxyStep

(* Every step keeps the copy. *)
LEMMA CopyInvStep ==
    TypeInv /\ SleepInv /\ StopInv /\ CopyInv /\ [Next]_vars => CopyInv'
<1> SUFFICES ASSUME TypeInv, SleepInv, StopInv, CopyInv, [Next]_vars PROVE CopyInv'
    OBVIOUS
<1> USE NamesDiffer, ThreadsDiffer
        DEF TypeInv, Condition, SleepInv, HasContext, StopInv, CopyInv, SignalComing, Asleep,
            Goto, Free, Awake, vars, locks, shm, context, requests, locals, ghosts
<1>1. ASSUME ChannelLock PROVE CopyInv'
    BY <1>1 DEF ChannelLock
<1>2. ASSUME ChannelLoop PROVE CopyInv'
    BY <1>2 DEF ChannelLoop
<1>3. ASSUME NEW r \in Rid, ChannelNext(r) PROVE CopyInv'
    BY <1>3 DEF ChannelNext
<1>4. ASSUME ChannelSleep PROVE CopyInv'
    BY <1>4 DEF ChannelSleep, Wait
<1>5. ASSUME ChannelIdleSleep PROVE CopyInv'
    BY <1>5 DEF ChannelIdleSleep, IdleSleep, Wait
<1>6. ASSUME ChannelSend PROVE CopyInv'
    <2>1. SignalAndWait("proxy", "channel", "dispatcher")
        BY <1>6 DEF ChannelSend, IdleReady
    <2>2. WakesAndWaits("proxy", "channel", "dispatcher")
        BY <2>1, SignalAndWaitFacts
    <2> QED
        BY <1>6, <2>2 DEF WakesAndWaits, ChannelSend, IdleReady
<1>7. ASSUME ChannelCreateFails PROVE CopyInv'
    BY <1>7 DEF ChannelCreateFails, IdleReady
<1>8. ASSUME ChannelAnswer PROVE CopyInv'
    <2>1. /\ \A k \in Condition : waiting'[k] \subseteq waiting[k]
          /\ \A k \in Condition : k # "proxy" => waiting'[k] = waiting[k]
        <3>1. CASE Signal("proxy")
            BY <3>1, SignalFacts DEF Wakes
        <3>2. CASE UNCHANGED waiting
            BY <3>2
        <3> QED
            BY <1>8, <3>1, <3>2 DEF ChannelAnswer, request_sent
    <2> QED
        BY <1>8, <2>1 DEF ChannelAnswer, request_sent
<1>9. ASSUME ChannelStopRequest PROVE CopyInv'
    <2>1. Signal("proxy")
        BY <1>9 DEF ChannelStopRequest, IdleReady
    <2>2. Wakes("proxy")
        BY <2>1, SignalFacts
    <2> QED
        BY <1>9, <2>2 DEF Wakes, ChannelStopRequest, IdleReady
<1>10. ASSUME ChannelIdleFails PROVE CopyInv'
    BY <1>10 DEF ChannelIdleFails, IdleFailed
<1>11. ASSUME ChannelLeave PROVE CopyInv'
    BY <1>11 DEF ChannelLeave
<1>12. ASSUME NEW c \in Client, Submit(c) PROVE CopyInv'
    BY <1>12 DEF Submit
<1>13. ASSUME NEW c \in Client, Withdraw(c) PROVE CopyInv'
    BY <1>13 DEF Withdraw
<1>14. ASSUME NEW c \in Client, ClientLookup(c) PROVE CopyInv'
    BY <1>14 DEF ClientLookup
<1>15. ASSUME NEW c \in Client, ClientSignal(c) PROVE CopyInv'
    <2>1. Signal("wakeup")
        BY <1>15 DEF ClientSignal
    <2>2. Wakes("wakeup")
        BY <2>1, SignalFacts
    <2> QED
        BY <1>15, <2>2 DEF Wakes, ClientSignal
<1>16. ASSUME NEW x \in Rest, RestLookup(x) PROVE CopyInv'
    BY <1>16 DEF RestLookup
<1>17. ASSUME NEW x \in Rest, RestIdleSleep(x) PROVE CopyInv'
    BY <1>17 DEF RestIdleSleep, IdleSleep, Wait
<1>18. ASSUME NEW x \in Rest, RestSend(x) PROVE CopyInv'
    <2>1. SignalAndWait("proxy", x, "dispatcher")
        BY <1>18 DEF RestSend, IdleReady
    <2>2. WakesAndWaits("proxy", x, "dispatcher")
        BY <2>1, SignalAndWaitFacts
    <2> QED
        BY <1>18, <2>2 DEF WakesAndWaits, RestSend, IdleReady
<1>19. ASSUME NEW x \in Rest, RestCreateFails(x) PROVE CopyInv'
    BY <1>19 DEF RestCreateFails, IdleReady
<1>20. ASSUME NEW x \in Rest, RestAnswer(x) PROVE CopyInv'
    <2>1. /\ \A k \in Condition : waiting'[k] \subseteq waiting[k]
          /\ \A k \in Condition : k # "proxy" => waiting'[k] = waiting[k]
        <3>1. CASE Signal("proxy")
            BY <3>1, SignalFacts DEF Wakes
        <3>2. CASE UNCHANGED waiting
            BY <3>2
        <3> QED
            BY <1>20, <3>1, <3>2 DEF RestAnswer
    <2> QED
        BY <1>20, <2>1 DEF RestAnswer
<1>21. ASSUME NEW x \in Rest, RestIdleFails(x) PROVE CopyInv'
    BY <1>21 DEF RestIdleFails, IdleFailed
<1>22. ASSUME KillStart PROVE CopyInv'
    BY <1>22 DEF KillStart
<1>23. ASSUME KillLookup PROVE CopyInv'
    BY <1>23 DEF KillLookup
<1>24. ASSUME NEW t \in {"killer", "activator"}, StopShm(t) PROVE CopyInv'
    <2>1. WakesExchange
        BY <1>24, StopShmFacts
    <2> QED
        BY <1>24, <2>1 DEF WakesExchange, StopShm
<1>25. ASSUME NEW t \in {"killer", "activator"}, StopCtx(t) PROVE CopyInv'
    <2>1. Signal("wakeup")
        BY <1>25 DEF StopCtx
    <2>2. Wakes("wakeup")
        BY <2>1, SignalFacts
    <2> QED
        BY <1>25, <2>2 DEF Wakes, StopCtx
<1>26. ASSUME NEW t \in {"killer", "activator"}, Join(t) PROVE CopyInv'
    BY <1>26 DEF Join
<1>27. ASSUME Register PROVE CopyInv'
    BY <1>27 DEF Register
<1>28. ASSUME ActivationTimeout PROVE CopyInv'
    BY <1>28 DEF ActivationTimeout
<1>29. ASSUME ActivationFails PROVE CopyInv'
    BY <1>29 DEF ActivationFails
<1>30. ASSUME ActivatorSignal PROVE CopyInv'
    <2>1. Signal("wakeup")
        BY <1>30 DEF ActivatorSignal
    <2>2. Wakes("wakeup")
        BY <2>1, SignalFacts
    <2> QED
        BY <1>30, <2>2 DEF Wakes, ActivatorSignal
<1>31. ASSUME ProxyIdle PROVE CopyInv'
    <2>1. SignalAndWait("idle", "proxy", "proxy")
        BY <1>31 DEF ProxyIdle, Stopped
    <2>2. WakesAndWaits("idle", "proxy", "proxy")
        BY <2>1, SignalAndWaitFacts
    <2> QED
        BY <1>31, <2>2 DEF WakesAndWaits, ProxyIdle, Stopped
<1>32. ASSUME ProxyServe PROVE CopyInv'
    <2>1. SignalAndWait("dispatcher", "proxy", "proxy")
        BY <1>32 DEF ProxyServe
    <2>2. WakesAndWaits("dispatcher", "proxy", "proxy")
        BY <2>1, SignalAndWaitFacts
    <2> QED
        BY <1>32, <2>2 DEF WakesAndWaits, ProxyServe
<1>33. ASSUME ProxyDone PROVE CopyInv'
    BY <1>33 DEF ProxyDone
<1>34. ASSUME ProxyWaitOn PROVE CopyInv'
    BY <1>34 DEF ProxyWaitOn, Wait, Stopped
<1>35. ASSUME ProxyStops PROVE CopyInv'
    BY <1>35 DEF ProxyStops, Stopped
<1>36. ASSUME ProxyDies PROVE CopyInv'
    BY <1>36 DEF ProxyDies
<1>37. ASSUME NEW x \in Rest, RestRead(x) PROVE CopyInv'
    BY <1>37 DEF RestRead
<1>38. ASSUME UNCHANGED vars PROVE CopyInv'
    BY <1>38
<1> QED
    <2> HIDE DEF TypeInv, Condition, SleepInv, HasContext, StopInv, CopyInv, SignalComing, Asleep
    <2> QED
        BY <1>1, <1>2, <1>3, <1>4, <1>5, <1>6, <1>7, <1>8, <1>9, <1>10, <1>11, <1>12, <1>13,
           <1>14, <1>15, <1>16, <1>17, <1>18, <1>19, <1>20, <1>21, <1>22, <1>23, <1>24,
           <1>25, <1>26, <1>27, <1>28, <1>29, <1>30, <1>31, <1>32, <1>33, <1>34, <1>35,
           <1>36, <1>37, <1>38
           DEF Next, ChannelStep, ClientStep, RestStep, KillerStep, ActivatorStep, ProxyStep

(* Every step keeps the holders of the locks. *)
LEMMA HolderInvStep ==
    TypeInv /\ TableInv /\ SleepInv /\ StopInv /\ HolderInv /\ [Next]_vars => HolderInv'
<1> SUFFICES ASSUME TypeInv, TableInv, SleepInv, StopInv, HolderInv, [Next]_vars PROVE HolderInv'
    OBVIOUS
<1> USE NamesDiffer, ThreadsDiffer
        DEF TypeInv, Condition, TableInv, Using, SleepInv, HasContext, StopInv, HolderInv,
            Goto, Free, Awake, vars, locks, shm, context, requests, locals, ghosts
<1>1. ASSUME ChannelLock PROVE HolderInv'
    BY <1>1 DEF ChannelLock
<1>2. ASSUME ChannelLoop PROVE HolderInv'
    BY <1>2 DEF ChannelLoop
<1>3. ASSUME NEW r \in Rid, ChannelNext(r) PROVE HolderInv'
    BY <1>3 DEF ChannelNext
<1>4. ASSUME ChannelSleep PROVE HolderInv'
    BY <1>4 DEF ChannelSleep, Wait
<1>5. ASSUME ChannelIdleSleep PROVE HolderInv'
    BY <1>5 DEF ChannelIdleSleep, IdleSleep, Wait
<1>6. ASSUME ChannelSend PROVE HolderInv'
    <2>1. SignalAndWait("proxy", "channel", "dispatcher")
        BY <1>6 DEF ChannelSend, IdleReady
    <2>2. WakesAndWaits("proxy", "channel", "dispatcher")
        BY <2>1, SignalAndWaitFacts
    <2> QED
        BY <1>6, <2>2 DEF WakesAndWaits, ChannelSend, IdleReady
<1>7. ASSUME ChannelCreateFails PROVE HolderInv'
    BY <1>7 DEF ChannelCreateFails, IdleReady
<1>8. ASSUME ChannelAnswer PROVE HolderInv'
    <2>1. /\ \A k \in Condition : waiting'[k] \subseteq waiting[k]
          /\ \A k \in Condition : k # "proxy" => waiting'[k] = waiting[k]
        <3>1. CASE Signal("proxy")
            BY <3>1, SignalFacts DEF Wakes
        <3>2. CASE UNCHANGED waiting
            BY <3>2
        <3> QED
            BY <1>8, <3>1, <3>2 DEF ChannelAnswer, request_sent
    <2> QED
        BY <1>8, <2>1 DEF ChannelAnswer, request_sent
<1>9. ASSUME ChannelStopRequest PROVE HolderInv'
    <2>1. Signal("proxy")
        BY <1>9 DEF ChannelStopRequest, IdleReady
    <2>2. Wakes("proxy")
        BY <2>1, SignalFacts
    <2> QED
        BY <1>9, <2>2 DEF Wakes, ChannelStopRequest, IdleReady
<1>10. ASSUME ChannelIdleFails PROVE HolderInv'
    BY <1>10 DEF ChannelIdleFails, IdleFailed
<1>11. ASSUME ChannelLeave PROVE HolderInv'
    BY <1>11 DEF ChannelLeave
<1>12. ASSUME NEW c \in Client, Submit(c) PROVE HolderInv'
    BY <1>12 DEF Submit
<1>13. ASSUME NEW c \in Client, Withdraw(c) PROVE HolderInv'
    BY <1>13 DEF Withdraw
<1>14. ASSUME NEW c \in Client, ClientLookup(c) PROVE HolderInv'
    BY <1>14 DEF ClientLookup
<1>15. ASSUME NEW c \in Client, ClientSignal(c) PROVE HolderInv'
    <2>1. Signal("wakeup")
        BY <1>15 DEF ClientSignal
    <2>2. Wakes("wakeup")
        BY <2>1, SignalFacts
    <2> QED
        BY <1>15, <2>2 DEF Wakes, ClientSignal
<1>16. ASSUME NEW x \in Rest, RestLookup(x) PROVE HolderInv'
    BY <1>16 DEF RestLookup
<1>17. ASSUME NEW x \in Rest, RestIdleSleep(x) PROVE HolderInv'
    BY <1>17 DEF RestIdleSleep, IdleSleep, Wait
<1>18. ASSUME NEW x \in Rest, RestSend(x) PROVE HolderInv'
    <2>1. SignalAndWait("proxy", x, "dispatcher")
        BY <1>18 DEF RestSend, IdleReady
    <2>2. WakesAndWaits("proxy", x, "dispatcher")
        BY <2>1, SignalAndWaitFacts
    <2> QED
        BY <1>18, <2>2 DEF WakesAndWaits, RestSend, IdleReady
<1>19. ASSUME NEW x \in Rest, RestCreateFails(x) PROVE HolderInv'
    BY <1>19 DEF RestCreateFails, IdleReady
<1>20. ASSUME NEW x \in Rest, RestAnswer(x) PROVE HolderInv'
    <2>1. /\ \A k \in Condition : waiting'[k] \subseteq waiting[k]
          /\ \A k \in Condition : k # "proxy" => waiting'[k] = waiting[k]
        <3>1. CASE Signal("proxy")
            BY <3>1, SignalFacts DEF Wakes
        <3>2. CASE UNCHANGED waiting
            BY <3>2
        <3> QED
            BY <1>20, <3>1, <3>2 DEF RestAnswer
    <2> QED
        BY <1>20, <2>1 DEF RestAnswer
<1>21. ASSUME NEW x \in Rest, RestIdleFails(x) PROVE HolderInv'
    BY <1>21 DEF RestIdleFails, IdleFailed
<1>22. ASSUME KillStart PROVE HolderInv'
    BY <1>22 DEF KillStart
<1>23. ASSUME KillLookup PROVE HolderInv'
    BY <1>23 DEF KillLookup
<1>24. ASSUME NEW t \in {"killer", "activator"}, StopShm(t) PROVE HolderInv'
    <2>1. WakesExchange
        BY <1>24, StopShmFacts
    <2> QED
        BY <1>24, <2>1 DEF WakesExchange, StopShm
<1>25. ASSUME NEW t \in {"killer", "activator"}, StopCtx(t) PROVE HolderInv'
    <2>1. Signal("wakeup")
        BY <1>25 DEF StopCtx
    <2>2. Wakes("wakeup")
        BY <2>1, SignalFacts
    <2> QED
        BY <1>25, <2>2 DEF Wakes, StopCtx
<1>26. ASSUME NEW t \in {"killer", "activator"}, Join(t) PROVE HolderInv'
    BY <1>26 DEF Join
<1>27. ASSUME Register PROVE HolderInv'
    BY <1>27 DEF Register
<1>28. ASSUME ActivationTimeout PROVE HolderInv'
    BY <1>28 DEF ActivationTimeout
<1>29. ASSUME ActivationFails PROVE HolderInv'
    BY <1>29 DEF ActivationFails
<1>30. ASSUME ActivatorSignal PROVE HolderInv'
    <2>1. Signal("wakeup")
        BY <1>30 DEF ActivatorSignal
    <2>2. Wakes("wakeup")
        BY <2>1, SignalFacts
    <2> QED
        BY <1>30, <2>2 DEF Wakes, ActivatorSignal
<1>31. ASSUME ProxyIdle PROVE HolderInv'
    <2>1. SignalAndWait("idle", "proxy", "proxy")
        BY <1>31 DEF ProxyIdle, Stopped
    <2>2. WakesAndWaits("idle", "proxy", "proxy")
        BY <2>1, SignalAndWaitFacts
    <2> QED
        BY <1>31, <2>2 DEF WakesAndWaits, ProxyIdle, Stopped
<1>32. ASSUME ProxyServe PROVE HolderInv'
    <2>1. SignalAndWait("dispatcher", "proxy", "proxy")
        BY <1>32 DEF ProxyServe
    <2>2. WakesAndWaits("dispatcher", "proxy", "proxy")
        BY <2>1, SignalAndWaitFacts
    <2> QED
        BY <1>32, <2>2 DEF WakesAndWaits, ProxyServe
<1>33. ASSUME ProxyDone PROVE HolderInv'
    BY <1>33 DEF ProxyDone
<1>34. ASSUME ProxyWaitOn PROVE HolderInv'
    BY <1>34 DEF ProxyWaitOn, Wait, Stopped
<1>35. ASSUME ProxyStops PROVE HolderInv'
    BY <1>35 DEF ProxyStops, Stopped
<1>36. ASSUME ProxyDies PROVE HolderInv'
    BY <1>36 DEF ProxyDies
<1>37. ASSUME NEW x \in Rest, RestRead(x) PROVE HolderInv'
    BY <1>37 DEF RestRead
<1>38. ASSUME UNCHANGED vars PROVE HolderInv'
    BY <1>38
<1> QED
    <2> HIDE DEF TypeInv, Condition, TableInv, Using, SleepInv, HasContext, StopInv, HolderInv
    <2> QED
        BY <1>1, <1>2, <1>3, <1>4, <1>5, <1>6, <1>7, <1>8, <1>9, <1>10, <1>11, <1>12, <1>13,
           <1>14, <1>15, <1>16, <1>17, <1>18, <1>19, <1>20, <1>21, <1>22, <1>23, <1>24,
           <1>25, <1>26, <1>27, <1>28, <1>29, <1>30, <1>31, <1>32, <1>33, <1>34, <1>35,
           <1>36, <1>37, <1>38
           DEF Next, ChannelStep, ClientStep, RestStep, KillerStep, ActivatorStep, ProxyStep

(* Every step keeps the turns. *)
LEMMA TurnInvStep ==
    TypeInv /\ TableInv /\ SleepInv /\ StopInv /\ HolderInv /\ TurnInv /\ [Next]_vars => TurnInv'
<1> SUFFICES ASSUME TypeInv, TableInv, SleepInv, StopInv, HolderInv, TurnInv, [Next]_vars PROVE TurnInv'
    OBVIOUS
<1> USE NamesDiffer, ThreadsDiffer
        DEF TypeInv, Condition, TableInv, Using, SleepInv, HasContext, StopInv, HolderInv, TurnInv,
            Goto, Free, Awake, vars, locks, shm, context, requests, locals, ghosts
<1>1. ASSUME ChannelLock PROVE TurnInv'
    BY <1>1 DEF ChannelLock
<1>2. ASSUME ChannelLoop PROVE TurnInv'
    BY <1>2 DEF ChannelLoop
<1>3. ASSUME NEW r \in Rid, ChannelNext(r) PROVE TurnInv'
    BY <1>3 DEF ChannelNext
<1>4. ASSUME ChannelSleep PROVE TurnInv'
    BY <1>4 DEF ChannelSleep, Wait
<1>5. ASSUME ChannelIdleSleep PROVE TurnInv'
    BY <1>5 DEF ChannelIdleSleep, IdleSleep, Wait
<1>6. ASSUME ChannelSend PROVE TurnInv'
    <2>1. SignalAndWait("proxy", "channel", "dispatcher")
        BY <1>6 DEF ChannelSend, IdleReady
    <2>2. WakesAndWaits("proxy", "channel", "dispatcher")
        BY <2>1, SignalAndWaitFacts
    <2> QED
        BY <1>6, <2>2 DEF WakesAndWaits, ChannelSend, IdleReady
<1>7. ASSUME ChannelCreateFails PROVE TurnInv'
    BY <1>7 DEF ChannelCreateFails, IdleReady
<1>8. ASSUME ChannelAnswer PROVE TurnInv'
    <2>1. /\ \A k \in Condition : waiting'[k] \subseteq waiting[k]
          /\ \A k \in Condition : k # "proxy" => waiting'[k] = waiting[k]
        <3>1. CASE Signal("proxy")
            BY <3>1, SignalFacts DEF Wakes
        <3>2. CASE UNCHANGED waiting
            BY <3>2
        <3> QED
            BY <1>8, <3>1, <3>2 DEF ChannelAnswer, request_sent
    <2>2. CASE owner_dead \/ state = "TERMINATION"
        BY <1>8, <2>1, <2>2 DEF ChannelAnswer
    <2>3. CASE ~owner_dead /\ state \in {"ACKNOWLEDGED", "FAILS"}
        <3>1. Signal("proxy")
            BY <1>8, <2>3 DEF ChannelAnswer
        <3>2. waiting'["proxy"] = {}
            BY <3>1, SignalFacts DEF Wakes
        <3> QED
            BY <1>8, <2>1, <2>3, <3>2 DEF ChannelAnswer, request_sent
    <2> QED
        BY <1>8, <2>1, <2>2, <2>3 DEF ChannelAnswer
<1>9. ASSUME ChannelStopRequest PROVE TurnInv'
    <2>1. Signal("proxy")
        BY <1>9 DEF ChannelStopRequest, IdleReady
    <2>2. Wakes("proxy")
        BY <2>1, SignalFacts
    <2> QED
        BY <1>9, <2>2 DEF Wakes, ChannelStopRequest, IdleReady
<1>10. ASSUME ChannelIdleFails PROVE TurnInv'
    BY <1>10 DEF ChannelIdleFails, IdleFailed
<1>11. ASSUME ChannelLeave PROVE TurnInv'
    BY <1>11 DEF ChannelLeave
<1>12. ASSUME NEW c \in Client, Submit(c) PROVE TurnInv'
    BY <1>12 DEF Submit
<1>13. ASSUME NEW c \in Client, Withdraw(c) PROVE TurnInv'
    BY <1>13 DEF Withdraw
<1>14. ASSUME NEW c \in Client, ClientLookup(c) PROVE TurnInv'
    BY <1>14 DEF ClientLookup
<1>15. ASSUME NEW c \in Client, ClientSignal(c) PROVE TurnInv'
    <2>1. Signal("wakeup")
        BY <1>15 DEF ClientSignal
    <2>2. Wakes("wakeup")
        BY <2>1, SignalFacts
    <2> QED
        BY <1>15, <2>2 DEF Wakes, ClientSignal
<1>16. ASSUME NEW x \in Rest, RestLookup(x) PROVE TurnInv'
    BY <1>16 DEF RestLookup
<1>17. ASSUME NEW x \in Rest, RestIdleSleep(x) PROVE TurnInv'
    BY <1>17 DEF RestIdleSleep, IdleSleep, Wait
<1>18. ASSUME NEW x \in Rest, RestSend(x) PROVE TurnInv'
    <2>1. SignalAndWait("proxy", x, "dispatcher")
        BY <1>18 DEF RestSend, IdleReady
    <2>2. WakesAndWaits("proxy", x, "dispatcher")
        BY <2>1, SignalAndWaitFacts
    <2> QED
        BY <1>18, <2>2 DEF WakesAndWaits, RestSend, IdleReady
<1>19. ASSUME NEW x \in Rest, RestCreateFails(x) PROVE TurnInv'
    BY <1>19 DEF RestCreateFails, IdleReady
<1>20. ASSUME NEW x \in Rest, RestAnswer(x) PROVE TurnInv'
    <2>1. /\ \A k \in Condition : waiting'[k] \subseteq waiting[k]
          /\ \A k \in Condition : k # "proxy" => waiting'[k] = waiting[k]
        <3>1. CASE Signal("proxy")
            BY <3>1, SignalFacts DEF Wakes
        <3>2. CASE UNCHANGED waiting
            BY <3>2
        <3> QED
            BY <1>20, <3>1, <3>2 DEF RestAnswer
    <2>2. CASE ~owner_dead /\ state = "REST_RESPOND"
        <3>1. Signal("proxy")
            BY <1>20, <2>2 DEF RestAnswer
        <3>2. waiting'["proxy"] = {}
            BY <3>1, SignalFacts DEF Wakes
        <3> QED
            BY <1>20, <2>1, <2>2, <3>2 DEF RestAnswer
    <2>3. CASE owner_dead \/ state # "REST_RESPOND"
        BY <1>20, <2>1, <2>3 DEF RestAnswer
    <2> QED
        BY <2>2, <2>3
<1>21. ASSUME NEW x \in Rest, RestIdleFails(x) PROVE TurnInv'
    BY <1>21 DEF RestIdleFails, IdleFailed
<1>22. ASSUME KillStart PROVE TurnInv'
    BY <1>22 DEF KillStart
<1>23. ASSUME KillLookup PROVE TurnInv'
    BY <1>23 DEF KillLookup
<1>24. ASSUME NEW t \in {"killer", "activator"}, StopShm(t) PROVE TurnInv'
    <2>1. WakesExchange
        BY <1>24, StopShmFacts
    <2> QED
        BY <1>24, <2>1 DEF WakesExchange, StopShm
<1>25. ASSUME NEW t \in {"killer", "activator"}, StopCtx(t) PROVE TurnInv'
    <2>1. Signal("wakeup")
        BY <1>25 DEF StopCtx
    <2>2. Wakes("wakeup")
        BY <2>1, SignalFacts
    <2> QED
        BY <1>25, <2>2 DEF Wakes, StopCtx
<1>26. ASSUME NEW t \in {"killer", "activator"}, Join(t) PROVE TurnInv'
    BY <1>26 DEF Join
<1>27. ASSUME Register PROVE TurnInv'
    BY <1>27 DEF Register
<1>28. ASSUME ActivationTimeout PROVE TurnInv'
    BY <1>28 DEF ActivationTimeout
<1>29. ASSUME ActivationFails PROVE TurnInv'
    BY <1>29 DEF ActivationFails
<1>30. ASSUME ActivatorSignal PROVE TurnInv'
    <2>1. Signal("wakeup")
        BY <1>30 DEF ActivatorSignal
    <2>2. Wakes("wakeup")
        BY <2>1, SignalFacts
    <2> QED
        BY <1>30, <2>2 DEF Wakes, ActivatorSignal
<1>31. ASSUME ProxyIdle PROVE TurnInv'
    <2>1. SignalAndWait("idle", "proxy", "proxy")
        BY <1>31 DEF ProxyIdle, Stopped
    <2>2. WakesAndWaits("idle", "proxy", "proxy")
        BY <2>1, SignalAndWaitFacts
    <2> QED
        BY <1>31, <2>2 DEF WakesAndWaits, ProxyIdle, Stopped
<1>32. ASSUME ProxyServe PROVE TurnInv'
    <2>1. SignalAndWait("dispatcher", "proxy", "proxy")
        BY <1>32 DEF ProxyServe
    <2>2. WakesAndWaits("dispatcher", "proxy", "proxy")
        BY <2>1, SignalAndWaitFacts
    <2> QED
        BY <1>32, <2>2 DEF WakesAndWaits, ProxyServe
<1>33. ASSUME ProxyDone PROVE TurnInv'
    BY <1>33 DEF ProxyDone
<1>34. ASSUME ProxyWaitOn PROVE TurnInv'
    BY <1>34 DEF ProxyWaitOn, Wait, Stopped
<1>35. ASSUME ProxyStops PROVE TurnInv'
    BY <1>35 DEF ProxyStops, Stopped
<1>36. ASSUME ProxyDies PROVE TurnInv'
    BY <1>36 DEF ProxyDies
<1>37. ASSUME NEW x \in Rest, RestRead(x) PROVE TurnInv'
    BY <1>37 DEF RestRead
<1>38. ASSUME UNCHANGED vars PROVE TurnInv'
    BY <1>38
<1> QED
    <2> HIDE DEF TypeInv, Condition, TableInv, Using, SleepInv, HasContext, StopInv, HolderInv, TurnInv
    <2> QED
        BY <1>1, <1>2, <1>3, <1>4, <1>5, <1>6, <1>7, <1>8, <1>9, <1>10, <1>11, <1>12, <1>13,
           <1>14, <1>15, <1>16, <1>17, <1>18, <1>19, <1>20, <1>21, <1>22, <1>23, <1>24,
           <1>25, <1>26, <1>27, <1>28, <1>29, <1>30, <1>31, <1>32, <1>33, <1>34, <1>35,
           <1>36, <1>37, <1>38
           DEF Next, ChannelStep, ClientStep, RestStep, KillerStep, ActivatorStep, ProxyStep

LEMMA StopInvHolds == Spec => [](ChannelInv /\ SleepInv /\ StopInv)
<1>1. Init => SleepInv /\ StopInv
    BY ThreadsDiffer DEF Init, SleepInv, HasContext, StopInv
<1>2. ChannelInv /\ SleepInv /\ StopInv /\ [Next]_vars => (SleepInv /\ StopInv)'
    BY SleepInvStep, StopInvStep DEF ChannelInv
<1> QED
    BY <1>1, <1>2, ChannelInvHolds, PTL DEF Spec

LEMMA CopyInvHolds == Spec => [](SleepInv /\ StopInv /\ CopyInv)
<1>1. Init => CopyInv
    BY ThreadsDiffer DEF Init, CopyInv, SignalComing, Asleep
<1>2. ChannelInv /\ SleepInv /\ StopInv /\ CopyInv /\ [Next]_vars => CopyInv'
    BY CopyInvStep DEF ChannelInv
<1> QED
    BY <1>1, <1>2, StopInvHolds, PTL DEF Spec

\* A channel that is told to stop is not asleep.  Once proxy_channel_stop has let go
\* of the shared lock the thread is in no wait for the proxy, and once it has let go
\* of the context's it is in no wait at all, so who joins it does not wait for a
\* sleeper, however many workers there are (proxychannel.c:150-162, proxy.c:79-109,
\* proxyactivator.c:339-346).
THEOREM StoppedChannelIsAwake ==
    Spec => [](\A t \in {"killer", "activator"} :
                  /\ pc[t] = "stop_ctx" =>
                        "channel" \notin waiting["idle"] \union waiting["dispatcher"]
                  /\ pc[t] = "join" => Awake("channel"))
<1>1. ChannelInv /\ SleepInv /\ StopInv =>
          \A t \in {"killer", "activator"} :
              /\ pc[t] = "stop_ctx" =>
                    "channel" \notin waiting["idle"] \union waiting["dispatcher"]
              /\ pc[t] = "join" => Awake("channel")
    BY DEF ChannelInv, TypeInv, Condition, SleepInv, StopInv, Awake
<1> QED
    BY <1>1, StopInvHolds, PTL

\* No wakeup is lost, however many workers of either kind there are: when the channel
\* thread sleeps, nobody has told it to stop, and for every request that is not sent
\* somebody is still on the way to signal, but for those that the last round passed
\* over, whose payload could not be created or whose answer was another's.  The
\* thread copies the requests and goes to sleep under one hold of the context's lock,
\* which a signaller takes after its request is listed (proxychannel.c:127-142,
\* 278-281, 291-306, clientservice.c:157-165).
THEOREM NoWakeupIsLost ==
    Spec => [](Asleep => ~stop /\ \A r \in (listed \ sent) \ passed : SignalComing(r))
<1>1. SleepInv /\ StopInv /\ CopyInv =>
          (Asleep => ~stop /\ \A r \in (listed \ sent) \ passed : SignalComing(r))
    BY DEF StopInv, CopyInv, Asleep
<1> QED
    BY <1>1, CopyInvHolds, PTL

LEMMA TurnInvHolds == Spec => [](HolderInv /\ TurnInv)
<1>1. Init => HolderInv /\ TurnInv
    BY ThreadsDiffer DEF Init, HolderInv, TurnInv, HasContext
<1>2. ChannelInv /\ SleepInv /\ StopInv /\ HolderInv /\ TurnInv /\ [Next]_vars
          => HolderInv' /\ TurnInv'
    BY HolderInvStep, TurnInvStep DEF ChannelInv
<1> QED
    BY <1>1, <1>2, StopInvHolds, PTL DEF Spec

(* Where the three sides of an exchange have what they need for a step.     *)
ChannelGoesOn ==
    \/ pc["channel"] \in {"loop", "next", "leave"}
    \/ pc["channel"] \in {"start", "wakeup"} /\ Awake("channel") /\ Free("ctx")
    \/ pc["channel"] \in {"send_shm", "stop_shm"} /\ Free("shm")
    \/ pc["channel"] \in {"send_idle", "stop_idle", "answer"} /\ Awake("channel") /\ Free("shm")

RestGoesOn(x) ==
    \/ pc[x] = "rest_body"
    \/ pc[x] = "rest_shm" /\ Free("shm")
    \/ pc[x] \in {"rest_idle", "rest_answer"} /\ Awake(x) /\ Free("shm")

ProxyGoesOn ==
    /\ Awake("proxy") /\ Free("shm")
    /\ \/ pc["proxy"] = "run"
       \/ pc["proxy"] = "await_request" /\ state \in {"REQUEST", "REST"}
       \/ pc["proxy"] = "await_done" /\ state = "DONE"

ExchangeGoesOn == ChannelGoesOn \/ ProxyGoesOn \/ \E x \in Rest : RestGoesOn(x)

(* Where none of them has: one sleeps for a proxy that is dead or will not  *)
(* answer, or a REST worker has left the shared lock locked.                *)
ExchangeHeldUp ==
    \/ /\ waiting["idle"] \union waiting["dispatcher"] # {}
       /\ pc["proxy"] = "dead" \/ AnswerMissed \/ IdleMissed
    \/ lock["shm"] \in Rest

(* A worker with the table locked goes on, or the exchange it waits for does.*)
TableHolder(t) == lock["table"] = t /\ pc[t] \in Using
HolderGoesOn ==
    \/ \E c \in Client : TableHolder(c) /\ (Free("ctx") \/ ExchangeGoesOn)
    \/ \E x \in Rest : TableHolder(x) /\ ExchangeGoesOn

(* Where a kill, and the end of an activation, go on, or who goes on for it.*)
KillGoesOn ==
    /\ pc["killer"] = "kill_table" => Free("table") \/ HolderGoesOn \/ KillHeldUp
    /\ pc["killer"] = "stop_shm" => Free("shm") \/ ChannelGoesOn \/ KillHeldUp
    /\ pc["killer"] = "join" /\ pc["channel"] = "exit" =>
          Free("table") \/ HolderGoesOn \/ KillHeldUp
    /\ pc["activator"] = "stop_shm" => Free("shm") \/ ChannelGoesOn
    /\ \A t \in {"killer", "activator"} :
          /\ pc[t] = "stop_ctx" => Free("ctx") \/ ChannelGoesOn
          /\ pc[t] = "join" => pc["channel"] = "exit" \/ ChannelGoesOn
    /\ pc["activator"] \in {"signal", "timeout"} =>
          Free("ctx") \/ ExchangeGoesOn \/ ExchangeHeldUp

(* Who exchanges with a living proxy goes on, or the proxy does, or what is *)
(* waited for has been missed.                                              *)
LEMMA ExchangeComes ==
    ASSUME TypeInv, SleepInv, StopInv, HolderInv, TurnInv,
           waiting["idle"] \union waiting["dispatcher"] # {}
    PROVE  ExchangeGoesOn \/ ExchangeHeldUp
<1> SUFFICES ASSUME ~ExchangeHeldUp PROVE ExchangeGoesOn
    OBVIOUS
<1>1. /\ pc["proxy"] # "dead"
      /\ waiting["dispatcher"] # {} =>
            pc["proxy"] = "await_request" /\ state \in {"REQUEST", "REST"}
      /\ waiting["idle"] # {} => state # "IDLE"
      /\ lock["shm"] \notin Rest
    BY DEF ExchangeHeldUp, AnswerMissed, IdleMissed
<1>2. Free("shm") \/ ChannelGoesOn
    BY <1>1 DEF HolderInv, Free, ChannelGoesOn
<1>3. /\ "proxy" \notin waiting["proxy"] => Awake("proxy")
      /\ "channel" \notin waiting["idle"] \union waiting["dispatcher"] /\ pc["channel"] = "answer"
            => Awake("channel")
      /\ \A x \in Rest : x \notin waiting["idle"] \union waiting["dispatcher"] => Awake(x)
    BY ThreadsDiffer DEF TypeInv, Condition, SleepInv, Awake
<1>4. state \notin {"IDLE", "TERMINATION", "STOP_REQUEST"}
    <2>1. waiting["idle"] \subseteq Rest \union {"channel"}
          /\ waiting["dispatcher"] \subseteq Rest \union {"channel"}
        BY DEF SleepInv
    <2> QED
        BY <1>1, <2>1 DEF TurnInv
<1>5. CASE state \in {"INIT", "DONE"}
    BY <1>1, <1>2, <1>3, <1>5 DEF TurnInv, ProxyGoesOn, ExchangeGoesOn
<1>6. CASE state \in {"REQUEST", "REST"}
    <2>1. waiting["dispatcher"] # {}
        BY <1>6 DEF TurnInv
    <2> QED
        BY <1>1, <1>2, <1>3, <1>6, <2>1 DEF TurnInv, ProxyGoesOn, ExchangeGoesOn
<1>7. CASE state \in {"ACKNOWLEDGED", "FAILS"}
    <2>1. pc["channel"] = "answer" /\ "channel" \notin waiting["dispatcher"]
        BY <1>1, <1>7 DEF TurnInv
    <2>2. "channel" \notin waiting["idle"]
        BY <2>1 DEF SleepInv
    <2> QED
        BY <1>2, <1>3, <2>1, <2>2 DEF ChannelGoesOn, ExchangeGoesOn
<1>8. CASE state = "REST_RESPOND"
    <2>1. PICK x \in Rest : pc[x] = "rest_answer"
        BY <1>1, <1>8 DEF TurnInv
    <2>2. x \notin waiting["dispatcher"] /\ x \notin waiting["idle"]
        BY <1>1, <1>8, <2>1 DEF SleepInv
    <2> QED
        BY <1>2, <1>3, <2>1, <2>2 DEF RestGoesOn, ExchangeGoesOn
<1> QED
    BY <1>4, <1>5, <1>6, <1>7, <1>8 DEF TypeInv

\* KillEndsOrIsHeldUp's safety core, for any number of workers of either kind: whoever
\* stops the channel waits for a thread that can go on, wherever channel thread, REST
\* workers and proxy are, but for KillHeldUp: the exchange sleeps for a proxy that is
\* dead or will not answer while a worker has the table, or a REST worker has left the
\* shared lock locked.  Past proxy_channel_stop no sleeper is waited for; the
\* activator is held up only where it signals (proxychannel.c:127-142, 150-162,
\* 175-179, 201, 291, 341, proxy.c:79-109, clientservice.c:157-163,
\* resthandler.c:71-153, proxyactivator.c:329-346).
THEOREM KillGoesOnOrIsHeldUp == Spec => []KillGoesOn
<1>1. ASSUME TypeInv, TableInv, SleepInv, StopInv, HolderInv, TurnInv PROVE KillGoesOn
    <2> USE <1>1
    <2>1. /\ Free("ctx") <=> pc["channel"] \notin HasContext
          /\ Free("shm") \/ pc["channel"] = "leave" \/ lock["shm"] \in Rest
        BY ThreadsDiffer DEF HolderInv, Free
    <2>2. ~Awake("channel") =>
              \/ pc["channel"] = "wakeup" /\ "channel" \in waiting["wakeup"]
              \/ "channel" \in waiting["idle"] \union waiting["dispatcher"]
        BY ThreadsDiffer DEF TypeInv, Condition, SleepInv, Awake
    <2>3. ASSUME pc["channel"] \in HasContext, Awake("channel")
          PROVE  ChannelGoesOn \/ lock["shm"] \in Rest
        BY <2>1, <2>3 DEF HasContext, ChannelGoesOn
    <2>4. Free("ctx") \/ ExchangeGoesOn \/ ExchangeHeldUp
        <3>1. CASE Awake("channel")
            BY <2>1, <2>3, <3>1 DEF ExchangeGoesOn, ExchangeHeldUp
        <3>2. CASE ~Awake("channel") /\ ~Free("ctx")
            <4>1. "channel" \in waiting["idle"] \union waiting["dispatcher"]
                BY <2>1, <2>2, <3>2 DEF HasContext
            <4> QED
                BY <4>1, ExchangeComes
        <3> QED
            BY <3>1, <3>2
    <2>5. ASSUME NEW x \in Rest, TableHolder(x)
          PROVE  ExchangeGoesOn \/ ExchangeHeldUp
        <3>1. pc[x] \in {"rest_body", "rest_shm", "rest_idle", "rest_answer"}
            BY <2>5, ThreadsDiffer DEF TableHolder, TableInv, Using
        <3>2. CASE Awake(x)
            BY <2>1, <3>1, <3>2 DEF RestGoesOn, ChannelGoesOn, ExchangeGoesOn, ExchangeHeldUp
        <3>3. CASE ~Awake(x)
            <4>1. x \in waiting["idle"] \union waiting["dispatcher"]
                BY <3>3, ThreadsDiffer DEF TypeInv, Condition, SleepInv, Awake
            <4> QED
                BY <4>1, ExchangeComes
        <3> QED
            BY <3>2, <3>3
    <2>6. \/ Free("table") \/ pc["killer"] \in {"stop_shm", "stop_ctx"}
          \/ \E c \in Client : TableHolder(c)
          \/ \E x \in Rest : TableHolder(x)
        BY DEF HolderInv, TableHolder, Free
    <2>7. \/ Free("table") \/ pc["killer"] \in {"stop_shm", "stop_ctx"}
          \/ HolderGoesOn
          \/ lock["table"] \in Client \union Rest /\ ExchangeHeldUp
        BY <2>4, <2>5, <2>6 DEF HolderGoesOn, TableHolder
    <2>8. pc["killer"] = "kill_table" => Free("table") \/ HolderGoesOn \/ KillHeldUp
        BY <2>7 DEF KillHeldUp, ExchangeHeldUp
    <2>9. pc["killer"] = "stop_shm" => Free("shm") \/ ChannelGoesOn \/ KillHeldUp
        BY <2>1 DEF ChannelGoesOn, KillHeldUp
    <2>10. pc["killer"] = "join" /\ pc["channel"] = "exit" =>
               Free("table") \/ HolderGoesOn \/ KillHeldUp
        <3>1. ASSUME pc["killer"] = "join", ExchangeHeldUp PROVE lock["shm"] \in Rest
            <4>1. state = "TERMINATION"
                BY <3>1 DEF StopInv
            <4>2. waiting["idle"] \union waiting["dispatcher"] = {}
                BY <4>1 DEF SleepInv, TurnInv
            <4> QED
                BY <3>1, <4>2 DEF ExchangeHeldUp
        <3> QED
            BY <2>7, <3>1 DEF KillHeldUp
    <2>11. pc["activator"] = "stop_shm" => Free("shm") \/ ChannelGoesOn
        BY <2>1 DEF HolderInv, ChannelGoesOn
    <2>12. ASSUME NEW t \in {"killer", "activator"}
           PROVE  /\ pc[t] = "stop_ctx" => Free("ctx") \/ ChannelGoesOn
                  /\ pc[t] = "join" => pc["channel"] = "exit" \/ ChannelGoesOn
        <3>1. ASSUME pc[t] = "stop_ctx" PROVE Free("ctx") \/ ChannelGoesOn
            <4>1. state = "TERMINATION" /\ lock["shm"] \notin Rest
                BY <3>1 DEF StopInv, HolderInv
            <4>2. pc["channel"] \in HasContext => Awake("channel")
                BY <2>2, <4>1 DEF StopInv, HasContext
            <4> QED
                BY <2>1, <2>3, <4>1, <4>2
        <3>2. ASSUME pc[t] = "join" PROVE pc["channel"] = "exit" \/ ChannelGoesOn
            <4>1. Awake("channel") /\ pc["channel"] \in {"start", "loop", "leave", "exit",
                                                        "wakeup"}
                BY <2>2, <3>2 DEF StopInv
            <4> QED
                BY <2>1, <4>1 DEF ChannelGoesOn, HasContext
        <3> QED
            BY <3>1, <3>2
    <2> QED
        BY <2>4, <2>8, <2>9, <2>10, <2>11, <2>12 DEF KillGoesOn
<1> QED
    BY <1>1, StopInvHolds, TurnInvHolds, PTL DEF ChannelInv

===============================================================================
