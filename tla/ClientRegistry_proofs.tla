----------------------- MODULE ClientRegistry_proofs ------------------------
(***************************************************************************)
(* Theorems about ClientRegistry.                                          *)
(***************************************************************************)
EXTENDS ClientRegistry, TLAPS

\* A thread that is working on a request has one.
LocalsSet ==
    /\ \A c \in Conn :
          ws_pc[c] \in RoutePc \union {"drop_request", "drop_service", "drop_proxyname",
                                      "issue_proxyname"} => ws_rid[c] \in Request
    /\ \A p \in Proxy : sb_pc[p] \notin {"idle", "reply_request"} => sb_rid[p] \in Rid
    /\ tm_pc \notin {"idle", "expired_conn"} => tm_rid \in Request

TypeInv == TypeOK /\ LocalsSet

\* A client's rid and the rid of a drop request are rids.
LEMMA RidFacts == Request \subseteq Rid /\ \A r \in Request : DropId(r) \in Rid
BY DEF Rid, DropRequest

\* client_proxyname_table_set keeps the type of its table.
LEMMA SetKeepsType ==
    ASSUME proxyname_table \in [Proxy -> SUBSET Rid], NEW p, NEW rid \in Rid,
           proxyname_table_set(p, rid)
    PROVE  proxyname_table' \in [Proxy -> SUBSET Rid]
BY DEF proxyname_table_set

\* client_connection_table_drop keeps the type of its table.
LEMMA DropKeepsType ==
    ASSUME connection_table \in [Conn -> SUBSET Request], NEW c, NEW rid,
           connection_table_drop(c, rid)
    PROVE  connection_table' \in [Conn -> SUBSET Request]
BY DEF connection_table_drop

\* client_request_table_remove keeps the types of its table and of the timestamps.
LEMMA RemoveKeepsType ==
    ASSUME request_table \in [Request -> Conn \union {NoConn}], fresh \in SUBSET Request,
           NEW rid, request_table_remove(rid)
    PROVE  /\ request_table' \in [Request -> Conn \union {NoConn}]
           /\ fresh' \in SUBSET Request
BY DEF request_table_remove

\* The empty tables are typed, and no thread is working on a request.
LEMMA TypeInit == Init => TypeInv
<1> USE BoundAssumption DEF Init, NoDrops, WsPc, SbPc, TmPc, RoutePc
<1>1. ASSUME Init PROVE TypeOK
  <2>1. NoDrops \in [Proxy -> SUBSET Request]
    OBVIOUS
  <2>2. table_out \in BOOLEAN /\ ctx_out \in SUBSET Proxy
    BY <1>1
  <2> HIDE DEF NoDrops
  <2> QED
    BY <1>1, <2>1, <2>2 DEF TypeOK
<1>2. ASSUME Init PROVE LocalsSet
  BY <1>2 DEF LocalsSet
<1> QED
  BY <1>1, <1>2 DEF TypeInv

\* Every call of a table function, by any thread, keeps the types.
LEMMA TypeStep == TypeInv /\ [Next]_vars => TypeInv'
<1> SUFFICES ASSUME TypeInv, [Next]_vars PROVE TypeInv'
  OBVIOUS
<1> USE BoundAssumption, RidFacts DEF TypeInv, TypeOK, LocalsSet, WsPc, SbPc, TmPc, RoutePc,
        DropPc, SignalPc, Issuing, vars, tables, world, outside, wsVars, sbVars, tmVars
<1>1. ASSUME NEW c \in Conn, Connect(c) PROVE TypeInv'
  BY <1>1 DEF Connect
<1>2. ASSUME NEW c \in Conn, NEW r \in Request, NEW p \in Proxy, Route(c, r, p) PROVE TypeInv'
  BY <1>2 DEF Route
<1>3. ASSUME NEW c \in Conn, RouteConnection(c) PROVE TypeInv'
  BY <1>3 DEF RouteConnection
<1>4. ASSUME NEW c \in Conn, RouteService(c) PROVE TypeInv'
  BY <1>4 DEF RouteService
<1>5. ASSUME NEW c \in Conn, RouteProxyname(c) PROVE TypeInv'
  <2>1. proxyname_table' \in [Proxy -> SUBSET Rid]
    BY <1>5, SetKeepsType DEF RouteProxyname
  <2> QED
    BY <1>5, <2>1 DEF RouteProxyname
<1>6. ASSUME NEW c \in Conn, Close(c) PROVE TypeInv'
  <2>1. CASE connection_table[c] = {}
    <3>1. session' = [session EXCEPT ![c] = 0] /\ UNCHANGED <<ws_pc, ws_todo>>
      BY <1>6, <2>1, Zenon DEF Close
    <3> QED
      BY <1>6, <3>1 DEF Close
  <2>2. CASE connection_table[c] # {}
    <3>0. /\ ws_todo' = [ws_todo EXCEPT ![c] = connection_table[c]]
          /\ ws_pc' = [ws_pc EXCEPT ![c] = "drop_next"]
          /\ UNCHANGED <<tables, session, last_session, owner, held, losses,
                         outside, ws_rid, ws_proxy, ws_drops, sbVars, tmVars>>
      BY <1>6, <2>2, Zenon DEF Close
    <3>1. TypeOK'
      BY <3>0
    <3>2. LocalsSet'
      BY <3>0
    <3> QED
      BY <3>1, <3>2
  <2> QED
    BY <2>1, <2>2
<1>7. ASSUME NEW c \in Conn, NEW r \in Request, DropLookup(c, r) PROVE TypeInv'
  BY <1>7 DEF DropLookup
<1>8. ASSUME NEW c \in Conn, DropRequestEntry(c) PROVE TypeInv'
  BY <1>8 DEF DropRequestEntry, request_table_remove
<1>9. ASSUME NEW c \in Conn, DropService(c) PROVE TypeInv'
  BY <1>9 DEF DropService, service_table_remove
<1>10. ASSUME NEW c \in Conn, DropProxyname(c) PROVE TypeInv'
  BY <1>10 DEF DropProxyname, proxyname_table_drop_all
<1>11. ASSUME NEW c \in Conn, IssueLock(c) PROVE TypeInv'
  BY <1>11 DEF IssueLock
<1>12. ASSUME NEW c \in Conn, NEW p \in Proxy, IssueProxy(c, p) PROVE TypeInv'
  <2>1. ws_drops' \in [Conn -> [Proxy -> SUBSET Request]]
    BY <1>12 DEF IssueProxy
  <2>2. CASE UNCHANGED <<ws_pc, ws_proxy, ws_todo>>
    BY <1>12, <2>1, <2>2 DEF IssueProxy
  <2>3. CASE /\ ws_proxy' = [ws_proxy EXCEPT ![c] = p]
             /\ ws_todo' = [ws_todo EXCEPT ![c] = ws_drops[c][p]]
             /\ ws_pc' = [ws_pc EXCEPT ![c] = "issue_service"]
    BY <1>12, <2>1, <2>3 DEF IssueProxy
  <2> QED
    BY <1>12, <2>2, <2>3 DEF IssueProxy
<1>13. ASSUME NEW c \in Conn, NEW r \in Request, IssueService(c, r) PROVE TypeInv'
  BY <1>13 DEF IssueService, DropId
<1>14. ASSUME NEW c \in Conn, IssueProxyname(c) PROVE TypeInv'
  <2>1. proxyname_table' \in [Proxy -> SUBSET Rid]
    BY <1>14, SetKeepsType DEF IssueProxyname
  <2>2. CASE ws_todo[c] = {}
    <3>1. TypeOK'
      BY <1>14, <2>1, <2>2 DEF IssueProxyname
    <3>2. LocalsSet'
      BY <1>14, <2>1, <2>2 DEF IssueProxyname
    <3> QED
      BY <3>1, <3>2
  <2>3. CASE ws_todo[c] # {}
    <3>1. TypeOK'
      BY <1>14, <2>1, <2>3 DEF IssueProxyname
    <3>2. LocalsSet'
      BY <1>14, <2>1, <2>3 DEF IssueProxyname
    <3> QED
      BY <3>1, <3>2
  <2> QED
    BY <2>2, <2>3
<1>15. ASSUME NEW c \in Conn, IssueUnlock(c) PROVE TypeInv'
  BY <1>15 DEF IssueUnlock, NoDrops
<1>16. ASSUME NEW c \in Conn, DropConnection(c) PROVE TypeInv'
  BY <1>16 DEF DropConnection
<1>17. ASSUME NEW p \in Proxy, NEW S \in SUBSET Rid, NEW remove \in BOOLEAN,
             Answer(p, S, remove)
      PROVE TypeInv'
  BY <1>17 DEF Answer
<1>18. ASSUME NEW p \in Proxy, NEW q \in Rid, NEW r \in Request,
             NEW remove \in BOOLEAN, AnswerClear(p, q, r, remove)
      PROVE TypeInv'
  BY <1>18 DEF AnswerClear
<1>19. ASSUME NEW p \in Proxy, PurgeRequest(p) PROVE TypeInv'
  BY <1>19 DEF PurgeRequest, request_table_conn, request_table_remove
<1>20. ASSUME NEW p \in Proxy, PurgeConnection(p) PROVE TypeInv'
  BY <1>20 DEF PurgeConnection, connection_table_drop
<1>21. ASSUME NEW p \in Proxy, PurgeProxyname(p) PROVE TypeInv'
  BY <1>21 DEF PurgeProxyname, proxyname_table_drop_all
<1>22. ASSUME NEW p \in Proxy, PurgeService(p) PROVE TypeInv'
  BY <1>22 DEF PurgeService, service_table_remove
<1>23. ASSUME NEW p \in Proxy, NEW rid \in Rid, ReplyRequest(p, rid) PROVE TypeInv'
  <2>1. request_table_conn(rid) \in Conn \union {NoConn}
    BY DEF request_table_conn
  <2>2. CASE sb_remove[p] /\ request_table_conn(rid) = NoConn
    <3>1. TypeOK'
      BY <1>23, <2>1, <2>2, RemoveKeepsType DEF ReplyRequest
    <3>2. LocalsSet'
      BY <1>23, <2>1, <2>2, RemoveKeepsType DEF ReplyRequest
    <3> QED
      BY <3>1, <3>2
  <2>3. CASE sb_remove[p] /\ request_table_conn(rid) # NoConn
    <3>1. TypeOK'
      BY <1>23, <2>1, <2>3, RemoveKeepsType DEF ReplyRequest
    <3>2. LocalsSet'
      BY <1>23, <2>1, <2>3, RemoveKeepsType DEF ReplyRequest
    <3> QED
      BY <3>1, <3>2
  <2>4. CASE ~ sb_remove[p]
    <3>0. /\ fresh' \in SUBSET Request
          /\ sb_pc' = [sb_pc EXCEPT ![p] = "reply_write"]
          /\ sb_rid' = [sb_rid EXCEPT ![p] = rid]
          /\ sb_todo' = [sb_todo EXCEPT ![p] = @ \ {rid}]
          /\ sb_conn' = [sb_conn EXCEPT ![p] = request_table_conn(rid)]
          /\ UNCHANGED <<request_table, connection_table, service_table,
                         proxyname_table, sent, world, wsVars, sb_remove, tmVars>>
      BY <1>23, <2>4, NullAssumption DEF ReplyRequest, request_table_conn
    <3>1. TypeOK'
      BY <2>1, <3>0
    <3>2. LocalsSet'
      BY <2>1, <3>0
    <3> QED
      BY <3>1, <3>2
  <2> QED
    BY <2>2, <2>3, <2>4
<1>24. ASSUME NEW p \in Proxy, ReplyConnection(p) PROVE TypeInv'
  BY <1>24 DEF ReplyConnection, connection_table_drop
<1>25. ASSUME NEW p \in Proxy, ReplyProxyname(p) PROVE TypeInv'
  BY <1>25 DEF ReplyProxyname, proxyname_table_drop
<1>26. ASSUME NEW p \in Proxy, ReplyService(p) PROVE TypeInv'
  BY <1>26 DEF ReplyService, service_table_remove
<1>27. ASSUME NEW p \in Proxy, ReplyWrite(p) PROVE TypeInv'
  <2>1. CASE sb_todo[p] = {}
    <3>1. TypeOK'
      BY <1>27, <2>1 DEF ReplyWrite
    <3>2. LocalsSet'
      BY <1>27, <2>1 DEF ReplyWrite
    <3> QED
      BY <3>1, <3>2
  <2>2. CASE sb_todo[p] # {}
    <3>1. TypeOK'
      BY <1>27, <2>2 DEF ReplyWrite
    <3>2. LocalsSet'
      BY <1>27, <2>2 DEF ReplyWrite
    <3> QED
      BY <3>1, <3>2
  <2> QED
    BY <2>1, <2>2
<1>28. CASE TimeoutScan
  BY <1>28 DEF TimeoutScan, Overdue
<1>29. ASSUME NEW r \in Request, TimeoutConn(r) PROVE TypeInv'
  BY <1>29 DEF TimeoutConn
<1>30. CASE TimeoutReply
  BY <1>30 DEF TimeoutReply
<1>31. CASE TimeoutRequest
  BY <1>31 DEF TimeoutRequest, request_table_remove
<1>32. CASE TimeoutConnection
  <2>1. connection_table' \in [Conn -> SUBSET Request]
    BY <1>32, DropKeepsType DEF TimeoutConnection
  <2> QED
    BY <1>32, <2>1 DEF TimeoutConnection
<1>33. CASE TimeoutService
  BY <1>33 DEF TimeoutService, service_table_remove
<1>34. CASE TimeoutProxyname
  BY <1>34 DEF TimeoutProxyname, proxyname_table_drop_all
<1>35. ASSUME NEW r \in Request, TimePasses(r) PROVE TypeInv'
  BY <1>35 DEF TimePasses
<1>36. ASSUME NEW p \in Proxy, NEW rid \in Rid, Dispatch(p, rid) PROVE TypeInv'
  <2>1. CASE held' = [held EXCEPT ![p] = @ \union {rid}]
    BY <1>36, <2>1 DEF Dispatch
  <2>2. CASE UNCHANGED held
    BY <1>36, <2>2 DEF Dispatch
  <2> QED
    BY <1>36, <2>1, <2>2 DEF Dispatch
<1>37. ASSUME NEW p \in Proxy, ProxyLost(p) PROVE TypeInv'
  BY <1>37 DEF ProxyLost
<1>38. CASE UNCHANGED vars
  BY <1>38
<1>39. ASSUME NEW c \in Conn, RouteLock(c) PROVE TypeInv'
  BY <1>39 DEF RouteLock
<1>40. ASSUME NEW c \in Conn, RouteSignal(c) PROVE TypeInv'
  BY <1>40 DEF RouteSignal
<1>41. ASSUME NEW c \in Conn, IssueSignal(c) PROVE TypeInv'
  BY <1>41 DEF IssueSignal
<1>42. CASE LocksStep
  BY <1>42 DEF LocksStep, TableTaken, TableLeft, ContextTaken, ContextLeft
<1> HIDE DEF TypeInv, TypeOK, LocalsSet, WsPc, SbPc, TmPc, RoutePc, DropPc,
        Issuing, vars, tables, world, outside, wsVars, sbVars, tmVars
<1> QED
  BY <1>1, <1>2, <1>3, <1>4, <1>5, <1>6, <1>7, <1>8, <1>9, <1>10, <1>11, <1>12, <1>13,
     <1>14, <1>15, <1>16, <1>17, <1>18, <1>19, <1>20, <1>21, <1>22, <1>23, <1>24, <1>25,
     <1>26, <1>27, <1>28, <1>29, <1>30, <1>31, <1>32, <1>33, <1>34, <1>35, <1>36, <1>37,
     <1>38, <1>39, <1>40, <1>41, <1>42 DEF Next, WsStep, SbStep, TmStep

\* Typing is an invariant: every table keeps the shape the code relies on
\* (rids of clients only in the connection table, drop rids elsewhere).
THEOREM TypeCorrect == Spec => []TypeOK
<1>1. Init => TypeInv
  BY TypeInit
<1>2. TypeInv /\ [Next]_vars => TypeInv'
  BY TypeStep
<1>3. TypeInv => TypeOK
  BY DEF TypeInv
<1> QED
  BY <1>1, <1>2, <1>3, PTL DEF Spec

-----------------------------------------------------------------------------
(***************************************************************************)
(* The inductive invariant behind NoDanglingRequest.                       *)
(***************************************************************************)
\* The connection table lists every request of a connection, except the one
\* its worker has put in the request table and is about to list.
Listed ==
    \A r \in Request, c \in Conn : request_table[r] = c =>
        \/ r \in connection_table[c]
        \/ ws_pc[c] = "route_connection" /\ ws_rid[c] = r

\* While drop_conn runs, the requests still in the table are those it has yet
\* to remove; after its first loop there are none.
Dropping ==
    \A r \in Request, c \in Conn :
        /\ ws_pc[c] \in DropPc \union Issuing \union {"drop_connection"}
        /\ request_table[r] = c
        => \/ ws_pc[c] \in DropPc /\ r \in ws_todo[c]
           \/ ws_pc[c] = "drop_request" /\ ws_rid[c] = r

\* A worker inside a handler serves a session.
BusyIsOpen == \A c \in Conn : ws_pc[c] # "idle" => session[c] # 0

\* A request that is dropped from the connection table has left the request
\* table before.
Taken ==
    /\ \A p \in Proxy : sb_pc[p] \in {"purge_connection", "reply_connection"} =>
           request_table_conn(sb_rid[p]) = NoConn
    /\ tm_pc = "expired_connection" => request_table[tm_rid] = NoConn

\* A rid that no client has used yet is nowhere but in the clients' hands.
Unused(r) ==
    /\ r \notin tm_todo
    /\ tm_rid # r
    /\ \A p \in Proxy : /\ r \notin held[p]
                        /\ r \notin proxyname_table[p]
                        /\ r \notin sb_todo[p]
                        /\ sb_rid[p] # r
    /\ \A c \in Conn : ws_pc[c] \in RoutePc => ws_rid[c] # r
UnusedNowhere == \A r \in Request : owner[r] = 0 => Unused(r)

RegistryInv ==
    /\ NoDanglingRequest /\ Listed /\ Dropping /\ BusyIsOpen /\ Taken /\ UnusedNowhere

\* With empty tables there is nothing to dangle.
LEMMA RegistryInit == Init => RegistryInv
BY NullAssumption DEF Init, RegistryInv, NoDanglingRequest, Listed, Dropping, BusyIsOpen,
   Taken,
   UnusedNowhere, Unused, DropPc, Issuing, RoutePc

\* Every step of a worker, a subscribe thread, the timeout thread or the
\* surroundings keeps the inductive invariant.
LEMMA RegistryStep == TypeInv /\ RegistryInv /\ [Next]_vars => RegistryInv'
<1> SUFFICES ASSUME TypeInv, RegistryInv, [Next]_vars PROVE RegistryInv'
  OBVIOUS
<1>0. /\ request_table \in [Request -> Conn \union {NoConn}]
      /\ connection_table \in [Conn -> SUBSET Request]
      /\ proxyname_table \in [Proxy -> SUBSET Rid]
      /\ session \in [Conn -> Nat] /\ last_session \in Nat
      /\ owner \in [Request -> Nat]
      /\ held \in [Proxy -> SUBSET Rid]
      /\ ws_pc \in [Conn -> WsPc]
      /\ ws_rid \in [Conn -> Request \union {NoRequest}]
      /\ ws_todo \in [Conn -> SUBSET Request]
      /\ sb_pc \in [Proxy -> SbPc]
      /\ sb_rid \in [Proxy -> Rid \union {NoRequest}]
      /\ sb_todo \in [Proxy -> SUBSET Rid]
      /\ LocalsSet
  BY BoundAssumption DEF TypeInv, TypeOK
<1> USE <1>0, NullAssumption DEF RegistryInv, NoDanglingRequest, Listed, Dropping, BusyIsOpen,
        Taken, UnusedNowhere, Unused, LocalsSet, WsPc, DropPc, Issuing, RoutePc,
            request_table_conn,
        vars, tables, world, outside, wsVars, sbVars, tmVars
<1>1. ASSUME NEW c \in Conn, Connect(c) PROVE RegistryInv'
  BY <1>1 DEF Connect
<1>2. ASSUME NEW c \in Conn, NEW r \in Request, NEW p \in Proxy, Route(c, r, p)
      PROVE  RegistryInv'
  BY <1>2 DEF Route
<1>3. ASSUME NEW c \in Conn, RouteConnection(c) PROVE RegistryInv'
  BY <1>3 DEF RouteConnection
<1>4. ASSUME NEW c \in Conn, RouteService(c) PROVE RegistryInv'
  BY <1>4 DEF RouteService
<1>5. ASSUME NEW c \in Conn, RouteProxyname(c) PROVE RegistryInv'
  BY <1>5 DEF RouteProxyname, proxyname_table_set
<1>6. ASSUME NEW c \in Conn, Close(c) PROVE RegistryInv'
  BY <1>6 DEF Close
<1>7. ASSUME NEW c \in Conn, NEW r \in Request, DropLookup(c, r) PROVE RegistryInv'
  BY <1>7 DEF DropLookup
<1>8. ASSUME NEW c \in Conn, DropRequestEntry(c) PROVE RegistryInv'
  BY <1>8 DEF DropRequestEntry, request_table_remove
<1>9. ASSUME NEW c \in Conn, DropService(c) PROVE RegistryInv'
  BY <1>9 DEF DropService, service_table_remove
<1>10. ASSUME NEW c \in Conn, DropProxyname(c) PROVE RegistryInv'
  BY <1>10 DEF DropProxyname, proxyname_table_drop_all
<1>11. ASSUME NEW c \in Conn, IssueLock(c) PROVE RegistryInv'
  BY <1>11 DEF IssueLock
<1>12. ASSUME NEW c \in Conn, NEW p \in Proxy, IssueProxy(c, p) PROVE RegistryInv'
  BY <1>12 DEF IssueProxy
<1>13. ASSUME NEW c \in Conn, NEW r \in Request, IssueService(c, r) PROVE RegistryInv'
  BY <1>13 DEF IssueService
<1>14. ASSUME NEW c \in Conn, IssueProxyname(c) PROVE RegistryInv'
  <2>1. ws_rid[c] \in Request /\ DropId(ws_rid[c]) \notin Request
    BY <1>14, DropIdAssumption DEF IssueProxyname, DropRequest
  <2>2. \A r \in Request, d \in Proxy : r \in proxyname_table'[d] => r \in proxyname_table[d]
    BY <1>14, <2>1 DEF IssueProxyname, proxyname_table_set
  <2>3. CASE ws_todo[c] = {}
    BY <1>14, <2>2, <2>3 DEF IssueProxyname
  <2>4. CASE ws_todo[c] # {}
    BY <1>14, <2>2, <2>4 DEF IssueProxyname
  <2> QED
    BY <2>3, <2>4
<1>15. ASSUME NEW c \in Conn, IssueUnlock(c) PROVE RegistryInv'
  BY <1>15 DEF IssueUnlock, NoDrops
<1>16. ASSUME NEW c \in Conn, DropConnection(c) PROVE RegistryInv'
  BY <1>16 DEF DropConnection
<1>17. ASSUME NEW p \in Proxy, NEW S \in SUBSET Rid, NEW remove \in BOOLEAN,
             Answer(p, S, remove)
      PROVE RegistryInv'
  BY <1>17 DEF Answer
<1>18. ASSUME NEW p \in Proxy, NEW q \in Rid, NEW r \in Request,
             NEW remove \in BOOLEAN, AnswerClear(p, q, r, remove)
      PROVE RegistryInv'
  BY <1>18 DEF AnswerClear
<1>19. ASSUME NEW p \in Proxy, PurgeRequest(p) PROVE RegistryInv'
  BY <1>19 DEF PurgeRequest, request_table_remove
<1>20. ASSUME NEW p \in Proxy, PurgeConnection(p) PROVE RegistryInv'
  BY <1>20 DEF PurgeConnection, connection_table_drop
<1>21. ASSUME NEW p \in Proxy, PurgeProxyname(p) PROVE RegistryInv'
  BY <1>21 DEF PurgeProxyname, proxyname_table_drop_all
<1>22. ASSUME NEW p \in Proxy, PurgeService(p) PROVE RegistryInv'
  BY <1>22 DEF PurgeService, service_table_remove
<1>23. ASSUME NEW p \in Proxy, NEW rid \in Rid, ReplyRequest(p, rid) PROVE RegistryInv'
  BY <1>23 DEF ReplyRequest, request_table_remove
<1>24. ASSUME NEW p \in Proxy, ReplyConnection(p) PROVE RegistryInv'
  BY <1>24 DEF ReplyConnection, connection_table_drop
<1>25. ASSUME NEW p \in Proxy, ReplyProxyname(p) PROVE RegistryInv'
  BY <1>25 DEF ReplyProxyname, proxyname_table_drop
<1>26. ASSUME NEW p \in Proxy, ReplyService(p) PROVE RegistryInv'
  BY <1>26 DEF ReplyService, service_table_remove
<1>27. ASSUME NEW p \in Proxy, ReplyWrite(p) PROVE RegistryInv'
  BY <1>27 DEF ReplyWrite
<1>28. CASE TimeoutScan
  BY <1>28 DEF TimeoutScan, Overdue
<1>29. ASSUME NEW r \in Request, TimeoutConn(r) PROVE RegistryInv'
  BY <1>29 DEF TimeoutConn
<1>30. CASE TimeoutReply
  BY <1>30 DEF TimeoutReply
<1>31. CASE TimeoutRequest
  BY <1>31 DEF TimeoutRequest, request_table_remove
<1>32. CASE TimeoutConnection
  BY <1>32 DEF TimeoutConnection, connection_table_drop
<1>33. CASE TimeoutService
  BY <1>33 DEF TimeoutService, service_table_remove
<1>34. CASE TimeoutProxyname
  BY <1>34 DEF TimeoutProxyname, proxyname_table_drop_all
<1>35. ASSUME NEW r \in Request, TimePasses(r) PROVE RegistryInv'
  BY <1>35 DEF TimePasses
<1>36. ASSUME NEW p \in Proxy, NEW rid \in Rid, Dispatch(p, rid) PROVE RegistryInv'
  BY <1>36 DEF Dispatch
<1>37. ASSUME NEW p \in Proxy, ProxyLost(p) PROVE RegistryInv'
  BY <1>37 DEF ProxyLost
<1>38. CASE UNCHANGED vars
  BY <1>38
<1>39. ASSUME NEW c \in Conn, RouteLock(c) PROVE RegistryInv'
  BY <1>39 DEF RouteLock
<1>40. ASSUME NEW c \in Conn, RouteSignal(c) PROVE RegistryInv'
  BY <1>40 DEF RouteSignal
<1>41. ASSUME NEW c \in Conn, IssueSignal(c) PROVE RegistryInv'
  BY <1>41 DEF IssueSignal
<1>42. CASE LocksStep
  BY <1>42 DEF LocksStep, TableTaken, TableLeft, ContextTaken, ContextLeft
<1> HIDE <1>0 DEF RegistryInv, NoDanglingRequest, Listed, Dropping, BusyIsOpen, Taken,
        UnusedNowhere, Unused, LocalsSet, WsPc, DropPc, Issuing, RoutePc, request_table_conn,
        vars, tables, world, outside, wsVars, sbVars, tmVars
<1> QED
  BY <1>1, <1>2, <1>3, <1>4, <1>5, <1>6, <1>7, <1>8, <1>9, <1>10, <1>11, <1>12, <1>13,
     <1>14, <1>15, <1>16, <1>17, <1>18, <1>19, <1>20, <1>21, <1>22, <1>23, <1>24, <1>25,
     <1>26, <1>27, <1>28, <1>29, <1>30, <1>31, <1>32, <1>33, <1>34, <1>35, <1>36, <1>37,
     <1>38, <1>39, <1>40, <1>41, <1>42 DEF Next, WsStep, SbStep, TmStep

\* For any number of connections, proxies and requests and any bounds: no
\* route, answer, purge, expiry or close, in whatever order their table calls
\* interleave, leaves a request that leads to a connection of another session
\* or to none.
THEOREM NoDangling == Spec => []NoDanglingRequest
<1>1. Init => TypeInv /\ RegistryInv
  BY TypeInit, RegistryInit
<1>2. TypeInv /\ RegistryInv /\ [Next]_vars => (TypeInv /\ RegistryInv)'
  BY TypeStep, RegistryStep
<1>3. RegistryInv => NoDanglingRequest
  BY DEF RegistryInv
<1> QED
  BY <1>1, <1>2, <1>3, PTL DEF Spec

-----------------------------------------------------------------------------
(***************************************************************************)
(* ClientRegistry implements RequestLife.                                  *)
(***************************************************************************)
LifeStep == [Life!LifeNext]_(Life!lifeVars)

\* A step that touches none of the three variables of the mapping stutters.
LEMMA LifeStutter ==
    ASSUME UNCHANGED <<request_table, owner, session>>
    PROVE  LifeStep
BY DEF LifeStep, Life!lifeVars

\* Taking a rid out of the request table finishes its request, or does
\* nothing if it is not in the table.
LEMMA LifeRemove ==
    ASSUME TypeOK, NoDanglingRequest, NEW rid, request_table_remove(rid),
           UNCHANGED <<owner, session>>
    PROVE  LifeStep
<1>1. CASE rid \in Request /\ request_table[rid] # NoConn
  <2>0. /\ owner[rid] # 0
        /\ request_table' = [request_table EXCEPT ![rid] = NoConn]
    BY <1>1 DEF TypeOK, NoDanglingRequest, request_table_remove
  <2>1. Life!Finish(rid)
    BY <1>1, <2>0, NullAssumption DEF TypeOK, Life!Finish
  <2> QED
    BY <1>1, <2>1 DEF LifeStep, Life!LifeNext
<1>2. CASE ~ (rid \in Request /\ request_table[rid] # NoConn)
  <2>1. request_table' = request_table
    BY <1>2 DEF TypeOK, request_table_remove
  <2> QED
    BY <2>1, LifeStutter
<1> QED
  BY <1>1, <1>2

\* A connection whose session ends has no open request.
LEMMA LifeLeave ==
    ASSUME TypeOK, NEW c \in Conn, session[c] # 0, \A r \in Request : request_table[r] # c,
           session' = [session EXCEPT ![c] = 0], UNCHANGED <<request_table, owner>>
    PROVE  LifeStep
<1>1. Life!Leave(c)
  BY DEF TypeOK, Life!Leave
<1> QED
  BY <1>1 DEF LifeStep, Life!LifeNext

\* Every step of the registry is a step of RequestLife under the mapping, or
\* leaves its variables alone.
LEMMA LifeImplemented == TypeInv /\ RegistryInv /\ [Next]_vars => LifeStep
<1> SUFFICES ASSUME TypeInv, RegistryInv, [Next]_vars PROVE LifeStep
  OBVIOUS
<1>0. TypeOK /\ NoDanglingRequest
  BY DEF TypeInv, RegistryInv
<1> USE DEF vars, tables, world, outside, wsVars, sbVars, tmVars
<1>1. ASSUME NEW c \in Conn, Connect(c) PROVE LifeStep
  <2>1. Life!Arrive(c)
    BY <1>1, <1>0, BoundAssumption DEF Connect, TypeOK, Life!Arrive
  <2> QED
    BY <2>1 DEF LifeStep, Life!LifeNext
<1>2. ASSUME NEW c \in Conn, NEW r \in Request, NEW p \in Proxy, Route(c, r, p) PROVE LifeStep
  <2>1. Life!Open(c, r)
    BY <1>2, <1>0, NullAssumption DEF Route, TypeOK, Life!Open
  <2> QED
    BY <2>1 DEF LifeStep, Life!LifeNext
<1>3. ASSUME NEW c \in Conn, RouteConnection(c) PROVE LifeStep
  BY <1>3, LifeStutter DEF RouteConnection
<1>4. ASSUME NEW c \in Conn, RouteService(c) PROVE LifeStep
  BY <1>4, LifeStutter DEF RouteService
<1>5. ASSUME NEW c \in Conn, RouteProxyname(c) PROVE LifeStep
  BY <1>5, LifeStutter DEF RouteProxyname
<1>6. ASSUME NEW c \in Conn, Close(c) PROVE LifeStep
  <2>1. CASE connection_table[c] = {}
    <3>1. \A r \in Request : request_table[r] # c
      BY <1>6, <2>1 DEF Close, RegistryInv, Listed
    <3> QED
      BY <1>6, <1>0, <2>1, <3>1, LifeLeave DEF Close
  <2>2. CASE connection_table[c] # {}
    BY <1>6, <2>2, LifeStutter DEF Close
  <2> QED
    BY <2>1, <2>2
<1>7. ASSUME NEW c \in Conn, NEW r \in Request, DropLookup(c, r) PROVE LifeStep
  BY <1>7, LifeStutter DEF DropLookup
<1>8. ASSUME NEW c \in Conn, DropRequestEntry(c) PROVE LifeStep
  BY <1>8, <1>0, LifeRemove DEF DropRequestEntry
<1>9. ASSUME NEW c \in Conn, DropService(c) PROVE LifeStep
  BY <1>9, LifeStutter DEF DropService
<1>10. ASSUME NEW c \in Conn, DropProxyname(c) PROVE LifeStep
  BY <1>10, LifeStutter DEF DropProxyname
<1>11. ASSUME NEW c \in Conn, IssueLock(c) PROVE LifeStep
  BY <1>11, LifeStutter DEF IssueLock
<1>12. ASSUME NEW c \in Conn, NEW p \in Proxy, IssueProxy(c, p) PROVE LifeStep
  BY <1>12, LifeStutter DEF IssueProxy
<1>13. ASSUME NEW c \in Conn, NEW r \in Request, IssueService(c, r) PROVE LifeStep
  BY <1>13, LifeStutter DEF IssueService
<1>14. ASSUME NEW c \in Conn, IssueProxyname(c) PROVE LifeStep
  BY <1>14, LifeStutter DEF IssueProxyname
<1>15. ASSUME NEW c \in Conn, IssueUnlock(c) PROVE LifeStep
  BY <1>15, LifeStutter DEF IssueUnlock
<1>16. ASSUME NEW c \in Conn, DropConnection(c) PROVE LifeStep
  <2>1. \A r \in Request : request_table[r] # c
    BY <1>16 DEF DropConnection, RegistryInv, Dropping, DropPc
  <2>2. session[c] # 0
    BY <1>16 DEF DropConnection, RegistryInv, BusyIsOpen
  <2> QED
    BY <1>16, <1>0, <2>1, <2>2, LifeLeave DEF DropConnection
<1>17. ASSUME NEW p \in Proxy, NEW S \in SUBSET Rid, NEW remove \in BOOLEAN,
             Answer(p, S, remove)
      PROVE LifeStep
  BY <1>17, LifeStutter DEF Answer
<1>18. ASSUME NEW p \in Proxy, NEW q \in Rid, NEW r \in Request,
             NEW remove \in BOOLEAN, AnswerClear(p, q, r, remove)
      PROVE LifeStep
  BY <1>18, LifeStutter DEF AnswerClear
<1>19. ASSUME NEW p \in Proxy, PurgeRequest(p) PROVE LifeStep
  BY <1>19, <1>0, LifeRemove DEF PurgeRequest
<1>20. ASSUME NEW p \in Proxy, PurgeConnection(p) PROVE LifeStep
  BY <1>20, LifeStutter DEF PurgeConnection
<1>21. ASSUME NEW p \in Proxy, PurgeProxyname(p) PROVE LifeStep
  BY <1>21, LifeStutter DEF PurgeProxyname
<1>22. ASSUME NEW p \in Proxy, PurgeService(p) PROVE LifeStep
  BY <1>22, LifeStutter DEF PurgeService
<1>23. ASSUME NEW p \in Proxy, NEW rid \in Rid, ReplyRequest(p, rid) PROVE LifeStep
  <2>1. CASE sb_remove[p]
    BY <1>23, <1>0, <2>1, LifeRemove DEF ReplyRequest
  <2>2. CASE ~ sb_remove[p]
    BY <1>23, <2>2, LifeStutter DEF ReplyRequest
  <2> QED
    BY <2>1, <2>2
<1>24. ASSUME NEW p \in Proxy, ReplyConnection(p) PROVE LifeStep
  BY <1>24, LifeStutter DEF ReplyConnection
<1>25. ASSUME NEW p \in Proxy, ReplyProxyname(p) PROVE LifeStep
  BY <1>25, LifeStutter DEF ReplyProxyname
<1>26. ASSUME NEW p \in Proxy, ReplyService(p) PROVE LifeStep
  BY <1>26, LifeStutter DEF ReplyService
<1>27. ASSUME NEW p \in Proxy, ReplyWrite(p) PROVE LifeStep
  BY <1>27, LifeStutter DEF ReplyWrite
<1>28. CASE TimeoutScan
  BY <1>28, LifeStutter DEF TimeoutScan
<1>29. ASSUME NEW r \in Request, TimeoutConn(r) PROVE LifeStep
  BY <1>29, LifeStutter DEF TimeoutConn
<1>30. CASE TimeoutReply
  BY <1>30, LifeStutter DEF TimeoutReply
<1>31. CASE TimeoutRequest
  BY <1>31, <1>0, LifeRemove DEF TimeoutRequest
<1>32. CASE TimeoutConnection
  BY <1>32, LifeStutter DEF TimeoutConnection
<1>33. CASE TimeoutService
  BY <1>33, LifeStutter DEF TimeoutService
<1>34. CASE TimeoutProxyname
  BY <1>34, LifeStutter DEF TimeoutProxyname
<1>35. ASSUME NEW r \in Request, TimePasses(r) PROVE LifeStep
  BY <1>35, LifeStutter DEF TimePasses
<1>36. ASSUME NEW p \in Proxy, NEW rid \in Rid, Dispatch(p, rid) PROVE LifeStep
  BY <1>36, LifeStutter DEF Dispatch
<1>37. ASSUME NEW p \in Proxy, ProxyLost(p) PROVE LifeStep
  BY <1>37, LifeStutter DEF ProxyLost
<1>38. CASE UNCHANGED vars
  BY <1>38, LifeStutter
<1>39. ASSUME NEW c \in Conn, RouteLock(c) PROVE LifeStep
  BY <1>39, LifeStutter DEF RouteLock
<1>40. ASSUME NEW c \in Conn, RouteSignal(c) PROVE LifeStep
  BY <1>40, LifeStutter DEF RouteSignal
<1>41. ASSUME NEW c \in Conn, IssueSignal(c) PROVE LifeStep
  BY <1>41, LifeStutter DEF IssueSignal
<1>42. CASE LocksStep
  BY <1>42, LifeStutter DEF LocksStep, TableTaken, TableLeft, ContextTaken, ContextLeft
<1> HIDE DEF vars, tables, world, outside, wsVars, sbVars, tmVars
<1> QED
  BY <1>1, <1>2, <1>3, <1>4, <1>5, <1>6, <1>7, <1>8, <1>9, <1>10, <1>11, <1>12, <1>13,
     <1>14, <1>15, <1>16, <1>17, <1>18, <1>19, <1>20, <1>21, <1>22, <1>23, <1>24, <1>25,
     <1>26, <1>27, <1>28, <1>29, <1>30, <1>31, <1>32, <1>33, <1>34, <1>35, <1>36, <1>37,
     <1>38, <1>39, <1>40, <1>41, <1>42 DEF Next, WsStep, SbStep, TmStep

\* The registry implements RequestLife for every value of the constants: a
\* request is opened once and finished once, and a connection leaves only when
\* every request it opened is finished.
THEOREM ImplementsLife == Spec => LifeSpec
<1>1. Init => Life!LifeInit
  BY DEF Init, Life!LifeInit
<1>2. Init => TypeInv /\ RegistryInv
  BY TypeInit, RegistryInit
<1>3. TypeInv /\ RegistryInv /\ [Next]_vars => (TypeInv /\ RegistryInv)'
  BY TypeStep, RegistryStep
<1>4. TypeInv /\ RegistryInv /\ [Next]_vars => [Life!LifeNext]_(Life!lifeVars)
  BY LifeImplemented DEF LifeStep
<1> QED
  BY <1>1, <1>2, <1>3, <1>4, PTL DEF Spec, LifeSpec, Life!LifeSpec

-----------------------------------------------------------------------------
(***************************************************************************)
(* The inductive invariant behind DropAfterRequest.                        *)
(***************************************************************************)
\* No two connections serve the same session.
SessionsDiffer ==
    \A c, d \in Conn :
        /\ session[c] <= last_session
        /\ c # d /\ session[c] = session[d] => session[c] = 0

\* What a worker routes, has listed or drops, its own session has submitted.
Owned ==
    \A c \in Conn, r \in Request :
        \/ r \in connection_table[c]
        \/ ws_pc[c] \in DropPc /\ r \in ws_todo[c]
        \/ ws_pc[c] \in RoutePc \union {"drop_request", "drop_service", "drop_proxyname"}
              /\ ws_rid[c] = r
        => session[c] # 0 /\ owner[r] = session[c]

\* The request was submitted, and is in no proxy's list nor on its way there.
Withdrawn(r) ==
    /\ owner[r] # 0
    /\ \A p \in Proxy : r \notin proxyname_table[p]
    /\ \A c \in Conn : ws_pc[c] \in RoutePc => ws_rid[c] # r

\* From the private table of drop_conn to the proxy, a drop goes for a request
\* that is withdrawn, once the step that withdraws it is done.
DropsWithdrawn ==
    /\ \A c \in Conn, p \in Proxy : \A r \in ws_drops[c][p] :
          \/ Withdrawn(r)
          \/ ws_pc[c] \in {"drop_request", "drop_service", "drop_proxyname"} /\ ws_rid[c] = r
    /\ \A c \in Conn : ws_pc[c] \in {"issue_service", "issue_proxyname"} =>
          \A r \in ws_todo[c] : Withdrawn(r)
    /\ \A c \in Conn : ws_pc[c] = "issue_proxyname" => Withdrawn(ws_rid[c])
    /\ \A r \in Request, p \in Proxy :
          DropId(r) \in proxyname_table[p] \union held[p] => Withdrawn(r)

DropInv == SessionsDiffer /\ Owned /\ DropsWithdrawn

\* Drop requests have rids of their own.
LEMMA DropIds == /\ \A r \in Request : DropId(r) \notin Request
                 /\ \A r, s \in Request : DropId(r) = DropId(s) => r = s
BY DropIdAssumption DEF DropRequest, DropId

\* Who has what to do with a request stays its session's.
LEMMA OwnedStep ==
    ASSUME TypeInv, BusyIsOpen, SessionsDiffer, Owned, [Next]_vars
    PROVE (SessionsDiffer /\ Owned)'
<1>0. /\ connection_table \in [Conn -> SUBSET Request]
      /\ proxyname_table \in [Proxy -> SUBSET Rid]
      /\ session \in [Conn -> Nat] /\ last_session \in Nat
      /\ owner \in [Request -> Nat]
      /\ held \in [Proxy -> SUBSET Rid]
      /\ ws_pc \in [Conn -> WsPc]
      /\ ws_rid \in [Conn -> Request \union {NoRequest}]
      /\ ws_todo \in [Conn -> SUBSET Request]
      /\ ws_drops \in [Conn -> [Proxy -> SUBSET Request]]
      /\ ws_proxy \in [Conn -> Proxy \union {NoProxy}]
      /\ LocalsSet
  BY BoundAssumption DEF TypeInv, TypeOK
<1> USE <1>0 DEF SessionsDiffer, Owned, BusyIsOpen, LocalsSet,
        WsPc, RoutePc, DropPc, SignalPc, Issuing, vars, tables, world, outside,
        wsVars, sbVars, tmVars
<1>1. ASSUME NEW c \in Conn, Connect(c) PROVE (SessionsDiffer /\ Owned)'
  BY <1>1 DEF Connect
<1>2. ASSUME NEW c \in Conn, NEW r \in Request, NEW p \in Proxy, Route(c, r, p)
      PROVE (SessionsDiffer /\ Owned)'
  BY <1>2 DEF Route
<1>3. ASSUME NEW c \in Conn, RouteConnection(c) PROVE (SessionsDiffer /\ Owned)'
  BY <1>3 DEF RouteConnection
<1>4. ASSUME NEW c \in Conn, RouteService(c) PROVE (SessionsDiffer /\ Owned)'
  BY <1>4 DEF RouteService
<1>5. ASSUME NEW c \in Conn, RouteProxyname(c) PROVE (SessionsDiffer /\ Owned)'
  BY <1>5 DEF RouteProxyname, proxyname_table_set
<1>6. ASSUME NEW c \in Conn, Close(c) PROVE (SessionsDiffer /\ Owned)'
  <2>1. CASE connection_table[c] = {}
    <3>1. /\ session' = [session EXCEPT ![c] = 0] /\ UNCHANGED <<ws_pc, ws_todo>>
          /\ UNCHANGED <<connection_table, proxyname_table, last_session, owner, held,
                         ws_rid, ws_drops>>
          /\ ws_pc[c] = "idle"
      BY <1>6, <2>1, Zenon DEF Close
    <3> QED
      BY <3>1, <2>1
  <2>2. CASE connection_table[c] # {}
    <3>1. /\ ws_todo' = [ws_todo EXCEPT ![c] = connection_table[c]]
          /\ ws_pc' = [ws_pc EXCEPT ![c] = "drop_next"]
          /\ UNCHANGED <<connection_table, proxyname_table, session, last_session,
                         owner, held, ws_rid, ws_drops>>
          /\ ws_pc[c] = "idle"
      BY <1>6, <2>2, Zenon DEF Close
    <3> QED
      BY <3>1, <2>2
  <2> QED
    BY <2>1, <2>2
<1>7. ASSUME NEW c \in Conn, NEW r \in Request, DropLookup(c, r)
      PROVE (SessionsDiffer /\ Owned)'
  BY <1>7 DEF DropLookup
<1>8. ASSUME NEW c \in Conn, DropRequestEntry(c) PROVE (SessionsDiffer /\ Owned)'
  BY <1>8 DEF DropRequestEntry, request_table_remove
<1>9. ASSUME NEW c \in Conn, DropService(c) PROVE (SessionsDiffer /\ Owned)'
  BY <1>9 DEF DropService, service_table_remove
<1>10. ASSUME NEW c \in Conn, DropProxyname(c) PROVE (SessionsDiffer /\ Owned)'
  BY <1>10 DEF DropProxyname, proxyname_table_drop_all
<1>11. ASSUME NEW c \in Conn, IssueLock(c) PROVE (SessionsDiffer /\ Owned)'
  BY <1>11 DEF IssueLock
<1>12. ASSUME NEW c \in Conn, NEW p \in Proxy, IssueProxy(c, p)
      PROVE (SessionsDiffer /\ Owned)'
  BY <1>12 DEF IssueProxy
<1>13. ASSUME NEW c \in Conn, NEW r \in Request, IssueService(c, r)
      PROVE (SessionsDiffer /\ Owned)'
  BY <1>13 DEF IssueService
<1>14. ASSUME NEW c \in Conn, IssueProxyname(c) PROVE (SessionsDiffer /\ Owned)'
  BY <1>14 DEF IssueProxyname, proxyname_table_set
<1>15. ASSUME NEW c \in Conn, IssueUnlock(c) PROVE (SessionsDiffer /\ Owned)'
  BY <1>15 DEF IssueUnlock, NoDrops
<1>16. ASSUME NEW c \in Conn, DropConnection(c) PROVE (SessionsDiffer /\ Owned)'
  BY <1>16 DEF DropConnection
<1>17. ASSUME NEW p \in Proxy, NEW S \in SUBSET Rid, NEW remove \in BOOLEAN,
             Answer(p, S, remove)
      PROVE (SessionsDiffer /\ Owned)'
  BY <1>17 DEF Answer
<1>18. ASSUME NEW p \in Proxy, NEW q \in Rid, NEW r \in Request,
             NEW remove \in BOOLEAN, AnswerClear(p, q, r, remove)
      PROVE (SessionsDiffer /\ Owned)'
  BY <1>18 DEF AnswerClear
<1>19. ASSUME NEW p \in Proxy, PurgeRequest(p) PROVE (SessionsDiffer /\ Owned)'
  BY <1>19 DEF PurgeRequest, request_table_remove
<1>20. ASSUME NEW p \in Proxy, PurgeConnection(p) PROVE (SessionsDiffer /\ Owned)'
  BY <1>20 DEF PurgeConnection, connection_table_drop
<1>21. ASSUME NEW p \in Proxy, PurgeProxyname(p) PROVE (SessionsDiffer /\ Owned)'
  BY <1>21 DEF PurgeProxyname, proxyname_table_drop_all
<1>22. ASSUME NEW p \in Proxy, PurgeService(p) PROVE (SessionsDiffer /\ Owned)'
  BY <1>22 DEF PurgeService, service_table_remove
<1>23. ASSUME NEW p \in Proxy, NEW rid \in Rid, ReplyRequest(p, rid)
      PROVE (SessionsDiffer /\ Owned)'
  BY <1>23 DEF ReplyRequest, request_table_remove
<1>24. ASSUME NEW p \in Proxy, ReplyConnection(p) PROVE (SessionsDiffer /\ Owned)'
  BY <1>24 DEF ReplyConnection, connection_table_drop
<1>25. ASSUME NEW p \in Proxy, ReplyProxyname(p) PROVE (SessionsDiffer /\ Owned)'
  BY <1>25 DEF ReplyProxyname, proxyname_table_drop
<1>26. ASSUME NEW p \in Proxy, ReplyService(p) PROVE (SessionsDiffer /\ Owned)'
  BY <1>26 DEF ReplyService, service_table_remove
<1>27. ASSUME NEW p \in Proxy, ReplyWrite(p) PROVE (SessionsDiffer /\ Owned)'
  BY <1>27 DEF ReplyWrite
<1>28. CASE TimeoutScan
  BY <1>28 DEF TimeoutScan
<1>29. ASSUME NEW r \in Request, TimeoutConn(r) PROVE (SessionsDiffer /\ Owned)'
  BY <1>29 DEF TimeoutConn
<1>30. CASE TimeoutReply
  BY <1>30 DEF TimeoutReply
<1>31. CASE TimeoutRequest
  BY <1>31 DEF TimeoutRequest, request_table_remove
<1>32. CASE TimeoutConnection
  <2>1. /\ \A d \in Conn : connection_table'[d] \subseteq connection_table[d]
        /\ UNCHANGED <<session, last_session, owner, ws_pc, ws_rid, ws_todo>>
    <3>1. CASE UNCHANGED connection_table
      BY <1>32, <3>1 DEF TimeoutConnection
    <3>2. CASE connection_table_drop(tm_conn, tm_rid)
      BY <1>32, <3>2 DEF TimeoutConnection, connection_table_drop
    <3> QED
      BY <1>32, <3>1, <3>2, Zenon DEF TimeoutConnection
  <2> QED
    BY <2>1
<1>33. CASE TimeoutService
  BY <1>33 DEF TimeoutService, service_table_remove
<1>34. CASE TimeoutProxyname
  BY <1>34 DEF TimeoutProxyname, proxyname_table_drop_all
<1>35. ASSUME NEW r \in Request, TimePasses(r) PROVE (SessionsDiffer /\ Owned)'
  BY <1>35 DEF TimePasses
<1>36. ASSUME NEW p \in Proxy, NEW rid \in Rid, Dispatch(p, rid)
      PROVE (SessionsDiffer /\ Owned)'
  BY <1>36 DEF Dispatch
<1>37. ASSUME NEW p \in Proxy, ProxyLost(p) PROVE (SessionsDiffer /\ Owned)'
  BY <1>37 DEF ProxyLost
<1>38. CASE UNCHANGED vars
  BY <1>38
<1>39. ASSUME NEW c \in Conn, RouteLock(c) PROVE (SessionsDiffer /\ Owned)'
  BY <1>39 DEF RouteLock
<1>40. ASSUME NEW c \in Conn, RouteSignal(c) PROVE (SessionsDiffer /\ Owned)'
  BY <1>40 DEF RouteSignal
<1>41. ASSUME NEW c \in Conn, IssueSignal(c) PROVE (SessionsDiffer /\ Owned)'
  BY <1>41 DEF IssueSignal
<1>42. CASE LocksStep
  BY <1>42 DEF LocksStep, TableTaken, TableLeft, ContextTaken, ContextLeft
<1> HIDE <1>0 DEF SessionsDiffer, Owned, BusyIsOpen, LocalsSet,
        WsPc, RoutePc, DropPc, SignalPc, Issuing, vars, tables, world, outside,
        wsVars, sbVars, tmVars
<1> QED
  BY <1>1, <1>2, <1>3, <1>4, <1>5, <1>6, <1>7, <1>8, <1>9, <1>10, <1>11, <1>12, <1>13,
     <1>14, <1>15, <1>16, <1>17, <1>18, <1>19, <1>20, <1>21, <1>22, <1>23, <1>24, <1>25,
     <1>26, <1>27, <1>28, <1>29, <1>30, <1>31, <1>32, <1>33, <1>34, <1>35, <1>36, <1>37,
     <1>38, <1>39, <1>40, <1>41, <1>42 DEF Next, WsStep, SbStep, TmStep

\* A request that is withdrawn stays so: its rid is not used again.
LEMMA WithdrawnStep ==
    ASSUME TypeInv, NEW s \in Request, Withdrawn(s), [Next]_vars PROVE Withdrawn(s)'
<1>0. /\ connection_table \in [Conn -> SUBSET Request]
      /\ proxyname_table \in [Proxy -> SUBSET Rid]
      /\ session \in [Conn -> Nat] /\ last_session \in Nat
      /\ owner \in [Request -> Nat]
      /\ held \in [Proxy -> SUBSET Rid]
      /\ ws_pc \in [Conn -> WsPc]
      /\ ws_rid \in [Conn -> Request \union {NoRequest}]
      /\ ws_todo \in [Conn -> SUBSET Request]
      /\ ws_drops \in [Conn -> [Proxy -> SUBSET Request]]
      /\ ws_proxy \in [Conn -> Proxy \union {NoProxy}]
      /\ LocalsSet
  BY BoundAssumption DEF TypeInv, TypeOK
<1> USE <1>0, DropIds DEF Withdrawn, LocalsSet,
        WsPc, RoutePc, DropPc, SignalPc, Issuing, vars, tables, world, outside,
        wsVars, sbVars, tmVars
<1>1. ASSUME NEW c \in Conn, Connect(c) PROVE Withdrawn(s)'
  BY <1>1 DEF Connect
<1>2. ASSUME NEW c \in Conn, NEW r \in Request, NEW p \in Proxy, Route(c, r, p)
      PROVE Withdrawn(s)'
  BY <1>2 DEF Route
<1>3. ASSUME NEW c \in Conn, RouteConnection(c) PROVE Withdrawn(s)'
  BY <1>3 DEF RouteConnection
<1>4. ASSUME NEW c \in Conn, RouteService(c) PROVE Withdrawn(s)'
  BY <1>4 DEF RouteService
<1>5. ASSUME NEW c \in Conn, RouteProxyname(c) PROVE Withdrawn(s)'
  BY <1>5 DEF RouteProxyname, proxyname_table_set
<1>6. ASSUME NEW c \in Conn, Close(c) PROVE Withdrawn(s)'
  BY <1>6 DEF Close
<1>7. ASSUME NEW c \in Conn, NEW r \in Request, DropLookup(c, r) PROVE Withdrawn(s)'
  BY <1>7 DEF DropLookup
<1>8. ASSUME NEW c \in Conn, DropRequestEntry(c) PROVE Withdrawn(s)'
  BY <1>8 DEF DropRequestEntry, request_table_remove
<1>9. ASSUME NEW c \in Conn, DropService(c) PROVE Withdrawn(s)'
  BY <1>9 DEF DropService, service_table_remove
<1>10. ASSUME NEW c \in Conn, DropProxyname(c) PROVE Withdrawn(s)'
  BY <1>10 DEF DropProxyname, proxyname_table_drop_all
<1>11. ASSUME NEW c \in Conn, IssueLock(c) PROVE Withdrawn(s)'
  BY <1>11 DEF IssueLock
<1>12. ASSUME NEW c \in Conn, NEW p \in Proxy, IssueProxy(c, p) PROVE Withdrawn(s)'
  BY <1>12 DEF IssueProxy
<1>13. ASSUME NEW c \in Conn, NEW r \in Request, IssueService(c, r) PROVE Withdrawn(s)'
  BY <1>13 DEF IssueService
<1>14. ASSUME NEW c \in Conn, IssueProxyname(c) PROVE Withdrawn(s)'
  BY <1>14 DEF IssueProxyname, proxyname_table_set
<1>15. ASSUME NEW c \in Conn, IssueUnlock(c) PROVE Withdrawn(s)'
  BY <1>15 DEF IssueUnlock, NoDrops
<1>16. ASSUME NEW c \in Conn, DropConnection(c) PROVE Withdrawn(s)'
  BY <1>16 DEF DropConnection
<1>17. ASSUME NEW p \in Proxy, NEW S \in SUBSET Rid, NEW remove \in BOOLEAN,
             Answer(p, S, remove)
      PROVE Withdrawn(s)'
  BY <1>17 DEF Answer
<1>18. ASSUME NEW p \in Proxy, NEW q \in Rid, NEW r \in Request,
             NEW remove \in BOOLEAN, AnswerClear(p, q, r, remove)
      PROVE Withdrawn(s)'
  BY <1>18 DEF AnswerClear
<1>19. ASSUME NEW p \in Proxy, PurgeRequest(p) PROVE Withdrawn(s)'
  BY <1>19 DEF PurgeRequest, request_table_remove
<1>20. ASSUME NEW p \in Proxy, PurgeConnection(p) PROVE Withdrawn(s)'
  BY <1>20 DEF PurgeConnection, connection_table_drop
<1>21. ASSUME NEW p \in Proxy, PurgeProxyname(p) PROVE Withdrawn(s)'
  BY <1>21 DEF PurgeProxyname, proxyname_table_drop_all
<1>22. ASSUME NEW p \in Proxy, PurgeService(p) PROVE Withdrawn(s)'
  BY <1>22 DEF PurgeService, service_table_remove
<1>23. ASSUME NEW p \in Proxy, NEW rid \in Rid, ReplyRequest(p, rid) PROVE Withdrawn(s)'
  BY <1>23 DEF ReplyRequest, request_table_remove
<1>24. ASSUME NEW p \in Proxy, ReplyConnection(p) PROVE Withdrawn(s)'
  BY <1>24 DEF ReplyConnection, connection_table_drop
<1>25. ASSUME NEW p \in Proxy, ReplyProxyname(p) PROVE Withdrawn(s)'
  BY <1>25 DEF ReplyProxyname, proxyname_table_drop
<1>26. ASSUME NEW p \in Proxy, ReplyService(p) PROVE Withdrawn(s)'
  BY <1>26 DEF ReplyService, service_table_remove
<1>27. ASSUME NEW p \in Proxy, ReplyWrite(p) PROVE Withdrawn(s)'
  BY <1>27 DEF ReplyWrite
<1>28. CASE TimeoutScan
  BY <1>28 DEF TimeoutScan
<1>29. ASSUME NEW r \in Request, TimeoutConn(r) PROVE Withdrawn(s)'
  BY <1>29 DEF TimeoutConn
<1>30. CASE TimeoutReply
  BY <1>30 DEF TimeoutReply
<1>31. CASE TimeoutRequest
  BY <1>31 DEF TimeoutRequest, request_table_remove
<1>32. CASE TimeoutConnection
  BY <1>32 DEF TimeoutConnection, connection_table_drop
<1>33. CASE TimeoutService
  BY <1>33 DEF TimeoutService, service_table_remove
<1>34. CASE TimeoutProxyname
  BY <1>34 DEF TimeoutProxyname, proxyname_table_drop_all
<1>35. ASSUME NEW r \in Request, TimePasses(r) PROVE Withdrawn(s)'
  BY <1>35 DEF TimePasses
<1>36. ASSUME NEW p \in Proxy, NEW rid \in Rid, Dispatch(p, rid) PROVE Withdrawn(s)'
  BY <1>36 DEF Dispatch
<1>37. ASSUME NEW p \in Proxy, ProxyLost(p) PROVE Withdrawn(s)'
  BY <1>37 DEF ProxyLost
<1>38. CASE UNCHANGED vars
  BY <1>38
<1>39. ASSUME NEW c \in Conn, RouteLock(c) PROVE Withdrawn(s)'
  BY <1>39 DEF RouteLock
<1>40. ASSUME NEW c \in Conn, RouteSignal(c) PROVE Withdrawn(s)'
  BY <1>40 DEF RouteSignal
<1>41. ASSUME NEW c \in Conn, IssueSignal(c) PROVE Withdrawn(s)'
  BY <1>41 DEF IssueSignal
<1>42. CASE LocksStep
  BY <1>42 DEF LocksStep, TableTaken, TableLeft, ContextTaken, ContextLeft
<1> HIDE <1>0 DEF Withdrawn, LocalsSet,
        WsPc, RoutePc, DropPc, SignalPc, Issuing, vars, tables, world, outside,
        wsVars, sbVars, tmVars
<1> QED
  BY <1>1, <1>2, <1>3, <1>4, <1>5, <1>6, <1>7, <1>8, <1>9, <1>10, <1>11, <1>12, <1>13,
     <1>14, <1>15, <1>16, <1>17, <1>18, <1>19, <1>20, <1>21, <1>22, <1>23, <1>24, <1>25,
     <1>26, <1>27, <1>28, <1>29, <1>30, <1>31, <1>32, <1>33, <1>34, <1>35, <1>36, <1>37,
     <1>38, <1>39, <1>40, <1>41, <1>42 DEF Next, WsStep, SbStep, TmStep

\* Whoever issues a drop has withdrawn its request.
LEMMA DropsStep ==
    ASSUME TypeInv, SessionsDiffer, Owned, DropsWithdrawn, [Next]_vars
    PROVE DropsWithdrawn'
<1>0. /\ connection_table \in [Conn -> SUBSET Request]
      /\ proxyname_table \in [Proxy -> SUBSET Rid]
      /\ session \in [Conn -> Nat] /\ last_session \in Nat
      /\ owner \in [Request -> Nat]
      /\ held \in [Proxy -> SUBSET Rid]
      /\ ws_pc \in [Conn -> WsPc]
      /\ ws_rid \in [Conn -> Request \union {NoRequest}]
      /\ ws_todo \in [Conn -> SUBSET Request]
      /\ ws_drops \in [Conn -> [Proxy -> SUBSET Request]]
      /\ ws_proxy \in [Conn -> Proxy \union {NoProxy}]
      /\ LocalsSet
  BY BoundAssumption DEF TypeInv, TypeOK
<1>a. \A s \in Request : Withdrawn(s) => Withdrawn(s)'
  BY WithdrawnStep
<1> USE <1>0, DropIds, <1>a DEF DropsWithdrawn, LocalsSet,
        WsPc, RoutePc, DropPc, SignalPc, Issuing, vars, tables, world, outside,
        wsVars, sbVars, tmVars
<1>1. ASSUME NEW c \in Conn, Connect(c) PROVE DropsWithdrawn'
  BY <1>1 DEF Connect
<1>2. ASSUME NEW c \in Conn, NEW r \in Request, NEW p \in Proxy, Route(c, r, p)
      PROVE DropsWithdrawn'
  BY <1>2 DEF Route
<1>3. ASSUME NEW c \in Conn, RouteConnection(c) PROVE DropsWithdrawn'
  BY <1>3 DEF RouteConnection
<1>4. ASSUME NEW c \in Conn, RouteService(c) PROVE DropsWithdrawn'
  BY <1>4 DEF RouteService
<1>5. ASSUME NEW c \in Conn, RouteProxyname(c) PROVE DropsWithdrawn'
  BY <1>5 DEF RouteProxyname, proxyname_table_set
<1>6. ASSUME NEW c \in Conn, Close(c) PROVE DropsWithdrawn'
  <2>1. CASE connection_table[c] = {}
    <3>1. /\ session' = [session EXCEPT ![c] = 0] /\ UNCHANGED <<ws_pc, ws_todo>>
          /\ UNCHANGED <<connection_table, proxyname_table, last_session, owner, held,
                         ws_rid, ws_drops>>
          /\ ws_pc[c] = "idle"
      BY <1>6, <2>1, Zenon DEF Close
    <3> QED
      BY <3>1, <2>1
  <2>2. CASE connection_table[c] # {}
    <3>1. /\ ws_todo' = [ws_todo EXCEPT ![c] = connection_table[c]]
          /\ ws_pc' = [ws_pc EXCEPT ![c] = "drop_next"]
          /\ UNCHANGED <<connection_table, proxyname_table, session, last_session,
                         owner, held, ws_rid, ws_drops>>
          /\ ws_pc[c] = "idle"
      BY <1>6, <2>2, Zenon DEF Close
    <3> QED
      BY <3>1, <2>2
  <2> QED
    BY <2>1, <2>2
<1>7. ASSUME NEW c \in Conn, NEW r \in Request, DropLookup(c, r) PROVE DropsWithdrawn'
  BY <1>7 DEF DropLookup
<1>8. ASSUME NEW c \in Conn, DropRequestEntry(c) PROVE DropsWithdrawn'
  BY <1>8 DEF DropRequestEntry, request_table_remove
<1>9. ASSUME NEW c \in Conn, DropService(c) PROVE DropsWithdrawn'
  BY <1>9 DEF DropService, service_table_remove
<1>10. ASSUME NEW c \in Conn, DropProxyname(c) PROVE DropsWithdrawn'
  <2>1. ws_pc[c] = "drop_proxyname" /\ ws_rid[c] \in Request
    BY <1>10 DEF DropProxyname
  <2>a. PICK s \in Request : s = ws_rid[c]
    BY <2>1
  <2>2. Withdrawn(s)'
    <3>1. session[c] # 0 /\ owner[s] = session[c]
      BY <2>1, <2>a, Zenon DEF Owned
    <3>2. \A d \in Conn : ws_pc[d] \in RoutePc => ws_rid[d] # s
      <4> SUFFICES ASSUME NEW d \in Conn, ws_pc[d] \in RoutePc, ws_rid[d] = s PROVE FALSE
        OBVIOUS
      <4>1. owner[s] = session[d]
        BY Zenon DEF Owned
      <4>2. d # c
        BY <2>1
      <4> QED
        BY <3>1, <4>1, <4>2, Zenon DEF SessionsDiffer
    <3>3. owner'[s] # 0
      BY <1>10, <3>1 DEF DropProxyname
    <3>4. \A p \in Proxy : s \notin proxyname_table'[p]
      BY <1>10, <2>a DEF DropProxyname, proxyname_table_drop_all
    <3>5. \A d \in Conn : ws_pc'[d] \in RoutePc => ws_rid'[d] # s
      BY <1>10, <3>2 DEF DropProxyname
    <3> QED
      BY <3>3, <3>4, <3>5 DEF Withdrawn
  <2>3. \A d \in Conn, p \in Proxy : \A r \in ws_drops[d][p] :
           \/ Withdrawn(r)'
           \/ d # c /\ ws_pc[d] \in {"drop_request", "drop_service",
               "drop_proxyname"} /\ ws_rid[d] = r
    BY <2>1, <2>2, <2>a
  <2>4. /\ ws_pc' = [ws_pc EXCEPT ![c] = "drop_next"]
        /\ ws_rid' = [ws_rid EXCEPT ![c] = NoRequest]
        /\ \A p \in Proxy : proxyname_table'[p] \subseteq proxyname_table[p]
        /\ UNCHANGED <<held, ws_todo, ws_drops>>
    BY <1>10 DEF DropProxyname, proxyname_table_drop_all
  <2>5. \A d \in Conn, p \in Proxy : \A r \in ws_drops'[d][p] :
           \/ Withdrawn(r)'
           \/ /\ ws_pc'[d] \in {"drop_request", "drop_service", "drop_proxyname"}
              /\ ws_rid'[d] = r
    BY <2>3, <2>4
  <2>6. /\ \A d \in Conn : ws_pc'[d] \in {"issue_service", "issue_proxyname"} =>
              \A r \in ws_todo'[d] : Withdrawn(r)'
        /\ \A r \in Request, p \in Proxy :
              DropId(r) \in proxyname_table'[p] \union held'[p] => Withdrawn(r)'
    BY <2>4
  <2>7. \A d \in Conn : ws_pc'[d] = "issue_proxyname" => Withdrawn(ws_rid[d])'
    BY <2>4
  <2> QED
    BY <2>5, <2>6, <2>7
<1>11. ASSUME NEW c \in Conn, IssueLock(c) PROVE DropsWithdrawn'
  BY <1>11 DEF IssueLock
<1>12. ASSUME NEW c \in Conn, NEW p \in Proxy, IssueProxy(c, p) PROVE DropsWithdrawn'
  <2>1. CASE UNCHANGED <<ws_pc, ws_proxy, ws_todo>>
    BY <1>12, <2>1 DEF IssueProxy
  <2>2. CASE /\ ws_todo' = [ws_todo EXCEPT ![c] = ws_drops[c][p]]
             /\ ws_pc' = [ws_pc EXCEPT ![c] = "issue_service"]
    <3>1. /\ ws_drops' = [ws_drops EXCEPT ![c] = [ws_drops[c] EXCEPT ![p] = {}]]
          /\ ws_pc[c] = "issue_next"
          /\ UNCHANGED <<proxyname_table, held, ws_rid>>
      BY <1>12, Zenon DEF IssueProxy
    <3>2. \A r \in ws_drops[c][p] : r \in Request /\ Withdrawn(r)
      <4> SUFFICES ASSUME NEW r \in ws_drops[c][p] PROVE r \in Request /\ Withdrawn(r)
        OBVIOUS
      <4>1. r \in Request
        OBVIOUS
      <4>2. \/ Withdrawn(r)
            \/ ws_pc[c] \in {"drop_request", "drop_service", "drop_proxyname"}
        BY Zenon DEF DropsWithdrawn
      <4> QED
        BY <3>1, <4>1, <4>2
    <3>3. \A r \in ws_drops[c][p] : Withdrawn(r)'
      BY <3>2, <1>a, Zenon
    <3> QED
      BY <2>2, <3>1, <3>3
  <2> QED
    BY <1>12, <2>1, <2>2, Zenon DEF IssueProxy
<1>13. ASSUME NEW c \in Conn, NEW r \in Request, IssueService(c, r) PROVE DropsWithdrawn'
  BY <1>13 DEF IssueService
<1>14. ASSUME NEW c \in Conn, IssueProxyname(c) PROVE DropsWithdrawn'
  BY <1>14 DEF IssueProxyname, proxyname_table_set
<1>15. ASSUME NEW c \in Conn, IssueUnlock(c) PROVE DropsWithdrawn'
  BY <1>15 DEF IssueUnlock, NoDrops
<1>16. ASSUME NEW c \in Conn, DropConnection(c) PROVE DropsWithdrawn'
  BY <1>16 DEF DropConnection
<1>17. ASSUME NEW p \in Proxy, NEW S \in SUBSET Rid, NEW remove \in BOOLEAN,
             Answer(p, S, remove)
      PROVE DropsWithdrawn'
  BY <1>17 DEF Answer
<1>18. ASSUME NEW p \in Proxy, NEW q \in Rid, NEW r \in Request,
             NEW remove \in BOOLEAN, AnswerClear(p, q, r, remove)
      PROVE DropsWithdrawn'
  BY <1>18 DEF AnswerClear
<1>19. ASSUME NEW p \in Proxy, PurgeRequest(p) PROVE DropsWithdrawn'
  BY <1>19 DEF PurgeRequest, request_table_remove
<1>20. ASSUME NEW p \in Proxy, PurgeConnection(p) PROVE DropsWithdrawn'
  BY <1>20 DEF PurgeConnection, connection_table_drop
<1>21. ASSUME NEW p \in Proxy, PurgeProxyname(p) PROVE DropsWithdrawn'
  BY <1>21 DEF PurgeProxyname, proxyname_table_drop_all
<1>22. ASSUME NEW p \in Proxy, PurgeService(p) PROVE DropsWithdrawn'
  BY <1>22 DEF PurgeService, service_table_remove
<1>23. ASSUME NEW p \in Proxy, NEW rid \in Rid, ReplyRequest(p, rid) PROVE DropsWithdrawn'
  BY <1>23 DEF ReplyRequest, request_table_remove
<1>24. ASSUME NEW p \in Proxy, ReplyConnection(p) PROVE DropsWithdrawn'
  BY <1>24 DEF ReplyConnection, connection_table_drop
<1>25. ASSUME NEW p \in Proxy, ReplyProxyname(p) PROVE DropsWithdrawn'
  BY <1>25 DEF ReplyProxyname, proxyname_table_drop
<1>26. ASSUME NEW p \in Proxy, ReplyService(p) PROVE DropsWithdrawn'
  BY <1>26 DEF ReplyService, service_table_remove
<1>27. ASSUME NEW p \in Proxy, ReplyWrite(p) PROVE DropsWithdrawn'
  BY <1>27 DEF ReplyWrite
<1>28. CASE TimeoutScan
  BY <1>28 DEF TimeoutScan
<1>29. ASSUME NEW r \in Request, TimeoutConn(r) PROVE DropsWithdrawn'
  BY <1>29 DEF TimeoutConn
<1>30. CASE TimeoutReply
  BY <1>30 DEF TimeoutReply
<1>31. CASE TimeoutRequest
  BY <1>31 DEF TimeoutRequest, request_table_remove
<1>32. CASE TimeoutConnection
  BY <1>32 DEF TimeoutConnection, connection_table_drop
<1>33. CASE TimeoutService
  BY <1>33 DEF TimeoutService, service_table_remove
<1>34. CASE TimeoutProxyname
  BY <1>34 DEF TimeoutProxyname, proxyname_table_drop_all
<1>35. ASSUME NEW r \in Request, TimePasses(r) PROVE DropsWithdrawn'
  BY <1>35 DEF TimePasses
<1>36. ASSUME NEW p \in Proxy, NEW rid \in Rid, Dispatch(p, rid) PROVE DropsWithdrawn'
  BY <1>36 DEF Dispatch
<1>37. ASSUME NEW p \in Proxy, ProxyLost(p) PROVE DropsWithdrawn'
  BY <1>37 DEF ProxyLost
<1>38. CASE UNCHANGED vars
  BY <1>38
<1>39. ASSUME NEW c \in Conn, RouteLock(c) PROVE DropsWithdrawn'
  <2>1. \A s \in Request : Withdrawn(s) => Withdrawn(s)'
    BY <1>39 DEF RouteLock, Withdrawn
  <2>2. /\ \A d \in Conn : ws_pc'[d] \in {"issue_service", "issue_proxyname", "drop_request",
                                       "drop_service", "drop_proxyname"}
                         => ws_pc'[d] = ws_pc[d]
        /\ UNCHANGED <<proxyname_table, held, ws_rid, ws_todo, ws_drops>>
        /\ \A d \in Conn : ws_pc[d] \in {"issue_service", "issue_proxyname", "drop_request",
                                       "drop_service", "drop_proxyname"}
                         => ws_pc'[d] = ws_pc[d]
    BY <1>39 DEF RouteLock
  <2> HIDE DEF Withdrawn
  <2> QED
    BY <2>1, <2>2
<1>40. ASSUME NEW c \in Conn, RouteSignal(c) PROVE DropsWithdrawn'
  BY <1>40 DEF RouteSignal
<1>41. ASSUME NEW c \in Conn, IssueSignal(c) PROVE DropsWithdrawn'
  BY <1>41 DEF IssueSignal
<1>42. CASE LocksStep
  BY <1>42 DEF LocksStep, TableTaken, TableLeft, ContextTaken, ContextLeft
<1> HIDE <1>0 DEF DropsWithdrawn, LocalsSet,
        WsPc, RoutePc, DropPc, SignalPc, Issuing, vars, tables, world, outside,
        wsVars, sbVars, tmVars
<1> QED
  BY <1>1, <1>2, <1>3, <1>4, <1>5, <1>6, <1>7, <1>8, <1>9, <1>10, <1>11, <1>12, <1>13,
     <1>14, <1>15, <1>16, <1>17, <1>18, <1>19, <1>20, <1>21, <1>22, <1>23, <1>24, <1>25,
     <1>26, <1>27, <1>28, <1>29, <1>30, <1>31, <1>32, <1>33, <1>34, <1>35, <1>36, <1>37,
     <1>38, <1>39, <1>40, <1>41, <1>42 DEF Next, WsStep, SbStep, TmStep

\* The invariant holds in every behaviour, with the types and NoDanglingRequest.
LEMMA DropInvHolds == Spec => [](TypeInv /\ RegistryInv /\ DropInv)
<1>1. Init => TypeInv /\ RegistryInv
  BY TypeInit, RegistryInit
<1>2. Init => DropInv
  BY DropIds
     DEF Init, DropInv, SessionsDiffer, Owned, DropsWithdrawn, NoDrops, RoutePc, DropPc
<1>3. TypeInv /\ RegistryInv /\ DropInv /\ [Next]_vars => (TypeInv /\ RegistryInv /\ DropInv)'
  BY TypeStep, RegistryStep, OwnedStep, DropsStep DEF DropInv, RegistryInv
<1> QED
  BY <1>1, <1>2, <1>3, PTL DEF Spec

\* For any number of connections, proxies and requests: when the drop of a
\* request is in a proxy's list or in its hands, the request is in no list
\* (clientservice.c:183-216).
THEOREM DropsFollow == Spec => []DropAfterRequest
<1>1. DropInv => DropAfterRequest
  BY DEF DropInv, DropsWithdrawn, Withdrawn, DropAfterRequest
<1> QED
  BY <1>1, DropInvHolds, PTL

-----------------------------------------------------------------------------
(***************************************************************************)
(* The safety core of LeftoversGo.  The locks of the four tables are not   *)
(* held together, so a request leaves them one by one; what must not       *)
(* happen is that a thread takes a request out of the request table and    *)
(* nobody goes on to take it out of the others.                            *)
(***************************************************************************)
\* A request that a client is only now routing is in nobody's hands.
Nowhere(r) ==
    /\ r \notin tm_todo
    /\ tm_rid # r
    /\ \A p \in Proxy : /\ r \notin held[p]
                        /\ r \notin proxyname_table[p]
                        /\ r \notin sb_todo[p]
                        /\ sb_rid[p] # r

\* While its worker goes from table to table the request is in the request
\* table, does not expire, and no proxy can answer it.
InTransit ==
    \A c \in Conn : ws_pc[c] \in RoutePc =>
        /\ request_table[ws_rid[c]] = c
        /\ ws_rid[c] \in fresh
        /\ Nowhere(ws_rid[c])

\* A request is listed for one proxy, which is the one that may answer it.
Home ==
    \A r \in Request, p, q \in Proxy :
        /\ r \in proxyname_table[q]
        /\ \/ r \in proxyname_table[p] \union held[p] \union sb_todo[p]
           \/ sb_pc[p] \in {"reply_connection", "reply_proxyname"} /\ sb_rid[p] = r
        => p = q

\* The connection that the timeout thread looked up is still the request's.
ExpiredConn ==
    tm_pc \in {"expired_reply", "expired_request"} =>
        request_table[tm_rid] \in {NoConn, tm_conn}

SbAt(p, r, pcs) == sb_rid[p] = r /\ sb_pc[p] \in pcs
TmAt(r, pcs) == tm_rid = r /\ tm_pc \in pcs
WsAt(c, r, pcs) == ws_rid[c] = r /\ ws_pc[c] \in pcs
Finished(r) == owner[r] # 0 /\ request_table[r] = NoConn

\* Who takes a finished request out of the list of its connection: a thread
\* that looked the connection up, or the connection's own close handler.
ConnectionRemover ==
    \A r \in Request, c \in Conn : Finished(r) /\ r \in connection_table[c] =>
        \/ \E p \in Proxy : SbAt(p, r, {"purge_connection", "reply_connection"})
                            /\ sb_conn[p] = c
        \/ TmAt(r, {"expired_connection"}) /\ tm_conn = c
        \/ ws_pc[c] \in DropPc \union Issuing \union {"drop_connection"}

\* Who takes its payload out of the service table.
ServiceRemover ==
    \A r \in Request : Finished(r) /\ r \in service_table =>
        \/ \E p \in Proxy : SbAt(p, r, {"purge_connection", "purge_proxyname",
               "purge_service", "reply_connection", "reply_proxyname", "reply_service"})
        \/ TmAt(r, {"expired_connection", "expired_service"})
        \/ \E c \in Conn : WsAt(c, r, {"drop_service"})

\* Who takes it out of its proxy's list.  client_proxyname_table_drop looks at
\* one proxy only: there the answer must come from the proxy that has it.
ProxynameRemover ==
    \A r \in Request, q \in Proxy : Finished(r) /\ r \in proxyname_table[q] =>
        \/ \E p \in Proxy : SbAt(p, r, {"purge_connection", "purge_proxyname"})
        \/ SbAt(q, r, {"reply_connection", "reply_proxyname"})
        \/ TmAt(r, {"expired_connection", "expired_service", "expired_proxyname"})
        \/ \E c \in Conn : WsAt(c, r, {"drop_service", "drop_proxyname"})

\* Nobody gets hold of a request that is being routed.
LEMMA InTransitStep ==
    ASSUME TypeInv, RegistryInv, DropInv, PromptRoute, InTransit, [Next]_vars
    PROVE  InTransit'
<1>0. /\ request_table \in [Request -> Conn \union {NoConn}]
      /\ connection_table \in [Conn -> SUBSET Request]
      /\ proxyname_table \in [Proxy -> SUBSET Rid]
      /\ owner \in [Request -> Nat]
      /\ held \in [Proxy -> SUBSET Rid]
      /\ ws_pc \in [Conn -> WsPc]
      /\ ws_rid \in [Conn -> Request \union {NoRequest}]
      /\ ws_todo \in [Conn -> SUBSET Request]
      /\ ws_proxy \in [Conn -> Proxy \union {NoProxy}]
      /\ sb_pc \in [Proxy -> SbPc]
      /\ sb_rid \in [Proxy -> Rid \union {NoRequest}]
      /\ sb_conn \in [Proxy -> Conn \union {NoConn}]
      /\ sb_todo \in [Proxy -> SUBSET Rid]
      /\ tm_todo \in SUBSET Request
      /\ LocalsSet
  BY BoundAssumption DEF TypeInv, TypeOK
<1>a. /\ \A r \in Request : owner[r] = 0 => Unused(r)
      /\ \A r \in Request : request_table[r] # NoConn => owner[r] # 0
      /\ \A c \in Conn, r \in Request :
            ws_pc[c] \in {"drop_request"} \union RoutePc /\ ws_rid[c] = r =>
                session[c] # 0 /\ owner[r] = session[c]
      /\ \A c, d \in Conn : c # d /\ session[c] = session[d] => session[c] = 0
  BY Zenon DEF RegistryInv, UnusedNowhere, NoDanglingRequest, DropInv, Owned, SessionsDiffer
<1> USE <1>0, NullAssumption DEF InTransit, Nowhere, LocalsSet, WsPc, SbPc, RoutePc,
        DropPc, SignalPc, Issuing, vars, tables, world, outside, wsVars, sbVars, tmVars
<1>1. ASSUME NEW c \in Conn, Connect(c) PROVE InTransit'
  BY <1>1 DEF Connect
<1>2. ASSUME NEW c \in Conn, NEW r \in Request, NEW p \in Proxy, Route(c, r, p)
      PROVE  InTransit'
  BY <1>2, <1>a DEF Route, Unused
<1>3. ASSUME NEW c \in Conn, RouteConnection(c) PROVE InTransit'
  BY <1>3 DEF RouteConnection
<1>4. ASSUME NEW c \in Conn, RouteService(c) PROVE InTransit'
  BY <1>4 DEF RouteService
<1>5. ASSUME NEW c \in Conn, RouteProxyname(c) PROVE InTransit'
  BY <1>5 DEF RouteProxyname, proxyname_table_set
<1>6. ASSUME NEW c \in Conn, Close(c) PROVE InTransit'
  BY <1>6 DEF Close
<1>7. ASSUME NEW c \in Conn, NEW r \in Request, DropLookup(c, r) PROVE InTransit'
  BY <1>7 DEF DropLookup
<1>8. ASSUME NEW c \in Conn, DropRequestEntry(c) PROVE InTransit'
  BY <1>8, <1>a DEF DropRequestEntry, request_table_remove
<1>9. ASSUME NEW c \in Conn, DropService(c) PROVE InTransit'
  BY <1>9 DEF DropService, service_table_remove
<1>10. ASSUME NEW c \in Conn, DropProxyname(c) PROVE InTransit'
  BY <1>10 DEF DropProxyname, proxyname_table_drop_all
<1>11. ASSUME NEW c \in Conn, IssueLock(c) PROVE InTransit'
  BY <1>11 DEF IssueLock
<1>12. ASSUME NEW c \in Conn, NEW p \in Proxy, IssueProxy(c, p) PROVE InTransit'
  BY <1>12 DEF IssueProxy
<1>13. ASSUME NEW c \in Conn, NEW r \in Request, IssueService(c, r) PROVE InTransit'
  BY <1>13 DEF IssueService
<1>14. ASSUME NEW c \in Conn, IssueProxyname(c) PROVE InTransit'
  BY <1>14, DropIds DEF IssueProxyname, proxyname_table_set
<1>15. ASSUME NEW c \in Conn, IssueUnlock(c) PROVE InTransit'
  BY <1>15 DEF IssueUnlock, NoDrops
<1>16. ASSUME NEW c \in Conn, DropConnection(c) PROVE InTransit'
  BY <1>16 DEF DropConnection
<1>17. ASSUME NEW p \in Proxy, NEW S \in SUBSET Rid, NEW remove \in BOOLEAN,
             Answer(p, S, remove)
      PROVE  InTransit'
  BY <1>17 DEF Answer
<1>18. ASSUME NEW p \in Proxy, NEW q \in Rid, NEW r \in Request, NEW remove \in BOOLEAN,
             AnswerClear(p, q, r, remove)
      PROVE  InTransit'
  BY <1>18 DEF AnswerClear
<1>19. ASSUME NEW p \in Proxy, PurgeRequest(p) PROVE InTransit'
  BY <1>19 DEF PurgeRequest, request_table_remove, request_table_conn
<1>20. ASSUME NEW p \in Proxy, PurgeConnection(p) PROVE InTransit'
  BY <1>20 DEF PurgeConnection, connection_table_drop
<1>21. ASSUME NEW p \in Proxy, PurgeProxyname(p) PROVE InTransit'
  BY <1>21 DEF PurgeProxyname, proxyname_table_drop_all
<1>22. ASSUME NEW p \in Proxy, PurgeService(p) PROVE InTransit'
  BY <1>22 DEF PurgeService, service_table_remove
<1>23. ASSUME NEW p \in Proxy, NEW rid \in Rid, ReplyRequest(p, rid) PROVE InTransit'
  BY <1>23 DEF ReplyRequest, request_table_remove, request_table_conn
<1>24. ASSUME NEW p \in Proxy, ReplyConnection(p) PROVE InTransit'
  BY <1>24 DEF ReplyConnection, connection_table_drop
<1>25. ASSUME NEW p \in Proxy, ReplyProxyname(p) PROVE InTransit'
  BY <1>25 DEF ReplyProxyname, proxyname_table_drop
<1>26. ASSUME NEW p \in Proxy, ReplyService(p) PROVE InTransit'
  BY <1>26 DEF ReplyService, service_table_remove
<1>27. ASSUME NEW p \in Proxy, ReplyWrite(p) PROVE InTransit'
  BY <1>27 DEF ReplyWrite
<1>28. CASE TimeoutScan
  BY <1>28 DEF TimeoutScan, Overdue
<1>29. ASSUME NEW r \in Request, TimeoutConn(r) PROVE InTransit'
  BY <1>29 DEF TimeoutConn
<1>30. CASE TimeoutReply
  BY <1>30 DEF TimeoutReply
<1>31. CASE TimeoutRequest
  BY <1>31 DEF TimeoutRequest, request_table_remove
<1>32. CASE TimeoutConnection
  BY <1>32 DEF TimeoutConnection, connection_table_drop
<1>33. CASE TimeoutService
  BY <1>33 DEF TimeoutService, service_table_remove
<1>34. CASE TimeoutProxyname
  BY <1>34 DEF TimeoutProxyname, proxyname_table_drop_all
<1>35. ASSUME NEW r \in Request, TimePasses(r) PROVE InTransit'
  BY <1>35 DEF TimePasses, Routing
<1>36. ASSUME NEW p \in Proxy, NEW rid \in Rid, Dispatch(p, rid) PROVE InTransit'
  BY <1>36 DEF Dispatch
<1>37. ASSUME NEW p \in Proxy, ProxyLost(p) PROVE InTransit'
  BY <1>37 DEF ProxyLost
<1>38. CASE UNCHANGED vars
  BY <1>38
<1>39. ASSUME NEW c \in Conn, RouteLock(c) PROVE InTransit'
  BY <1>39 DEF RouteLock
<1>40. ASSUME NEW c \in Conn, RouteSignal(c) PROVE InTransit'
  BY <1>40 DEF RouteSignal
<1>41. ASSUME NEW c \in Conn, IssueSignal(c) PROVE InTransit'
  BY <1>41 DEF IssueSignal
<1>42. CASE LocksStep
  BY <1>42 DEF LocksStep, TableTaken, TableLeft, ContextTaken, ContextLeft
<1> HIDE <1>0 DEF InTransit, Nowhere, LocalsSet, WsPc, SbPc, RoutePc,
        DropPc, SignalPc, Issuing, vars, tables, world, outside, wsVars, sbVars, tmVars
<1> QED
  BY <1>1, <1>2, <1>3, <1>4, <1>5, <1>6, <1>7, <1>8, <1>9, <1>10, <1>11, <1>12, <1>13,
     <1>14, <1>15, <1>16, <1>17, <1>18, <1>19, <1>20, <1>21, <1>22, <1>23, <1>24, <1>25,
     <1>26, <1>27, <1>28, <1>29, <1>30, <1>31, <1>32, <1>33, <1>34, <1>35, <1>36, <1>37,
     <1>38, <1>39, <1>40, <1>41, <1>42 DEF Next, WsStep, SbStep, TmStep

\* A request goes to the list of one proxy, and only once.
LEMMA HomeStep ==
    ASSUME TypeInv, RegistryInv, InTransit, Home, [Next]_vars
    PROVE  Home'
<1>0. /\ request_table \in [Request -> Conn \union {NoConn}]
      /\ connection_table \in [Conn -> SUBSET Request]
      /\ proxyname_table \in [Proxy -> SUBSET Rid]
      /\ owner \in [Request -> Nat]
      /\ held \in [Proxy -> SUBSET Rid]
      /\ ws_pc \in [Conn -> WsPc]
      /\ ws_rid \in [Conn -> Request \union {NoRequest}]
      /\ ws_todo \in [Conn -> SUBSET Request]
      /\ ws_proxy \in [Conn -> Proxy \union {NoProxy}]
      /\ sb_pc \in [Proxy -> SbPc]
      /\ sb_rid \in [Proxy -> Rid \union {NoRequest}]
      /\ sb_conn \in [Proxy -> Conn \union {NoConn}]
      /\ sb_todo \in [Proxy -> SUBSET Rid]
      /\ tm_todo \in SUBSET Request
      /\ LocalsSet
  BY BoundAssumption DEF TypeInv, TypeOK
<1> USE <1>0, NullAssumption DEF Home, LocalsSet, WsPc, SbPc, RoutePc,
        DropPc, SignalPc, Issuing, vars, tables, world, outside, wsVars, sbVars, tmVars
<1>1. ASSUME NEW c \in Conn, Connect(c) PROVE Home'
  BY <1>1 DEF Connect
<1>2. ASSUME NEW c \in Conn, NEW r \in Request, NEW p \in Proxy, Route(c, r, p)
      PROVE  Home'
  BY <1>2 DEF Route
<1>3. ASSUME NEW c \in Conn, RouteConnection(c) PROVE Home'
  BY <1>3 DEF RouteConnection
<1>4. ASSUME NEW c \in Conn, RouteService(c) PROVE Home'
  BY <1>4 DEF RouteService
<1>5. ASSUME NEW c \in Conn, RouteProxyname(c) PROVE Home'
  BY <1>5, InTransit DEF RouteProxyname, proxyname_table_set, InTransit, Nowhere
<1>6. ASSUME NEW c \in Conn, Close(c) PROVE Home'
  BY <1>6 DEF Close
<1>7. ASSUME NEW c \in Conn, NEW r \in Request, DropLookup(c, r) PROVE Home'
  BY <1>7 DEF DropLookup
<1>8. ASSUME NEW c \in Conn, DropRequestEntry(c) PROVE Home'
  BY <1>8 DEF DropRequestEntry, request_table_remove
<1>9. ASSUME NEW c \in Conn, DropService(c) PROVE Home'
  BY <1>9 DEF DropService, service_table_remove
<1>10. ASSUME NEW c \in Conn, DropProxyname(c) PROVE Home'
  BY <1>10 DEF DropProxyname, proxyname_table_drop_all
<1>11. ASSUME NEW c \in Conn, IssueLock(c) PROVE Home'
  BY <1>11 DEF IssueLock
<1>12. ASSUME NEW c \in Conn, NEW p \in Proxy, IssueProxy(c, p) PROVE Home'
  BY <1>12 DEF IssueProxy
<1>13. ASSUME NEW c \in Conn, NEW r \in Request, IssueService(c, r) PROVE Home'
  BY <1>13 DEF IssueService
<1>14. ASSUME NEW c \in Conn, IssueProxyname(c) PROVE Home'
  BY <1>14, DropIds DEF IssueProxyname, proxyname_table_set
<1>15. ASSUME NEW c \in Conn, IssueUnlock(c) PROVE Home'
  BY <1>15 DEF IssueUnlock, NoDrops
<1>16. ASSUME NEW c \in Conn, DropConnection(c) PROVE Home'
  BY <1>16 DEF DropConnection
<1>17. ASSUME NEW p \in Proxy, NEW S \in SUBSET Rid, NEW remove \in BOOLEAN,
             Answer(p, S, remove)
      PROVE  Home'
  BY <1>17 DEF Answer
<1>18. ASSUME NEW p \in Proxy, NEW q \in Rid, NEW r \in Request, NEW remove \in BOOLEAN,
             AnswerClear(p, q, r, remove)
      PROVE  Home'
  BY <1>18 DEF AnswerClear
<1>19. ASSUME NEW p \in Proxy, PurgeRequest(p) PROVE Home'
  BY <1>19 DEF PurgeRequest, request_table_remove, request_table_conn
<1>20. ASSUME NEW p \in Proxy, PurgeConnection(p) PROVE Home'
  BY <1>20 DEF PurgeConnection, connection_table_drop
<1>21. ASSUME NEW p \in Proxy, PurgeProxyname(p) PROVE Home'
  BY <1>21 DEF PurgeProxyname, proxyname_table_drop_all
<1>22. ASSUME NEW p \in Proxy, PurgeService(p) PROVE Home'
  BY <1>22 DEF PurgeService, service_table_remove
<1>23. ASSUME NEW p \in Proxy, NEW rid \in Rid, ReplyRequest(p, rid) PROVE Home'
  BY <1>23 DEF ReplyRequest, request_table_remove, request_table_conn
<1>24. ASSUME NEW p \in Proxy, ReplyConnection(p) PROVE Home'
  BY <1>24 DEF ReplyConnection, connection_table_drop
<1>25. ASSUME NEW p \in Proxy, ReplyProxyname(p) PROVE Home'
  BY <1>25 DEF ReplyProxyname, proxyname_table_drop
<1>26. ASSUME NEW p \in Proxy, ReplyService(p) PROVE Home'
  BY <1>26 DEF ReplyService, service_table_remove
<1>27. ASSUME NEW p \in Proxy, ReplyWrite(p) PROVE Home'
  BY <1>27 DEF ReplyWrite
<1>28. CASE TimeoutScan
  BY <1>28 DEF TimeoutScan, Overdue
<1>29. ASSUME NEW r \in Request, TimeoutConn(r) PROVE Home'
  BY <1>29 DEF TimeoutConn
<1>30. CASE TimeoutReply
  BY <1>30 DEF TimeoutReply
<1>31. CASE TimeoutRequest
  BY <1>31 DEF TimeoutRequest, request_table_remove
<1>32. CASE TimeoutConnection
  BY <1>32 DEF TimeoutConnection, connection_table_drop
<1>33. CASE TimeoutService
  BY <1>33 DEF TimeoutService, service_table_remove
<1>34. CASE TimeoutProxyname
  BY <1>34 DEF TimeoutProxyname, proxyname_table_drop_all
<1>35. ASSUME NEW r \in Request, TimePasses(r) PROVE Home'
  BY <1>35 DEF TimePasses, Routing
<1>36. ASSUME NEW p \in Proxy, NEW rid \in Rid, Dispatch(p, rid) PROVE Home'
  BY <1>36 DEF Dispatch
<1>37. ASSUME NEW p \in Proxy, ProxyLost(p) PROVE Home'
  BY <1>37 DEF ProxyLost
<1>38. CASE UNCHANGED vars
  BY <1>38
<1>39. ASSUME NEW c \in Conn, RouteLock(c) PROVE Home'
  BY <1>39 DEF RouteLock
<1>40. ASSUME NEW c \in Conn, RouteSignal(c) PROVE Home'
  BY <1>40 DEF RouteSignal
<1>41. ASSUME NEW c \in Conn, IssueSignal(c) PROVE Home'
  BY <1>41 DEF IssueSignal
<1>42. CASE LocksStep
  BY <1>42 DEF LocksStep, TableTaken, TableLeft, ContextTaken, ContextLeft
<1> HIDE <1>0 DEF Home, LocalsSet, WsPc, SbPc, RoutePc,
        DropPc, SignalPc, Issuing, vars, tables, world, outside, wsVars, sbVars, tmVars
<1> QED
  BY <1>1, <1>2, <1>3, <1>4, <1>5, <1>6, <1>7, <1>8, <1>9, <1>10, <1>11, <1>12, <1>13,
     <1>14, <1>15, <1>16, <1>17, <1>18, <1>19, <1>20, <1>21, <1>22, <1>23, <1>24, <1>25,
     <1>26, <1>27, <1>28, <1>29, <1>30, <1>31, <1>32, <1>33, <1>34, <1>35, <1>36, <1>37,
     <1>38, <1>39, <1>40, <1>41, <1>42 DEF Next, WsStep, SbStep, TmStep

\* The request table gives a rid a connection only once.
LEMMA ExpiredConnStep ==
    ASSUME TypeInv, RegistryInv, ExpiredConn, [Next]_vars
    PROVE  ExpiredConn'
<1>0. /\ request_table \in [Request -> Conn \union {NoConn}]
      /\ connection_table \in [Conn -> SUBSET Request]
      /\ proxyname_table \in [Proxy -> SUBSET Rid]
      /\ owner \in [Request -> Nat]
      /\ held \in [Proxy -> SUBSET Rid]
      /\ ws_pc \in [Conn -> WsPc]
      /\ ws_rid \in [Conn -> Request \union {NoRequest}]
      /\ ws_todo \in [Conn -> SUBSET Request]
      /\ ws_proxy \in [Conn -> Proxy \union {NoProxy}]
      /\ sb_pc \in [Proxy -> SbPc]
      /\ sb_rid \in [Proxy -> Rid \union {NoRequest}]
      /\ sb_conn \in [Proxy -> Conn \union {NoConn}]
      /\ sb_todo \in [Proxy -> SUBSET Rid]
      /\ tm_todo \in SUBSET Request
      /\ LocalsSet
  BY BoundAssumption DEF TypeInv, TypeOK
<1>a. UnusedNowhere
  BY DEF RegistryInv
<1> USE <1>0, NullAssumption DEF ExpiredConn, LocalsSet, WsPc, SbPc, RoutePc,
        DropPc, SignalPc, Issuing, vars, tables, world, outside, wsVars, sbVars, tmVars
<1>1. ASSUME NEW c \in Conn, Connect(c) PROVE ExpiredConn'
  BY <1>1 DEF Connect
<1>2. ASSUME NEW c \in Conn, NEW r \in Request, NEW p \in Proxy, Route(c, r, p)
      PROVE  ExpiredConn'
  BY <1>2, <1>a DEF Route, UnusedNowhere, Unused
<1>3. ASSUME NEW c \in Conn, RouteConnection(c) PROVE ExpiredConn'
  BY <1>3 DEF RouteConnection
<1>4. ASSUME NEW c \in Conn, RouteService(c) PROVE ExpiredConn'
  BY <1>4 DEF RouteService
<1>5. ASSUME NEW c \in Conn, RouteProxyname(c) PROVE ExpiredConn'
  BY <1>5 DEF RouteProxyname, proxyname_table_set
<1>6. ASSUME NEW c \in Conn, Close(c) PROVE ExpiredConn'
  BY <1>6 DEF Close
<1>7. ASSUME NEW c \in Conn, NEW r \in Request, DropLookup(c, r) PROVE ExpiredConn'
  BY <1>7 DEF DropLookup
<1>8. ASSUME NEW c \in Conn, DropRequestEntry(c) PROVE ExpiredConn'
  BY <1>8 DEF DropRequestEntry, request_table_remove
<1>9. ASSUME NEW c \in Conn, DropService(c) PROVE ExpiredConn'
  BY <1>9 DEF DropService, service_table_remove
<1>10. ASSUME NEW c \in Conn, DropProxyname(c) PROVE ExpiredConn'
  BY <1>10 DEF DropProxyname, proxyname_table_drop_all
<1>11. ASSUME NEW c \in Conn, IssueLock(c) PROVE ExpiredConn'
  BY <1>11 DEF IssueLock
<1>12. ASSUME NEW c \in Conn, NEW p \in Proxy, IssueProxy(c, p) PROVE ExpiredConn'
  BY <1>12 DEF IssueProxy
<1>13. ASSUME NEW c \in Conn, NEW r \in Request, IssueService(c, r) PROVE ExpiredConn'
  BY <1>13 DEF IssueService
<1>14. ASSUME NEW c \in Conn, IssueProxyname(c) PROVE ExpiredConn'
  BY <1>14 DEF IssueProxyname, proxyname_table_set
<1>15. ASSUME NEW c \in Conn, IssueUnlock(c) PROVE ExpiredConn'
  BY <1>15 DEF IssueUnlock, NoDrops
<1>16. ASSUME NEW c \in Conn, DropConnection(c) PROVE ExpiredConn'
  BY <1>16 DEF DropConnection
<1>17. ASSUME NEW p \in Proxy, NEW S \in SUBSET Rid, NEW remove \in BOOLEAN,
             Answer(p, S, remove)
      PROVE  ExpiredConn'
  BY <1>17 DEF Answer
<1>18. ASSUME NEW p \in Proxy, NEW q \in Rid, NEW r \in Request, NEW remove \in BOOLEAN,
             AnswerClear(p, q, r, remove)
      PROVE  ExpiredConn'
  BY <1>18 DEF AnswerClear
<1>19. ASSUME NEW p \in Proxy, PurgeRequest(p) PROVE ExpiredConn'
  BY <1>19 DEF PurgeRequest, request_table_remove, request_table_conn
<1>20. ASSUME NEW p \in Proxy, PurgeConnection(p) PROVE ExpiredConn'
  BY <1>20 DEF PurgeConnection, connection_table_drop
<1>21. ASSUME NEW p \in Proxy, PurgeProxyname(p) PROVE ExpiredConn'
  BY <1>21 DEF PurgeProxyname, proxyname_table_drop_all
<1>22. ASSUME NEW p \in Proxy, PurgeService(p) PROVE ExpiredConn'
  BY <1>22 DEF PurgeService, service_table_remove
<1>23. ASSUME NEW p \in Proxy, NEW rid \in Rid, ReplyRequest(p, rid) PROVE ExpiredConn'
  BY <1>23 DEF ReplyRequest, request_table_remove, request_table_conn
<1>24. ASSUME NEW p \in Proxy, ReplyConnection(p) PROVE ExpiredConn'
  BY <1>24 DEF ReplyConnection, connection_table_drop
<1>25. ASSUME NEW p \in Proxy, ReplyProxyname(p) PROVE ExpiredConn'
  BY <1>25 DEF ReplyProxyname, proxyname_table_drop
<1>26. ASSUME NEW p \in Proxy, ReplyService(p) PROVE ExpiredConn'
  BY <1>26 DEF ReplyService, service_table_remove
<1>27. ASSUME NEW p \in Proxy, ReplyWrite(p) PROVE ExpiredConn'
  BY <1>27 DEF ReplyWrite
<1>28. CASE TimeoutScan
  BY <1>28 DEF TimeoutScan, Overdue
<1>29. ASSUME NEW r \in Request, TimeoutConn(r) PROVE ExpiredConn'
  BY <1>29 DEF TimeoutConn
<1>30. CASE TimeoutReply
  BY <1>30 DEF TimeoutReply
<1>31. CASE TimeoutRequest
  BY <1>31 DEF TimeoutRequest, request_table_remove
<1>32. CASE TimeoutConnection
  BY <1>32 DEF TimeoutConnection, connection_table_drop
<1>33. CASE TimeoutService
  BY <1>33 DEF TimeoutService, service_table_remove
<1>34. CASE TimeoutProxyname
  BY <1>34 DEF TimeoutProxyname, proxyname_table_drop_all
<1>35. ASSUME NEW r \in Request, TimePasses(r) PROVE ExpiredConn'
  BY <1>35 DEF TimePasses, Routing
<1>36. ASSUME NEW p \in Proxy, NEW rid \in Rid, Dispatch(p, rid) PROVE ExpiredConn'
  BY <1>36 DEF Dispatch
<1>37. ASSUME NEW p \in Proxy, ProxyLost(p) PROVE ExpiredConn'
  BY <1>37 DEF ProxyLost
<1>38. CASE UNCHANGED vars
  BY <1>38
<1>39. ASSUME NEW c \in Conn, RouteLock(c) PROVE ExpiredConn'
  BY <1>39 DEF RouteLock
<1>40. ASSUME NEW c \in Conn, RouteSignal(c) PROVE ExpiredConn'
  BY <1>40 DEF RouteSignal
<1>41. ASSUME NEW c \in Conn, IssueSignal(c) PROVE ExpiredConn'
  BY <1>41 DEF IssueSignal
<1>42. CASE LocksStep
  BY <1>42 DEF LocksStep, TableTaken, TableLeft, ContextTaken, ContextLeft
<1> HIDE <1>0 DEF ExpiredConn, LocalsSet, WsPc, SbPc, RoutePc,
        DropPc, SignalPc, Issuing, vars, tables, world, outside, wsVars, sbVars, tmVars
<1> QED
  BY <1>1, <1>2, <1>3, <1>4, <1>5, <1>6, <1>7, <1>8, <1>9, <1>10, <1>11, <1>12, <1>13,
     <1>14, <1>15, <1>16, <1>17, <1>18, <1>19, <1>20, <1>21, <1>22, <1>23, <1>24, <1>25,
     <1>26, <1>27, <1>28, <1>29, <1>30, <1>31, <1>32, <1>33, <1>34, <1>35, <1>36, <1>37,
     <1>38, <1>39, <1>40, <1>41, <1>42 DEF Next, WsStep, SbStep, TmStep

\* Nobody leaves an entry of the connection table behind.
LEMMA ConnectionRemoverStep ==
    ASSUME TypeInv, RegistryInv, DropInv, InTransit, ExpiredConn, ConnectionRemover, [Next]_vars
    PROVE  ConnectionRemover'
<1>0. /\ request_table \in [Request -> Conn \union {NoConn}]
      /\ connection_table \in [Conn -> SUBSET Request]
      /\ proxyname_table \in [Proxy -> SUBSET Rid]
      /\ owner \in [Request -> Nat]
      /\ held \in [Proxy -> SUBSET Rid]
      /\ ws_pc \in [Conn -> WsPc]
      /\ ws_rid \in [Conn -> Request \union {NoRequest}]
      /\ ws_todo \in [Conn -> SUBSET Request]
      /\ ws_proxy \in [Conn -> Proxy \union {NoProxy}]
      /\ sb_pc \in [Proxy -> SbPc]
      /\ sb_rid \in [Proxy -> Rid \union {NoRequest}]
      /\ sb_conn \in [Proxy -> Conn \union {NoConn}]
      /\ sb_todo \in [Proxy -> SUBSET Rid]
      /\ tm_todo \in SUBSET Request
      /\ LocalsSet
  BY BoundAssumption DEF TypeInv, TypeOK
<1>a. \A r \in Request, c \in Conn :
        r \in connection_table[c] /\ request_table[r] # NoConn => request_table[r] = c
  <2> SUFFICES ASSUME NEW r \in Request, NEW c \in Conn, r \in connection_table[c],
                      request_table[r] # NoConn
               PROVE  request_table[r] = c
    OBVIOUS
  <2>1. session[c] # 0 /\ owner[r] = session[c]
    BY DEF DropInv, Owned
  <2>2. session[request_table[r]] = owner[r]
    BY DEF RegistryInv, NoDanglingRequest
  <2>3. request_table[r] \in Conn
    BY <1>0
  <2> QED
    BY <2>1, <2>2, <2>3 DEF DropInv, SessionsDiffer
<1>b. \A r \in Request, c, d \in Conn :
        r \in connection_table[c] /\ ws_pc[d] = "drop_request" /\ ws_rid[d] = r => c = d
  <2> SUFFICES ASSUME NEW r \in Request, NEW c \in Conn, NEW d \in Conn,
                      r \in connection_table[c], ws_pc[d] = "drop_request", ws_rid[d] = r
               PROVE  c = d
    OBVIOUS
  <2>1. session[c] # 0 /\ owner[r] = session[c] /\ owner[r] = session[d]
    BY DEF DropInv, Owned
  <2> QED
    BY <2>1 DEF DropInv, SessionsDiffer
<1> USE <1>0, NullAssumption DEF ConnectionRemover, Finished, SbAt, TmAt, LocalsSet,
        WsPc, SbPc, RoutePc,
        DropPc, SignalPc, Issuing, vars, tables, world, outside, wsVars, sbVars, tmVars
<1>1. ASSUME NEW c \in Conn, Connect(c) PROVE ConnectionRemover'
  BY <1>1 DEF Connect
<1>2. ASSUME NEW c \in Conn, NEW r \in Request, NEW p \in Proxy, Route(c, r, p)
      PROVE  ConnectionRemover'
  BY <1>2 DEF Route
<1>3. ASSUME NEW c \in Conn, RouteConnection(c) PROVE ConnectionRemover'
  BY <1>3, InTransit DEF RouteConnection, InTransit
<1>4. ASSUME NEW c \in Conn, RouteService(c) PROVE ConnectionRemover'
  BY <1>4 DEF RouteService
<1>5. ASSUME NEW c \in Conn, RouteProxyname(c) PROVE ConnectionRemover'
  BY <1>5 DEF RouteProxyname, proxyname_table_set
<1>6. ASSUME NEW c \in Conn, Close(c) PROVE ConnectionRemover'
  BY <1>6 DEF Close
<1>7. ASSUME NEW c \in Conn, NEW r \in Request, DropLookup(c, r) PROVE ConnectionRemover'
  BY <1>7 DEF DropLookup
<1>8. ASSUME NEW c \in Conn, DropRequestEntry(c) PROVE ConnectionRemover'
  BY <1>8, <1>b DEF DropRequestEntry, request_table_remove
<1>9. ASSUME NEW c \in Conn, DropService(c) PROVE ConnectionRemover'
  BY <1>9 DEF DropService, service_table_remove
<1>10. ASSUME NEW c \in Conn, DropProxyname(c) PROVE ConnectionRemover'
  BY <1>10 DEF DropProxyname, proxyname_table_drop_all
<1>11. ASSUME NEW c \in Conn, IssueLock(c) PROVE ConnectionRemover'
  BY <1>11 DEF IssueLock
<1>12. ASSUME NEW c \in Conn, NEW p \in Proxy, IssueProxy(c, p) PROVE ConnectionRemover'
  BY <1>12 DEF IssueProxy
<1>13. ASSUME NEW c \in Conn, NEW r \in Request, IssueService(c, r)
      PROVE  ConnectionRemover'
  BY <1>13 DEF IssueService
<1>14. ASSUME NEW c \in Conn, IssueProxyname(c) PROVE ConnectionRemover'
  BY <1>14 DEF IssueProxyname, proxyname_table_set
<1>15. ASSUME NEW c \in Conn, IssueUnlock(c) PROVE ConnectionRemover'
  BY <1>15 DEF IssueUnlock, NoDrops
<1>16. ASSUME NEW c \in Conn, DropConnection(c) PROVE ConnectionRemover'
  BY <1>16 DEF DropConnection
<1>17. ASSUME NEW p \in Proxy, NEW S \in SUBSET Rid, NEW remove \in BOOLEAN,
             Answer(p, S, remove)
      PROVE  ConnectionRemover'
  BY <1>17 DEF Answer
<1>18. ASSUME NEW p \in Proxy, NEW q \in Rid, NEW r \in Request, NEW remove \in BOOLEAN,
             AnswerClear(p, q, r, remove)
      PROVE  ConnectionRemover'
  BY <1>18 DEF AnswerClear
<1>19. ASSUME NEW p \in Proxy, PurgeRequest(p) PROVE ConnectionRemover'
  BY <1>19, <1>a DEF PurgeRequest, request_table_remove, request_table_conn
<1>20. ASSUME NEW p \in Proxy, PurgeConnection(p) PROVE ConnectionRemover'
  BY <1>20 DEF PurgeConnection, connection_table_drop
<1>21. ASSUME NEW p \in Proxy, PurgeProxyname(p) PROVE ConnectionRemover'
  BY <1>21 DEF PurgeProxyname, proxyname_table_drop_all
<1>22. ASSUME NEW p \in Proxy, PurgeService(p) PROVE ConnectionRemover'
  BY <1>22 DEF PurgeService, service_table_remove
<1>23. ASSUME NEW p \in Proxy, NEW rid \in Rid, ReplyRequest(p, rid)
      PROVE  ConnectionRemover'
  <2>1. CASE sb_remove[p] /\ request_table_conn(rid) = NoConn
    BY <1>23, <2>1, <1>a DEF ReplyRequest, request_table_remove, request_table_conn
  <2>2. CASE sb_remove[p] /\ request_table_conn(rid) # NoConn
    BY <1>23, <2>2, <1>a, SMTT(30) DEF ReplyRequest, request_table_remove, request_table_conn
  <2>3. CASE ~sb_remove[p]
    BY <1>23, <2>3 DEF ReplyRequest
  <2> QED
    BY <2>1, <2>2, <2>3
<1>24. ASSUME NEW p \in Proxy, ReplyConnection(p) PROVE ConnectionRemover'
  BY <1>24 DEF ReplyConnection, connection_table_drop
<1>25. ASSUME NEW p \in Proxy, ReplyProxyname(p) PROVE ConnectionRemover'
  BY <1>25 DEF ReplyProxyname, proxyname_table_drop
<1>26. ASSUME NEW p \in Proxy, ReplyService(p) PROVE ConnectionRemover'
  BY <1>26 DEF ReplyService, service_table_remove
<1>27. ASSUME NEW p \in Proxy, ReplyWrite(p) PROVE ConnectionRemover'
  BY <1>27 DEF ReplyWrite
<1>28. CASE TimeoutScan
  BY <1>28 DEF TimeoutScan, Overdue
<1>29. ASSUME NEW r \in Request, TimeoutConn(r) PROVE ConnectionRemover'
  BY <1>29 DEF TimeoutConn
<1>30. CASE TimeoutReply
  BY <1>30 DEF TimeoutReply
<1>31. CASE TimeoutRequest
  BY <1>31, <1>a, ExpiredConn DEF TimeoutRequest, request_table_remove, ExpiredConn
<1>32. CASE TimeoutConnection
  BY <1>32 DEF TimeoutConnection, connection_table_drop
<1>33. CASE TimeoutService
  BY <1>33 DEF TimeoutService, service_table_remove
<1>34. CASE TimeoutProxyname
  BY <1>34 DEF TimeoutProxyname, proxyname_table_drop_all
<1>35. ASSUME NEW r \in Request, TimePasses(r) PROVE ConnectionRemover'
  BY <1>35 DEF TimePasses, Routing
<1>36. ASSUME NEW p \in Proxy, NEW rid \in Rid, Dispatch(p, rid) PROVE ConnectionRemover'
  BY <1>36 DEF Dispatch
<1>37. ASSUME NEW p \in Proxy, ProxyLost(p) PROVE ConnectionRemover'
  BY <1>37 DEF ProxyLost
<1>38. CASE UNCHANGED vars
  BY <1>38
<1>39. ASSUME NEW c \in Conn, RouteLock(c) PROVE ConnectionRemover'
  BY <1>39 DEF RouteLock
<1>40. ASSUME NEW c \in Conn, RouteSignal(c) PROVE ConnectionRemover'
  BY <1>40 DEF RouteSignal
<1>41. ASSUME NEW c \in Conn, IssueSignal(c) PROVE ConnectionRemover'
  BY <1>41 DEF IssueSignal
<1>42. CASE LocksStep
  BY <1>42 DEF LocksStep, TableTaken, TableLeft, ContextTaken, ContextLeft
<1> HIDE <1>0 DEF ConnectionRemover, Finished, SbAt, TmAt, LocalsSet, WsPc, SbPc, RoutePc,
        DropPc, SignalPc, Issuing, vars, tables, world, outside, wsVars, sbVars, tmVars
<1> QED
  BY <1>1, <1>2, <1>3, <1>4, <1>5, <1>6, <1>7, <1>8, <1>9, <1>10, <1>11, <1>12, <1>13,
     <1>14, <1>15, <1>16, <1>17, <1>18, <1>19, <1>20, <1>21, <1>22, <1>23, <1>24, <1>25,
     <1>26, <1>27, <1>28, <1>29, <1>30, <1>31, <1>32, <1>33, <1>34, <1>35, <1>36, <1>37,
     <1>38, <1>39, <1>40, <1>41, <1>42 DEF Next, WsStep, SbStep, TmStep

\* Nobody leaves a payload behind.
LEMMA ServiceRemoverStep ==
    ASSUME TypeInv, InTransit, ServiceRemover, [Next]_vars
    PROVE  ServiceRemover'
<1>0. /\ request_table \in [Request -> Conn \union {NoConn}]
      /\ connection_table \in [Conn -> SUBSET Request]
      /\ proxyname_table \in [Proxy -> SUBSET Rid]
      /\ owner \in [Request -> Nat]
      /\ held \in [Proxy -> SUBSET Rid]
      /\ ws_pc \in [Conn -> WsPc]
      /\ ws_rid \in [Conn -> Request \union {NoRequest}]
      /\ ws_todo \in [Conn -> SUBSET Request]
      /\ ws_proxy \in [Conn -> Proxy \union {NoProxy}]
      /\ sb_pc \in [Proxy -> SbPc]
      /\ sb_rid \in [Proxy -> Rid \union {NoRequest}]
      /\ sb_conn \in [Proxy -> Conn \union {NoConn}]
      /\ sb_todo \in [Proxy -> SUBSET Rid]
      /\ tm_todo \in SUBSET Request
      /\ LocalsSet
  BY BoundAssumption DEF TypeInv, TypeOK
<1> USE <1>0, NullAssumption DEF ServiceRemover, Finished, SbAt, TmAt, WsAt, LocalsSet,
        WsPc, SbPc, RoutePc,
        DropPc, SignalPc, Issuing, vars, tables, world, outside, wsVars, sbVars, tmVars
<1>1. ASSUME NEW c \in Conn, Connect(c) PROVE ServiceRemover'
  BY <1>1 DEF Connect
<1>2. ASSUME NEW c \in Conn, NEW r \in Request, NEW p \in Proxy, Route(c, r, p)
      PROVE  ServiceRemover'
  BY <1>2 DEF Route
<1>3. ASSUME NEW c \in Conn, RouteConnection(c) PROVE ServiceRemover'
  BY <1>3 DEF RouteConnection
<1>4. ASSUME NEW c \in Conn, RouteService(c) PROVE ServiceRemover'
  BY <1>4, InTransit DEF RouteService, InTransit
<1>5. ASSUME NEW c \in Conn, RouteProxyname(c) PROVE ServiceRemover'
  BY <1>5 DEF RouteProxyname, proxyname_table_set
<1>6. ASSUME NEW c \in Conn, Close(c) PROVE ServiceRemover'
  BY <1>6 DEF Close
<1>7. ASSUME NEW c \in Conn, NEW r \in Request, DropLookup(c, r) PROVE ServiceRemover'
  BY <1>7 DEF DropLookup
<1>8. ASSUME NEW c \in Conn, DropRequestEntry(c) PROVE ServiceRemover'
  BY <1>8 DEF DropRequestEntry, request_table_remove
<1>9. ASSUME NEW c \in Conn, DropService(c) PROVE ServiceRemover'
  BY <1>9 DEF DropService, service_table_remove
<1>10. ASSUME NEW c \in Conn, DropProxyname(c) PROVE ServiceRemover'
  BY <1>10 DEF DropProxyname, proxyname_table_drop_all
<1>11. ASSUME NEW c \in Conn, IssueLock(c) PROVE ServiceRemover'
  BY <1>11 DEF IssueLock
<1>12. ASSUME NEW c \in Conn, NEW p \in Proxy, IssueProxy(c, p) PROVE ServiceRemover'
  BY <1>12 DEF IssueProxy
<1>13. ASSUME NEW c \in Conn, NEW r \in Request, IssueService(c, r) PROVE ServiceRemover'
  BY <1>13, DropIds DEF IssueService
<1>14. ASSUME NEW c \in Conn, IssueProxyname(c) PROVE ServiceRemover'
  BY <1>14 DEF IssueProxyname, proxyname_table_set
<1>15. ASSUME NEW c \in Conn, IssueUnlock(c) PROVE ServiceRemover'
  BY <1>15 DEF IssueUnlock, NoDrops
<1>16. ASSUME NEW c \in Conn, DropConnection(c) PROVE ServiceRemover'
  BY <1>16 DEF DropConnection
<1>17. ASSUME NEW p \in Proxy, NEW S \in SUBSET Rid, NEW remove \in BOOLEAN,
             Answer(p, S, remove)
      PROVE  ServiceRemover'
  BY <1>17 DEF Answer
<1>18. ASSUME NEW p \in Proxy, NEW q \in Rid, NEW r \in Request, NEW remove \in BOOLEAN,
             AnswerClear(p, q, r, remove)
      PROVE  ServiceRemover'
  BY <1>18 DEF AnswerClear
<1>19. ASSUME NEW p \in Proxy, PurgeRequest(p) PROVE ServiceRemover'
  BY <1>19 DEF PurgeRequest, request_table_remove, request_table_conn
<1>20. ASSUME NEW p \in Proxy, PurgeConnection(p) PROVE ServiceRemover'
  BY <1>20 DEF PurgeConnection, connection_table_drop
<1>21. ASSUME NEW p \in Proxy, PurgeProxyname(p) PROVE ServiceRemover'
  BY <1>21 DEF PurgeProxyname, proxyname_table_drop_all
<1>22. ASSUME NEW p \in Proxy, PurgeService(p) PROVE ServiceRemover'
  BY <1>22 DEF PurgeService, service_table_remove
<1>23. ASSUME NEW p \in Proxy, NEW rid \in Rid, ReplyRequest(p, rid) PROVE ServiceRemover'
  BY <1>23 DEF ReplyRequest, request_table_remove, request_table_conn
<1>24. ASSUME NEW p \in Proxy, ReplyConnection(p) PROVE ServiceRemover'
  BY <1>24 DEF ReplyConnection, connection_table_drop
<1>25. ASSUME NEW p \in Proxy, ReplyProxyname(p) PROVE ServiceRemover'
  BY <1>25 DEF ReplyProxyname, proxyname_table_drop
<1>26. ASSUME NEW p \in Proxy, ReplyService(p) PROVE ServiceRemover'
  BY <1>26 DEF ReplyService, service_table_remove
<1>27. ASSUME NEW p \in Proxy, ReplyWrite(p) PROVE ServiceRemover'
  BY <1>27 DEF ReplyWrite
<1>28. CASE TimeoutScan
  BY <1>28 DEF TimeoutScan, Overdue
<1>29. ASSUME NEW r \in Request, TimeoutConn(r) PROVE ServiceRemover'
  BY <1>29 DEF TimeoutConn
<1>30. CASE TimeoutReply
  BY <1>30 DEF TimeoutReply
<1>31. CASE TimeoutRequest
  BY <1>31 DEF TimeoutRequest, request_table_remove
<1>32. CASE TimeoutConnection
  BY <1>32 DEF TimeoutConnection, connection_table_drop
<1>33. CASE TimeoutService
  BY <1>33 DEF TimeoutService, service_table_remove
<1>34. CASE TimeoutProxyname
  BY <1>34 DEF TimeoutProxyname, proxyname_table_drop_all
<1>35. ASSUME NEW r \in Request, TimePasses(r) PROVE ServiceRemover'
  BY <1>35 DEF TimePasses, Routing
<1>36. ASSUME NEW p \in Proxy, NEW rid \in Rid, Dispatch(p, rid) PROVE ServiceRemover'
  BY <1>36 DEF Dispatch
<1>37. ASSUME NEW p \in Proxy, ProxyLost(p) PROVE ServiceRemover'
  BY <1>37 DEF ProxyLost
<1>38. CASE UNCHANGED vars
  BY <1>38
<1>39. ASSUME NEW c \in Conn, RouteLock(c) PROVE ServiceRemover'
  BY <1>39 DEF RouteLock
<1>40. ASSUME NEW c \in Conn, RouteSignal(c) PROVE ServiceRemover'
  BY <1>40 DEF RouteSignal
<1>41. ASSUME NEW c \in Conn, IssueSignal(c) PROVE ServiceRemover'
  BY <1>41 DEF IssueSignal
<1>42. CASE LocksStep
  BY <1>42 DEF LocksStep, TableTaken, TableLeft, ContextTaken, ContextLeft
<1> HIDE <1>0 DEF ServiceRemover, Finished, SbAt, TmAt, WsAt, LocalsSet, WsPc, SbPc, RoutePc,
        DropPc, SignalPc, Issuing, vars, tables, world, outside, wsVars, sbVars, tmVars
<1> QED
  BY <1>1, <1>2, <1>3, <1>4, <1>5, <1>6, <1>7, <1>8, <1>9, <1>10, <1>11, <1>12, <1>13,
     <1>14, <1>15, <1>16, <1>17, <1>18, <1>19, <1>20, <1>21, <1>22, <1>23, <1>24, <1>25,
     <1>26, <1>27, <1>28, <1>29, <1>30, <1>31, <1>32, <1>33, <1>34, <1>35, <1>36, <1>37,
     <1>38, <1>39, <1>40, <1>41, <1>42 DEF Next, WsStep, SbStep, TmStep

\* Nobody leaves an entry of the proxy name table behind.
LEMMA ProxynameRemoverStep ==
    ASSUME TypeInv, InTransit, Home, ProxynameRemover, [Next]_vars
    PROVE  ProxynameRemover'
<1>0. /\ request_table \in [Request -> Conn \union {NoConn}]
      /\ connection_table \in [Conn -> SUBSET Request]
      /\ proxyname_table \in [Proxy -> SUBSET Rid]
      /\ owner \in [Request -> Nat]
      /\ held \in [Proxy -> SUBSET Rid]
      /\ ws_pc \in [Conn -> WsPc]
      /\ ws_rid \in [Conn -> Request \union {NoRequest}]
      /\ ws_todo \in [Conn -> SUBSET Request]
      /\ ws_proxy \in [Conn -> Proxy \union {NoProxy}]
      /\ sb_pc \in [Proxy -> SbPc]
      /\ sb_rid \in [Proxy -> Rid \union {NoRequest}]
      /\ sb_conn \in [Proxy -> Conn \union {NoConn}]
      /\ sb_todo \in [Proxy -> SUBSET Rid]
      /\ tm_todo \in SUBSET Request
      /\ LocalsSet
  BY BoundAssumption DEF TypeInv, TypeOK
<1> USE <1>0, NullAssumption DEF ProxynameRemover, Finished, SbAt, TmAt, WsAt, LocalsSet,
        WsPc, SbPc, RoutePc,
        DropPc, SignalPc, Issuing, vars, tables, world, outside, wsVars, sbVars, tmVars
<1>1. ASSUME NEW c \in Conn, Connect(c) PROVE ProxynameRemover'
  BY <1>1 DEF Connect
<1>2. ASSUME NEW c \in Conn, NEW r \in Request, NEW p \in Proxy, Route(c, r, p)
      PROVE  ProxynameRemover'
  BY <1>2 DEF Route
<1>3. ASSUME NEW c \in Conn, RouteConnection(c) PROVE ProxynameRemover'
  BY <1>3 DEF RouteConnection
<1>4. ASSUME NEW c \in Conn, RouteService(c) PROVE ProxynameRemover'
  BY <1>4 DEF RouteService
<1>5. ASSUME NEW c \in Conn, RouteProxyname(c) PROVE ProxynameRemover'
  BY <1>5, InTransit DEF RouteProxyname, proxyname_table_set, InTransit
<1>6. ASSUME NEW c \in Conn, Close(c) PROVE ProxynameRemover'
  BY <1>6 DEF Close
<1>7. ASSUME NEW c \in Conn, NEW r \in Request, DropLookup(c, r) PROVE ProxynameRemover'
  BY <1>7 DEF DropLookup
<1>8. ASSUME NEW c \in Conn, DropRequestEntry(c) PROVE ProxynameRemover'
  BY <1>8 DEF DropRequestEntry, request_table_remove
<1>9. ASSUME NEW c \in Conn, DropService(c) PROVE ProxynameRemover'
  BY <1>9 DEF DropService, service_table_remove
<1>10. ASSUME NEW c \in Conn, DropProxyname(c) PROVE ProxynameRemover'
  BY <1>10 DEF DropProxyname, proxyname_table_drop_all
<1>11. ASSUME NEW c \in Conn, IssueLock(c) PROVE ProxynameRemover'
  BY <1>11 DEF IssueLock
<1>12. ASSUME NEW c \in Conn, NEW p \in Proxy, IssueProxy(c, p) PROVE ProxynameRemover'
  BY <1>12 DEF IssueProxy
<1>13. ASSUME NEW c \in Conn, NEW r \in Request, IssueService(c, r)
      PROVE  ProxynameRemover'
  BY <1>13 DEF IssueService
<1>14. ASSUME NEW c \in Conn, IssueProxyname(c) PROVE ProxynameRemover'
  BY <1>14, DropIds DEF IssueProxyname, proxyname_table_set
<1>15. ASSUME NEW c \in Conn, IssueUnlock(c) PROVE ProxynameRemover'
  BY <1>15 DEF IssueUnlock, NoDrops
<1>16. ASSUME NEW c \in Conn, DropConnection(c) PROVE ProxynameRemover'
  BY <1>16 DEF DropConnection
<1>17. ASSUME NEW p \in Proxy, NEW S \in SUBSET Rid, NEW remove \in BOOLEAN,
             Answer(p, S, remove)
      PROVE  ProxynameRemover'
  BY <1>17 DEF Answer
<1>18. ASSUME NEW p \in Proxy, NEW q \in Rid, NEW r \in Request, NEW remove \in BOOLEAN,
             AnswerClear(p, q, r, remove)
      PROVE  ProxynameRemover'
  BY <1>18 DEF AnswerClear
<1>19. ASSUME NEW p \in Proxy, PurgeRequest(p) PROVE ProxynameRemover'
  BY <1>19 DEF PurgeRequest, request_table_remove, request_table_conn
<1>20. ASSUME NEW p \in Proxy, PurgeConnection(p) PROVE ProxynameRemover'
  BY <1>20 DEF PurgeConnection, connection_table_drop
<1>21. ASSUME NEW p \in Proxy, PurgeProxyname(p) PROVE ProxynameRemover'
  BY <1>21 DEF PurgeProxyname, proxyname_table_drop_all
<1>22. ASSUME NEW p \in Proxy, PurgeService(p) PROVE ProxynameRemover'
  BY <1>22 DEF PurgeService, service_table_remove
<1>23. ASSUME NEW p \in Proxy, NEW rid \in Rid, ReplyRequest(p, rid)
      PROVE  ProxynameRemover'
  <2>1. \A q \in Proxy : rid \in Request /\ rid \in proxyname_table[q] => q = p
    BY <1>23, Home, Zenon DEF ReplyRequest, Home
  <2>2. CASE sb_remove[p]
    <3>1. /\ sb_pc[p] = "reply_request"
          /\ \/ sb_pc' = [sb_pc EXCEPT ![p] = "reply_connection"]
             \/ sb_pc' = [sb_pc EXCEPT ![p] = "reply_proxyname"]
          /\ sb_rid' = [sb_rid EXCEPT ![p] = rid]
          /\ request_table' = [r \in Request |-> IF r = rid THEN NoConn ELSE request_table[r]]
          /\ UNCHANGED <<owner, proxyname_table, ws_pc, ws_rid, tm_pc, tm_rid>>
      BY <1>23, <2>2 DEF ReplyRequest, request_table_remove
    <3> QED
      BY <2>1, <3>1, SMTT(30)
  <2>3. CASE ~sb_remove[p]
    BY <1>23, <2>3 DEF ReplyRequest
  <2> QED
    BY <2>2, <2>3
<1>24. ASSUME NEW p \in Proxy, ReplyConnection(p) PROVE ProxynameRemover'
  BY <1>24 DEF ReplyConnection, connection_table_drop
<1>25. ASSUME NEW p \in Proxy, ReplyProxyname(p) PROVE ProxynameRemover'
  BY <1>25 DEF ReplyProxyname, proxyname_table_drop
<1>26. ASSUME NEW p \in Proxy, ReplyService(p) PROVE ProxynameRemover'
  BY <1>26 DEF ReplyService, service_table_remove
<1>27. ASSUME NEW p \in Proxy, ReplyWrite(p) PROVE ProxynameRemover'
  BY <1>27 DEF ReplyWrite
<1>28. CASE TimeoutScan
  BY <1>28 DEF TimeoutScan, Overdue
<1>29. ASSUME NEW r \in Request, TimeoutConn(r) PROVE ProxynameRemover'
  BY <1>29 DEF TimeoutConn
<1>30. CASE TimeoutReply
  BY <1>30 DEF TimeoutReply
<1>31. CASE TimeoutRequest
  BY <1>31 DEF TimeoutRequest, request_table_remove
<1>32. CASE TimeoutConnection
  BY <1>32 DEF TimeoutConnection, connection_table_drop
<1>33. CASE TimeoutService
  BY <1>33 DEF TimeoutService, service_table_remove
<1>34. CASE TimeoutProxyname
  BY <1>34 DEF TimeoutProxyname, proxyname_table_drop_all
<1>35. ASSUME NEW r \in Request, TimePasses(r) PROVE ProxynameRemover'
  BY <1>35 DEF TimePasses, Routing
<1>36. ASSUME NEW p \in Proxy, NEW rid \in Rid, Dispatch(p, rid) PROVE ProxynameRemover'
  BY <1>36 DEF Dispatch
<1>37. ASSUME NEW p \in Proxy, ProxyLost(p) PROVE ProxynameRemover'
  BY <1>37 DEF ProxyLost
<1>38. CASE UNCHANGED vars
  BY <1>38
<1>39. ASSUME NEW c \in Conn, RouteLock(c) PROVE ProxynameRemover'
  BY <1>39 DEF RouteLock
<1>40. ASSUME NEW c \in Conn, RouteSignal(c) PROVE ProxynameRemover'
  BY <1>40 DEF RouteSignal
<1>41. ASSUME NEW c \in Conn, IssueSignal(c) PROVE ProxynameRemover'
  BY <1>41 DEF IssueSignal
<1>42. CASE LocksStep
  BY <1>42 DEF LocksStep, TableTaken, TableLeft, ContextTaken, ContextLeft
<1> HIDE <1>0 DEF ProxynameRemover, Finished, SbAt, TmAt, WsAt, LocalsSet, WsPc, SbPc, RoutePc,
        DropPc, SignalPc, Issuing, vars, tables, world, outside, wsVars, sbVars, tmVars
<1> QED
  BY <1>1, <1>2, <1>3, <1>4, <1>5, <1>6, <1>7, <1>8, <1>9, <1>10, <1>11, <1>12, <1>13,
     <1>14, <1>15, <1>16, <1>17, <1>18, <1>19, <1>20, <1>21, <1>22, <1>23, <1>24, <1>25,
     <1>26, <1>27, <1>28, <1>29, <1>30, <1>31, <1>32, <1>33, <1>34, <1>35, <1>36, <1>37,
     <1>38, <1>39, <1>40, <1>41, <1>42 DEF Next, WsStep, SbStep, TmStep

RemoverInv ==
    /\ InTransit /\ Home /\ ExpiredConn
    /\ ConnectionRemover /\ ServiceRemover /\ ProxynameRemover

\* The invariant holds in every behaviour in which a route ends before its
\* request's timeout does.
LEMMA RemoverInvHolds == PromptRoute /\ Spec => []RemoverInv
<1>1. Init => RemoverInv
  BY DEF Init, RemoverInv, InTransit, Home, ExpiredConn, ConnectionRemover, ServiceRemover,
     ProxynameRemover, Finished, RoutePc
<1>2. ASSUME PromptRoute
      PROVE  /\ TypeInv /\ RegistryInv /\ DropInv /\ RemoverInv
             /\ [Next]_vars
             => RemoverInv'
  BY <1>2, InTransitStep, HomeStep, ExpiredConnStep, ConnectionRemoverStep, ServiceRemoverStep,
     ProxynameRemoverStep DEF RemoverInv
<1>3. ASSUME PromptRoute PROVE Spec => []RemoverInv
  <2>1. TypeInv /\ RegistryInv /\ DropInv /\ RemoverInv /\ [Next]_vars => RemoverInv'
    BY <1>2, <1>3
  <2> QED
    BY <1>1, <2>1, DropInvHolds, PTL DEF Spec
<1> QED
  BY <1>3

\* For any number of connections, proxies and requests: whoever takes a request
\* out of the request table, and however many threads do it at once, each entry
\* of it that another table still has is about to be removed by a thread that is
\* already on its way there (proxysubscribe.c:249-275, clienttimeout.c:61-71,
\* clientservice.c:188-228).
THEOREM LeftoverHasRemover ==
    PromptRoute /\ Spec => [](ConnectionRemover /\ ServiceRemover /\ ProxynameRemover)
<1>1. RemoverInv => ConnectionRemover /\ ServiceRemover /\ ProxynameRemover
  BY DEF RemoverInv
<1> QED
  BY <1>1, RemoverInvHolds, PTL

AtRest ==
    /\ \A c \in Conn : ws_pc[c] = "idle"
    /\ \A p \in Proxy : sb_pc[p] = "idle"
    /\ tm_pc = "idle"

\* Whenever no thread is inside a handler the four tables agree: a request that
\* is out of the request table is out of the three others (the state after which
\* LeftoversGo asks).
THEOREM TablesAgreeAtRest ==
    PromptRoute /\ Spec => [](AtRest => \A r \in Request : ~Leftover(r))
<1>1. RemoverInv => (AtRest => \A r \in Request : ~Leftover(r))
  BY DEF RemoverInv, ConnectionRemover, ServiceRemover, ProxynameRemover, Finished, SbAt, TmAt,
     WsAt, AtRest, Leftover, DropPc, Issuing
<1> QED
  BY <1>1, RemoverInvHolds, PTL

-----------------------------------------------------------------------------
(***************************************************************************)
(* The safety core of CloseEnds, and of the progress of every handler: no  *)
(* loop is entered without an element for its next round, and the lock of  *)
(* the channel thread table has one holder, a worker or somebody outside.  *)
(***************************************************************************)
LoopInv ==
    /\ \A c, d \in Conn : ws_pc[c] \in Holding /\ ws_pc[d] \in Holding => c = d
    /\ table_out => \A c \in Conn : ws_pc[c] \notin Holding
    /\ \A c \in Conn : ws_pc[c] = "issue_service" => ws_todo[c] # {}
    /\ \A p \in Proxy : sb_pc[p] \in {"purge_request", "purge_connection", "purge_proxyname",
                                      "purge_service", "reply_request"} => sb_todo[p] # {}
    /\ tm_pc = "expired_conn" => tm_todo # {}

\* The loops, action by action.
LEMMA LoopStep ==
    ASSUME TypeInv, LoopInv, [Next]_vars
    PROVE  LoopInv'
<1>0. /\ ws_pc \in [Conn -> WsPc]
      /\ ws_todo \in [Conn -> SUBSET Request]
      /\ sb_pc \in [Proxy -> SbPc]
      /\ sb_todo \in [Proxy -> SUBSET Rid]
      /\ tm_todo \in SUBSET Request
  BY DEF TypeInv, TypeOK
<1> USE <1>0 DEF LoopInv, Holding, WsPc, SbPc, TmPc, RoutePc, DropPc, SignalPc, Issuing,
        vars, tables, world, outside,
        wsVars, sbVars, tmVars
<1>1. ASSUME NEW c \in Conn, Connect(c) PROVE LoopInv'
  BY <1>1 DEF Connect
<1>2. ASSUME NEW c \in Conn, NEW r \in Request, NEW p \in Proxy, Route(c, r, p)
      PROVE  LoopInv'
  BY <1>2 DEF Route
<1>3. ASSUME NEW c \in Conn, RouteConnection(c) PROVE LoopInv'
  BY <1>3 DEF RouteConnection
<1>4. ASSUME NEW c \in Conn, RouteService(c) PROVE LoopInv'
  BY <1>4 DEF RouteService
<1>5. ASSUME NEW c \in Conn, RouteProxyname(c) PROVE LoopInv'
  BY <1>5 DEF RouteProxyname, proxyname_table_set
<1>6. ASSUME NEW c \in Conn, Close(c) PROVE LoopInv'
  BY <1>6 DEF Close
<1>7. ASSUME NEW c \in Conn, NEW r \in Request, DropLookup(c, r) PROVE LoopInv'
  BY <1>7 DEF DropLookup
<1>8. ASSUME NEW c \in Conn, DropRequestEntry(c) PROVE LoopInv'
  BY <1>8 DEF DropRequestEntry, request_table_remove
<1>9. ASSUME NEW c \in Conn, DropService(c) PROVE LoopInv'
  BY <1>9 DEF DropService, service_table_remove
<1>10. ASSUME NEW c \in Conn, DropProxyname(c) PROVE LoopInv'
  BY <1>10 DEF DropProxyname, proxyname_table_drop_all
<1>11. ASSUME NEW c \in Conn, IssueLock(c) PROVE LoopInv'
  BY <1>11 DEF IssueLock, TableFree
<1>12. ASSUME NEW c \in Conn, NEW p \in Proxy, IssueProxy(c, p) PROVE LoopInv'
  BY <1>12 DEF IssueProxy
<1>13. ASSUME NEW c \in Conn, NEW r \in Request, IssueService(c, r)
      PROVE  LoopInv'
  BY <1>13 DEF IssueService
<1>14. ASSUME NEW c \in Conn, IssueProxyname(c) PROVE LoopInv'
  BY <1>14 DEF IssueProxyname, proxyname_table_set
<1>15. ASSUME NEW c \in Conn, IssueUnlock(c) PROVE LoopInv'
  BY <1>15 DEF IssueUnlock, NoDrops
<1>16. ASSUME NEW c \in Conn, DropConnection(c) PROVE LoopInv'
  BY <1>16 DEF DropConnection
<1>17. ASSUME NEW p \in Proxy, NEW S \in SUBSET Rid, NEW remove \in BOOLEAN,
             Answer(p, S, remove)
      PROVE  LoopInv'
  BY <1>17 DEF Answer
<1>18. ASSUME NEW p \in Proxy, NEW q \in Rid, NEW r \in Request, NEW remove \in BOOLEAN,
             AnswerClear(p, q, r, remove)
      PROVE  LoopInv'
  BY <1>18 DEF AnswerClear
<1>19. ASSUME NEW p \in Proxy, PurgeRequest(p) PROVE LoopInv'
  BY <1>19 DEF PurgeRequest, request_table_remove, request_table_conn
<1>20. ASSUME NEW p \in Proxy, PurgeConnection(p) PROVE LoopInv'
  BY <1>20 DEF PurgeConnection, connection_table_drop
<1>21. ASSUME NEW p \in Proxy, PurgeProxyname(p) PROVE LoopInv'
  BY <1>21 DEF PurgeProxyname, proxyname_table_drop_all
<1>22. ASSUME NEW p \in Proxy, PurgeService(p) PROVE LoopInv'
  BY <1>22 DEF PurgeService, service_table_remove
<1>23. ASSUME NEW p \in Proxy, NEW rid \in Rid, ReplyRequest(p, rid)
      PROVE  LoopInv'
  <2>1. CASE sb_remove[p] /\ request_table_conn(rid) = NoConn
    BY <1>23, <2>1 DEF ReplyRequest, request_table_remove, request_table_conn
  <2>2. CASE sb_remove[p] /\ request_table_conn(rid) # NoConn
    BY <1>23, <2>2 DEF ReplyRequest, request_table_remove, request_table_conn
  <2>3. CASE ~sb_remove[p]
    BY <1>23, <2>3 DEF ReplyRequest
  <2> QED
    BY <2>1, <2>2, <2>3
<1>24. ASSUME NEW p \in Proxy, ReplyConnection(p) PROVE LoopInv'
  BY <1>24 DEF ReplyConnection, connection_table_drop
<1>25. ASSUME NEW p \in Proxy, ReplyProxyname(p) PROVE LoopInv'
  BY <1>25 DEF ReplyProxyname, proxyname_table_drop
<1>26. ASSUME NEW p \in Proxy, ReplyService(p) PROVE LoopInv'
  BY <1>26 DEF ReplyService, service_table_remove
<1>27. ASSUME NEW p \in Proxy, ReplyWrite(p) PROVE LoopInv'
  BY <1>27 DEF ReplyWrite
<1>28. CASE TimeoutScan
  BY <1>28 DEF TimeoutScan, Overdue
<1>29. ASSUME NEW r \in Request, TimeoutConn(r) PROVE LoopInv'
  BY <1>29 DEF TimeoutConn
<1>30. CASE TimeoutReply
  BY <1>30 DEF TimeoutReply
<1>31. CASE TimeoutRequest
  BY <1>31 DEF TimeoutRequest, request_table_remove
<1>32. CASE TimeoutConnection
  BY <1>32 DEF TimeoutConnection, connection_table_drop
<1>33. CASE TimeoutService
  BY <1>33 DEF TimeoutService, service_table_remove
<1>34. CASE TimeoutProxyname
  BY <1>34 DEF TimeoutProxyname, proxyname_table_drop_all
<1>35. ASSUME NEW r \in Request, TimePasses(r) PROVE LoopInv'
  BY <1>35 DEF TimePasses, Routing
<1>36. ASSUME NEW p \in Proxy, NEW rid \in Rid, Dispatch(p, rid) PROVE LoopInv'
  BY <1>36 DEF Dispatch
<1>37. ASSUME NEW p \in Proxy, ProxyLost(p) PROVE LoopInv'
  BY <1>37 DEF ProxyLost
<1>38. CASE UNCHANGED vars
  BY <1>38
<1>39. ASSUME NEW c \in Conn, RouteLock(c) PROVE LoopInv'
  BY <1>39 DEF RouteLock, TableFree
<1>40. ASSUME NEW c \in Conn, RouteSignal(c) PROVE LoopInv'
  BY <1>40 DEF RouteSignal
<1>41. ASSUME NEW c \in Conn, IssueSignal(c) PROVE LoopInv'
  BY <1>41 DEF IssueSignal
<1>42. CASE LocksStep
  BY <1>42 DEF LocksStep, TableFree, TableTaken, TableLeft, ContextTaken, ContextLeft
<1> HIDE <1>0 DEF LoopInv, Holding, WsPc, SbPc, TmPc, RoutePc, DropPc, SignalPc, Issuing,
        vars, tables, world, outside,
         wsVars, sbVars, tmVars
<1> QED
  BY <1>1, <1>2, <1>3, <1>4, <1>5, <1>6, <1>7, <1>8, <1>9, <1>10, <1>11, <1>12, <1>13,
     <1>14, <1>15, <1>16, <1>17, <1>18, <1>19, <1>20, <1>21, <1>22, <1>23, <1>24, <1>25,
     <1>26, <1>27, <1>28, <1>29, <1>30, <1>31, <1>32, <1>33, <1>34, <1>35, <1>36, <1>37,
     <1>38, <1>39, <1>40, <1>41, <1>42 DEF Next, WsStep, SbStep, TmStep

(* Where c's worker goes on, which of its calls takes the channel thread    *)
(* table or a context, and who may have it then.                            *)
WorkerGoesOn(c) ==
    \/ ws_pc[c] \in {"route_connection", "route_service", "route_proxyname", "drop_request",
                     "drop_service", "drop_proxyname", "issue_proxyname", "drop_connection"}
    \/ ws_pc[c] \in {"drop_next", "issue_service"} /\ \E r \in Request : r \in ws_todo[c]
    \/ AwaitsTable(c) /\ TableFree
    \/ ws_pc[c] \in {"route_signal", "issue_signal"} /\ ws_proxy[c] \notin ctx_out
    \/ ws_pc[c] = "issue_next" /\ \/ ws_drops[c] = NoDrops
                                  \/ \E p \in Proxy : ws_drops[c][p] # {}

\* It waits for a context that its channel thread has.
WaitsForContext(c) == \E p \in ctx_out : AwaitsContext(c, p)

\* It waits for the table, which somebody outside has, or the one worker d, who goes on
\* or waits for a context.
WaitsForTable(c) ==
    /\ AwaitsTable(c)
    /\ \/ table_out
       \/ \E d \in Conn : /\ ws_pc[d] \in Holding
                          /\ \A e \in Conn : ws_pc[e] \in Holding => e = d
                          /\ WorkerGoesOn(d) \/ WaitsForContext(d)

\* For any number of connections and proxies: workers make no circle.  One that
\* is in a handler goes on, or waits for a context that a channel thread has, or for the
\* channel thread table, which somebody outside has or one other worker, who goes on or
\* waits for such a context; and no answer and no expiry stops in the middle
\* (clientservice.c:157-228, proxysubscribe.c:201-274, clienttimeout.c:60-74).
THEOREM HandlersGoOn ==
    Spec => [](/\ \A c \in Conn :
                     \/ ws_pc[c] = "idle" \/ WorkerGoesOn(c)
                     \/ WaitsForContext(c) \/ WaitsForTable(c)
               /\ \A p \in Proxy : sb_pc[p] = "reply_request" =>
                     \E rid \in Rid : rid \in sb_todo[p]
               /\ tm_pc = "expired_conn" => \E r \in Request : r \in tm_todo)
<1> DEFINE GoesOn ==
        /\ \A c \in Conn :
              \/ ws_pc[c] = "idle" \/ WorkerGoesOn(c)
              \/ WaitsForContext(c) \/ WaitsForTable(c)
        /\ \A p \in Proxy : sb_pc[p] = "reply_request" => \E rid \in Rid : rid \in sb_todo[p]
        /\ tm_pc = "expired_conn" => \E r \in Request : r \in tm_todo
<1>1. Init => LoopInv
  BY DEF Init, LoopInv, Holding, Issuing
<1>2. TypeInv /\ LoopInv /\ [Next]_vars => LoopInv'
  BY LoopStep
<1>3. TypeInv /\ LoopInv => GoesOn
  <2> SUFFICES ASSUME TypeInv, LoopInv PROVE GoesOn
    OBVIOUS
  <2>0. /\ ws_pc \in [Conn -> WsPc]
        /\ ws_todo \in [Conn -> SUBSET Request]
        /\ ws_drops \in [Conn -> [Proxy -> SUBSET Request]]
        /\ sb_todo \in [Proxy -> SUBSET Rid]
        /\ tm_todo \in SUBSET Request
    BY DEF TypeInv, TypeOK
  <2>1. ASSUME NEW c \in Conn, ws_pc[c] \in Holding
        PROVE  WorkerGoesOn(c) \/ WaitsForContext(c)
    <3>1. ws_drops[c] = NoDrops \/ \E p \in Proxy : ws_drops[c][p] # {}
      BY <2>0 DEF NoDrops
    <3>2. CASE ws_pc[c] \in {"route_signal", "issue_signal"}
      BY <3>2 DEF WorkerGoesOn, WaitsForContext, AwaitsContext
    <3>3. CASE ws_pc[c] \in {"issue_next", "issue_service", "issue_proxyname"}
      BY <2>0, <3>1, <3>3 DEF LoopInv, WorkerGoesOn
    <3> QED
      BY <2>1, <3>2, <3>3 DEF Holding, Issuing
  <2>2. ASSUME NEW c \in Conn, ws_pc[c] # "idle"
        PROVE  WorkerGoesOn(c) \/ WaitsForContext(c) \/ WaitsForTable(c)
    <3>1. CASE ws_pc[c] \in Holding
      BY <2>1, <3>1
    <3>2. CASE AwaitsTable(c) /\ \E d \in Conn : ws_pc[d] \in Holding
      <4>1. PICK d \in Conn : ws_pc[d] \in Holding
        BY <3>2
      <4>2. /\ WorkerGoesOn(d) \/ WaitsForContext(d)
            /\ \A e \in Conn : ws_pc[e] \in Holding => e = d
        BY <2>1, <4>1 DEF LoopInv
      <4> QED
        BY <3>2, <4>1, <4>2 DEF WaitsForTable
    <3>3. CASE AwaitsTable(c) /\ ~(\E d \in Conn : ws_pc[d] \in Holding)
      BY <3>3 DEF WorkerGoesOn, WaitsForTable, TableFree
    <3>4. CASE ws_pc[c] \notin Holding /\ ~AwaitsTable(c)
      BY <2>0, <2>2, <3>4 DEF WorkerGoesOn, WsPc, RoutePc, DropPc, SignalPc, Holding, Issuing,
         AwaitsTable
    <3> QED
      BY <3>1, <3>2, <3>3, <3>4
  <2>3. \A p \in Proxy : sb_pc[p] = "reply_request" => \E rid \in Rid : rid \in sb_todo[p]
    BY <2>0 DEF LoopInv
  <2>4. tm_pc = "expired_conn" => \E r \in Request : r \in tm_todo
    BY <2>0 DEF LoopInv
  <2> QED
    BY <2>2, <2>3, <2>4
<1> QED
  <2> HIDE DEF GoesOn
  <2>1. Spec => []GoesOn
    BY <1>1, <1>2, <1>3, TypeInit, TypeStep, PTL DEF Spec
  <2> QED
    BY <2>1 DEF GoesOn

=============================================================================
