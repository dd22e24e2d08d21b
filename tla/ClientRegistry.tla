--------------------------- MODULE ClientRegistry --------------------------
(***************************************************************************)
(* The four tables in which gonggo keeps its clients' requests and the     *)
(* three kinds of threads that change them without any lock spanning two   *)
(* tables:                                                                 *)
(*   - a websocket worker per connection: client_service_route and         *)
(*     client_service_drop_conn (clientservice.c);                         *)
(*   - the subscribe thread of each proxy: proxy_subscribe_exchange        *)
(*     (proxysubscribe.c);                                                 *)
(*   - the client timeout thread: client_timeout (clienttimeout.c).        *)
(* Each call of a table function holds that table's mutex from its first   *)
(* to its last line and is one action; between two calls every other       *)
(* thread may run.  The channel thread of a proxy and the proxy process    *)
(* appear only by what they do to the tables (Dispatch, ProxyLost).        *)
(***************************************************************************)
EXTENDS Naturals

CONSTANTS
    Conn,         \* mg_connection structures; the web server uses them again
    Proxy,        \* proxy names
    Request,      \* request ids that clients choose
    Expiring,     \* bound: the requests whose timeout may elapse
    NoConn, NoProxy, NoRequest,
    MaxSession,   \* bound: websocket sessions in a behaviour
    MaxLoss,      \* bound: proxies lost in a behaviour
    PromptRoute   \* TRUE: a route ends before its request's timeout does

ASSUME NullAssumption ==
    /\ NoConn \notin Conn
    /\ NoProxy \notin Proxy
    /\ NoRequest \notin Request
ASSUME BoundAssumption ==
    MaxSession \in Nat /\ MaxLoss \in Nat /\ Expiring \subseteq Request
ASSUME PromptAssumption == PromptRoute \in BOOLEAN

\* The uuid drop_conn makes for the gonggorequestdrop request that drops r.
DropId(r) == <<"drop", r>>
DropRequest == {DropId(r) : r \in Request}
Rid == Request \union DropRequest
ASSUME DropIdAssumption == NoRequest \notin DropRequest /\ Request \cap DropRequest = {}

VARIABLES
    \* the tables
    request_table,     \* client_request_table: rid -> conn
    fresh,             \* the rids in it whose timestamp + timeoutsec >= now
    connection_table,  \* client_connection_table: conn -> rids ({}: no key)
    service_table,     \* client_service_table: the rids that are keys
    proxyname_table,   \* client_proxyname_table: proxy -> request_uuids
    sent,              \* its sents flags: the rids whose flag is true
    \* the outside world
    session,           \* the session a connection structure serves, 0: none
    last_session,
    owner,             \* the session that submitted a rid, 0: rid not used
    held,              \* the requests a proxy process works on
    losses,            \* how many proxies were lost
    \* locks that REST workers, the killer and the channel threads have
    table_out,         \* one of them has proxy_channel_thread_table_lock
    ctx_out,           \* the proxies whose ProxyChannelContext.lock one has
    \* the threads' program counters and locals
    ws_pc, ws_rid, ws_proxy, ws_todo, ws_drops,
    sb_pc, sb_rid, sb_conn, sb_todo, sb_remove,
    tm_pc, tm_rid, tm_conn, tm_todo

tables == <<request_table, fresh, connection_table, service_table,
            proxyname_table, sent>>
outside == <<table_out, ctx_out>>
world == <<session, last_session, owner, held, losses, outside>>
wsVars == <<ws_pc, ws_rid, ws_proxy, ws_todo, ws_drops>>
sbVars == <<sb_pc, sb_rid, sb_conn, sb_todo, sb_remove>>
tmVars == <<tm_pc, tm_rid, tm_conn, tm_todo>>
vars == <<tables, world, wsVars, sbVars, tmVars>>

NoDrops == [p \in Proxy |-> {}]

Init ==
    /\ request_table = [r \in Request |-> NoConn]
    /\ fresh = {}
    /\ connection_table = [c \in Conn |-> {}]
    /\ service_table = {}
    /\ proxyname_table = [p \in Proxy |-> {}]
    /\ sent = {}
    /\ session = [c \in Conn |-> 0]
    /\ last_session = 0
    /\ owner = [r \in Request |-> 0]
    /\ held = [p \in Proxy |-> {}]
    /\ losses = 0
    /\ table_out = FALSE
    /\ ctx_out = {}
    /\ ws_pc = [c \in Conn |-> "idle"]
    /\ ws_rid = [c \in Conn |-> NoRequest]
    /\ ws_proxy = [c \in Conn |-> NoProxy]
    /\ ws_todo = [c \in Conn |-> {}]
    /\ ws_drops = [c \in Conn |-> NoDrops]
    /\ sb_pc = [p \in Proxy |-> "idle"]
    /\ sb_rid = [p \in Proxy |-> NoRequest]
    /\ sb_conn = [p \in Proxy |-> NoConn]
    /\ sb_todo = [p \in Proxy |-> {}]
    /\ sb_remove = [p \in Proxy |-> FALSE]
    /\ tm_pc = "idle"
    /\ tm_rid = NoRequest
    /\ tm_conn = NoConn
    /\ tm_todo = {}

-----------------------------------------------------------------------------
(***************************************************************************)
(* The table functions.  A rid that is not a key (a drop rid is never one  *)
(* of the request table) is left alone by the removals.                    *)
(***************************************************************************)
request_table_conn(rid) == IF rid \in Request THEN request_table[rid] ELSE NoConn

request_table_remove(rid) ==
    /\ request_table' = [r \in Request |-> IF r = rid THEN NoConn ELSE request_table[r]]
    /\ fresh' = fresh \ {rid}

connection_table_drop(c, rid) ==
    connection_table' = [connection_table EXCEPT ![c] = @ \ {rid}]

service_table_remove(rid) == service_table' = service_table \ {rid}

\* A new element of request_uuids comes with sents = false.
proxyname_table_set(p, rid) ==
    proxyname_table' = [proxyname_table EXCEPT ![p] = @ \union {rid}]

proxyname_table_drop(p, rid) ==
    /\ proxyname_table' = [proxyname_table EXCEPT ![p] = @ \ {rid}]
    /\ sent' = IF rid \in proxyname_table[p] THEN sent \ {rid} ELSE sent

\* Mutant: the search ends at the first proxy, whether it has the rid or not.
proxyname_table_drop_all_first(rid) == \E p \in Proxy : proxyname_table_drop(p, rid)

proxyname_table_drop_all(rid) ==
    /\ proxyname_table' = [p \in Proxy |-> proxyname_table[p] \ {rid}]
    /\ sent' = sent \ {rid}

-----------------------------------------------------------------------------
(***************************************************************************)
(* The websocket worker of connection c: client_service_route.             *)
(***************************************************************************)
Connect(c) ==
    /\ session[c] = 0
    /\ last_session < MaxSession
    /\ last_session' = last_session + 1
    /\ session' = [session EXCEPT ![c] = last_session + 1]
    /\ UNCHANGED <<tables, owner, held, losses, outside, wsVars, sbVars, tmVars>>

\* A rid is a unique UUID, so no route meets an older entry of its rid.
Route(c, r, p) ==
    /\ session[c] # 0
    /\ ws_pc[c] = "idle"
    /\ owner[r] = 0
    /\ owner' = [owner EXCEPT ![r] = session[c]]
    /\ request_table' = [request_table EXCEPT ![r] = c]
    /\ fresh' = fresh \union {r}
    /\ ws_pc' = [ws_pc EXCEPT ![c] = "route_connection"]
    /\ ws_rid' = [ws_rid EXCEPT ![c] = r]
    /\ ws_proxy' = [ws_proxy EXCEPT ![c] = p]
    /\ UNCHANGED <<connection_table, service_table, proxyname_table, sent,
                   session, last_session, held, losses, outside, ws_todo, ws_drops,
                   sbVars, tmVars>>

RouteConnection(c) ==
    /\ ws_pc[c] = "route_connection"
    /\ connection_table' = [connection_table EXCEPT ![c] = @ \union {ws_rid[c]}]
    /\ ws_pc' = [ws_pc EXCEPT ![c] = "route_service"]
    /\ UNCHANGED <<request_table, fresh, service_table, proxyname_table, sent,
                   world, ws_rid, ws_proxy, ws_todo, ws_drops, sbVars, tmVars>>

RouteService(c) ==
    /\ ws_pc[c] = "route_service"
    /\ service_table' = service_table \union {ws_rid[c]}
    /\ ws_pc' = [ws_pc EXCEPT ![c] = "route_proxyname"]
    /\ UNCHANGED <<request_table, fresh, connection_table, proxyname_table, sent,
                   world, ws_rid, ws_proxy, ws_todo, ws_drops, sbVars, tmVars>>

RouteProxyname(c) ==
    /\ ws_pc[c] = "route_proxyname"
    /\ proxyname_table_set(ws_proxy[c], ws_rid[c])
    /\ ws_pc' = [ws_pc EXCEPT ![c] = "route_lock"]
    /\ ws_rid' = [ws_rid EXCEPT ![c] = NoRequest]
    /\ UNCHANGED <<request_table, fresh, connection_table, service_table, sent,
                   world, ws_proxy, ws_todo, ws_drops, sbVars, tmVars>>

\* The workers here that have the channel thread table locked.
Issuing == {"issue_next", "issue_service", "issue_proxyname", "issue_signal"}
Holding == Issuing \union {"route_signal"}
TableFree == ~table_out /\ \A d \in Conn : ws_pc[d] \notin Holding

\* With the table locked, proxy_channel_thread_table_get finds the proxy's channel or
\* not: if it does, the worker goes on to the context's lock.
RouteLock(c) ==
    /\ ws_pc[c] = "route_lock"
    /\ TableFree
    /\ \/ /\ ws_pc' = [ws_pc EXCEPT ![c] = "route_signal"]
          /\ UNCHANGED ws_proxy
       \/ /\ ws_pc' = [ws_pc EXCEPT ![c] = "idle"]
          /\ ws_proxy' = [ws_proxy EXCEPT ![c] = NoProxy]
    /\ UNCHANGED <<tables, world, ws_rid, ws_todo, ws_drops, sbVars, tmVars>>

\* The wakeup is signalled and both locks are released.
RouteSignal(c) ==
    /\ ws_pc[c] = "route_signal"
    /\ ws_proxy[c] \notin ctx_out
    /\ ws_pc' = [ws_pc EXCEPT ![c] = "idle"]
    /\ ws_proxy' = [ws_proxy EXCEPT ![c] = NoProxy]
    /\ UNCHANGED <<tables, world, ws_rid, ws_todo, ws_drops, sbVars, tmVars>>

-----------------------------------------------------------------------------
(***************************************************************************)
(* The same worker when its connection closes: client_service_drop_conn.   *)
(* First every request of the connection leaves the tables, then, with the *)
(* channel thread table locked, each proxy that had some gets a drop       *)
(* request for each, and a wakeup, if its channel is registered, and last  *)
(* the connection leaves the connection table.                             *)
(***************************************************************************)
Close(c) ==
    /\ session[c] # 0
    /\ ws_pc[c] = "idle"
    /\ IF connection_table[c] = {}
          THEN /\ session' = [session EXCEPT ![c] = 0]
               /\ UNCHANGED <<ws_pc, ws_todo>>
          ELSE /\ ws_todo' = [ws_todo EXCEPT ![c] = connection_table[c]]
               /\ ws_pc' = [ws_pc EXCEPT ![c] = "drop_next"]
               /\ UNCHANGED session
    /\ UNCHANGED <<tables, last_session, owner, held, losses, outside, ws_rid,
                   ws_proxy, ws_drops, sbVars, tmVars>>

\* Mutant: the index of the loop is not advanced.
DropLookup_again(c, r) ==
    /\ ws_pc[c] = "drop_next"
    /\ r \in ws_todo[c]
    /\ ws_rid' = [ws_rid EXCEPT ![c] = r]
    /\ ws_drops' = [ws_drops EXCEPT ![c] =
           [p \in Proxy |-> IF r \in proxyname_table[p] THEN @[p] \union {r} ELSE @[p]]]
    /\ ws_pc' = [ws_pc EXCEPT ![c] = "drop_request"]
    /\ UNCHANGED <<tables, world, ws_proxy, ws_todo, sbVars, tmVars>>

\* proxy_name_dup, and the copy of the pair in the private table.
DropLookup(c, r) ==
    /\ ws_pc[c] = "drop_next"
    /\ r \in ws_todo[c]
    /\ ws_rid' = [ws_rid EXCEPT ![c] = r]
    /\ ws_todo' = [ws_todo EXCEPT ![c] = @ \ {r}]
    /\ ws_drops' = [ws_drops EXCEPT ![c] =
           [p \in Proxy |-> IF r \in proxyname_table[p] THEN @[p] \union {r} ELSE @[p]]]
    /\ ws_pc' = [ws_pc EXCEPT ![c] = "drop_request"]
    /\ UNCHANGED <<tables, world, ws_proxy, sbVars, tmVars>>

\* Mutant: the request stays in the request table.
DropRequestEntry_kept(c) ==
    /\ ws_pc[c] = "drop_request"
    /\ ws_pc' = [ws_pc EXCEPT ![c] = "drop_service"]
    /\ UNCHANGED <<tables, world, ws_rid, ws_proxy, ws_todo, ws_drops, sbVars, tmVars>>

DropRequestEntry(c) ==
    /\ ws_pc[c] = "drop_request"
    /\ request_table_remove(ws_rid[c])
    /\ ws_pc' = [ws_pc EXCEPT ![c] = "drop_service"]
    /\ UNCHANGED <<connection_table, service_table, proxyname_table, sent, world,
                   ws_rid, ws_proxy, ws_todo, ws_drops, sbVars, tmVars>>

DropService(c) ==
    /\ ws_pc[c] = "drop_service"
    /\ service_table_remove(ws_rid[c])
    /\ ws_pc' = [ws_pc EXCEPT ![c] = "drop_proxyname"]
    /\ UNCHANGED <<request_table, fresh, connection_table, proxyname_table, sent,
                   world, ws_rid, ws_proxy, ws_todo, ws_drops, sbVars, tmVars>>

DropProxyname(c) ==
    /\ ws_pc[c] = "drop_proxyname"
    /\ proxyname_table_drop_all(ws_rid[c])
    /\ ws_pc' = [ws_pc EXCEPT ![c] = "drop_next"]
    /\ ws_rid' = [ws_rid EXCEPT ![c] = NoRequest]
    /\ UNCHANGED <<request_table, fresh, connection_table, service_table,
                   world, ws_proxy, ws_todo, ws_drops, sbVars, tmVars>>

\* proxy_channel_thread_table_lock_hold(true)
IssueLock(c) ==
    /\ ws_pc[c] = "drop_next"
    /\ ws_todo[c] = {}
    /\ TableFree
    /\ ws_pc' = [ws_pc EXCEPT ![c] = "issue_next"]
    /\ UNCHANGED <<tables, world, ws_rid, ws_proxy, ws_todo, ws_drops, sbVars, tmVars>>

\* The next proxy of the private table; the disjuncts are the two answers of
\* proxy_channel_thread_table_get.
IssueProxy(c, p) ==
    /\ ws_pc[c] = "issue_next"
    /\ ws_drops[c][p] # {}
    /\ ws_drops' = [ws_drops EXCEPT ![c] = [@ EXCEPT ![p] = {}]]
    /\ \/ /\ ws_proxy' = [ws_proxy EXCEPT ![c] = p]
          /\ ws_todo' = [ws_todo EXCEPT ![c] = ws_drops[c][p]]
          /\ ws_pc' = [ws_pc EXCEPT ![c] = "issue_service"]
       \/ UNCHANGED <<ws_pc, ws_proxy, ws_todo>>
    /\ UNCHANGED <<tables, world, ws_rid, sbVars, tmVars>>

IssueService(c, r) ==
    /\ ws_pc[c] = "issue_service"
    /\ r \in ws_todo[c]
    /\ service_table' = service_table \union {DropId(r)}
    /\ ws_rid' = [ws_rid EXCEPT ![c] = r]
    /\ ws_todo' = [ws_todo EXCEPT ![c] = @ \ {r}]
    /\ ws_pc' = [ws_pc EXCEPT ![c] = "issue_proxyname"]
    /\ UNCHANGED <<request_table, fresh, connection_table, proxyname_table, sent,
                   world, ws_proxy, ws_drops, sbVars, tmVars>>

\* Mutant: the connection is given its drop request, like any other.
IssueProxyname_listed(c) ==
    /\ ws_pc[c] = "issue_proxyname"
    /\ proxyname_table_set(ws_proxy[c], DropId(ws_rid[c]))
    /\ connection_table' = [connection_table EXCEPT ![c] = @ \union {DropId(ws_rid[c])}]
    /\ ws_rid' = [ws_rid EXCEPT ![c] = NoRequest]
    /\ ws_pc' = [ws_pc EXCEPT ![c] = "issue_next"]
    /\ UNCHANGED <<request_table, fresh, service_table, sent, world, ws_proxy, ws_todo,
                   ws_drops, sbVars, tmVars>>

IssueProxyname(c) ==
    /\ ws_pc[c] = "issue_proxyname"
    /\ proxyname_table_set(ws_proxy[c], DropId(ws_rid[c]))
    /\ ws_rid' = [ws_rid EXCEPT ![c] = NoRequest]
    /\ IF ws_todo[c] = {}
          THEN ws_pc' = [ws_pc EXCEPT ![c] = "issue_signal"]
          ELSE ws_pc' = [ws_pc EXCEPT ![c] = "issue_service"]
    /\ UNCHANGED <<request_table, fresh, connection_table, service_table, sent,
                   world, ws_proxy, ws_todo, ws_drops, sbVars, tmVars>>

\* The proxy's channel thread is woken, under the context's lock.
IssueSignal(c) ==
    /\ ws_pc[c] = "issue_signal"
    /\ ws_proxy[c] \notin ctx_out
    /\ ws_pc' = [ws_pc EXCEPT ![c] = "issue_next"]
    /\ ws_proxy' = [ws_proxy EXCEPT ![c] = NoProxy]
    /\ UNCHANGED <<tables, world, ws_rid, ws_todo, ws_drops, sbVars, tmVars>>

\* proxy_channel_thread_table_lock_hold(false)
IssueUnlock(c) ==
    /\ ws_pc[c] = "issue_next"
    /\ ws_drops[c] = NoDrops
    /\ ws_pc' = [ws_pc EXCEPT ![c] = "drop_connection"]
    /\ UNCHANGED <<tables, world, ws_rid, ws_proxy, ws_todo, ws_drops, sbVars, tmVars>>

\* The close handler returns and the web server may use the structure again.
DropConnection(c) ==
    /\ ws_pc[c] = "drop_connection"
    /\ connection_table' = [connection_table EXCEPT ![c] = {}]
    /\ session' = [session EXCEPT ![c] = 0]
    /\ ws_pc' = [ws_pc EXCEPT ![c] = "idle"]
    /\ UNCHANGED <<request_table, fresh, service_table, proxyname_table, sent,
                   last_session, owner, held, losses, outside, ws_rid, ws_proxy,
                   ws_todo, ws_drops, sbVars, tmVars>>

WsStep(c) ==
    \/ RouteConnection(c) \/ RouteService(c) \/ RouteProxyname(c)
    \/ RouteLock(c) \/ RouteSignal(c)
    \/ \E r \in Request : DropLookup(c, r) \/ IssueService(c, r)
    \/ DropRequestEntry(c) \/ DropService(c) \/ DropProxyname(c)
    \/ IssueLock(c) \/ (\E p \in Proxy : IssueProxy(c, p)) \/ IssueProxyname(c)
    \/ IssueSignal(c) \/ IssueUnlock(c) \/ DropConnection(c)

-----------------------------------------------------------------------------
(***************************************************************************)
(* The subscribe thread of proxy p.  The answer of a proxy carries the rid *)
(* or rids S it answers and remove_request; a MULTIRESPOND_CLEAR_SUCCESS   *)
(* one answers the single request q that asked (a client's or drop_conn's) *)
(* and names in its payload the rid r that is cleared.  The proxy waits    *)
(* for SUBSCRIBE_DONE before its next answer.                              *)
(***************************************************************************)
Answer(p, S, remove) ==
    /\ sb_pc[p] = "idle"
    /\ S # {}
    /\ S \subseteq held[p]
    /\ sb_todo' = [sb_todo EXCEPT ![p] = S]
    /\ sb_remove' = [sb_remove EXCEPT ![p] = remove]
    /\ sb_pc' = [sb_pc EXCEPT ![p] = "reply_request"]
    /\ held' = [held EXCEPT ![p] = IF remove THEN @ \ S ELSE @]
    /\ UNCHANGED <<tables, session, last_session, owner, losses, outside, wsVars,
                   sb_rid, sb_conn, tmVars>>

AnswerClear(p, q, r, remove) ==
    /\ sb_pc[p] = "idle"
    /\ {q, r} \subseteq held[p]
    /\ q # r
    /\ sb_todo' = [sb_todo EXCEPT ![p] = {q}]
    /\ sb_remove' = [sb_remove EXCEPT ![p] = remove]
    /\ sb_rid' = [sb_rid EXCEPT ![p] = r]
    /\ sb_pc' = [sb_pc EXCEPT ![p] = "purge_request"]
    /\ held' = [held EXCEPT ![p] = @ \ (IF remove THEN {q, r} ELSE {r})]
    /\ UNCHANGED <<tables, session, last_session, owner, losses, outside, wsVars,
                   sb_conn, tmVars>>

PurgeRequest(p) ==
    /\ sb_pc[p] = "purge_request"
    /\ LET conn == request_table_conn(sb_rid[p])
       IN  /\ sb_conn' = [sb_conn EXCEPT ![p] = conn]
           /\ sb_pc' = [sb_pc EXCEPT ![p] =
                  IF conn = NoConn THEN "purge_proxyname" ELSE "purge_connection"]
    /\ request_table_remove(sb_rid[p])
    /\ UNCHANGED <<connection_table, service_table, proxyname_table, sent, world,
                   wsVars, sb_rid, sb_todo, sb_remove, tmVars>>

PurgeConnection(p) ==
    /\ sb_pc[p] = "purge_connection"
    /\ connection_table_drop(sb_conn[p], sb_rid[p])
    /\ sb_pc' = [sb_pc EXCEPT ![p] = "purge_proxyname"]
    /\ UNCHANGED <<request_table, fresh, service_table, proxyname_table, sent, world,
                   wsVars, sb_rid, sb_conn, sb_todo, sb_remove, tmVars>>

PurgeProxyname(p) ==
    /\ sb_pc[p] = "purge_proxyname"
    /\ proxyname_table_drop_all(sb_rid[p])
    /\ sb_pc' = [sb_pc EXCEPT ![p] = "purge_service"]
    /\ UNCHANGED <<request_table, fresh, connection_table, service_table, world,
                   wsVars, sb_rid, sb_conn, sb_todo, sb_remove, tmVars>>

PurgeService(p) ==
    /\ sb_pc[p] = "purge_service"
    /\ service_table_remove(sb_rid[p])
    /\ sb_rid' = [sb_rid EXCEPT ![p] = NoRequest]
    /\ sb_conn' = [sb_conn EXCEPT ![p] = NoConn]
    /\ sb_pc' = [sb_pc EXCEPT ![p] = "reply_request"]
    /\ UNCHANGED <<request_table, fresh, connection_table, proxyname_table, sent,
                   world, wsVars, sb_todo, sb_remove, tmVars>>

\* Mutant: get_conn is asked to remove nothing.
ReplyRequest_kept(p, rid) ==
    /\ sb_pc[p] = "reply_request"
    /\ rid \in sb_todo[p]
    /\ sb_rid' = [sb_rid EXCEPT ![p] = rid]
    /\ sb_todo' = [sb_todo EXCEPT ![p] = @ \ {rid}]
    /\ sb_conn' = [sb_conn EXCEPT ![p] = request_table_conn(rid)]
    /\ sb_pc' = [sb_pc EXCEPT ![p] =
           IF ~sb_remove[p] THEN "reply_write"
           ELSE IF request_table_conn(rid) = NoConn THEN "reply_proxyname"
           ELSE "reply_connection"]
    /\ UNCHANGED <<tables, world, wsVars, sb_remove, tmVars>>

\* client_request_table_get_conn(rid, true, remove_request)
ReplyRequest(p, rid) ==
    /\ sb_pc[p] = "reply_request"
    /\ rid \in sb_todo[p]
    /\ sb_rid' = [sb_rid EXCEPT ![p] = rid]
    /\ sb_todo' = [sb_todo EXCEPT ![p] = @ \ {rid}]
    /\ LET conn == request_table_conn(rid)
       IN  /\ sb_conn' = [sb_conn EXCEPT ![p] = conn]
           /\ IF sb_remove[p]
                 THEN /\ request_table_remove(rid)
                      /\ sb_pc' = [sb_pc EXCEPT ![p] =
                             IF conn = NoConn THEN "reply_proxyname" ELSE "reply_connection"]
                 ELSE /\ fresh' = IF conn = NoConn THEN fresh ELSE fresh \union {rid}
                      /\ sb_pc' = [sb_pc EXCEPT ![p] = "reply_write"]
                      /\ UNCHANGED request_table
    /\ UNCHANGED <<connection_table, service_table, proxyname_table, sent, world,
                   wsVars, sb_remove, tmVars>>

ReplyConnection(p) ==
    /\ sb_pc[p] = "reply_connection"
    /\ connection_table_drop(sb_conn[p], sb_rid[p])
    /\ sb_pc' = [sb_pc EXCEPT ![p] = "reply_proxyname"]
    /\ UNCHANGED <<request_table, fresh, service_table, proxyname_table, sent, world,
                   wsVars, sb_rid, sb_conn, sb_todo, sb_remove, tmVars>>

ReplyProxyname(p) ==
    /\ sb_pc[p] = "reply_proxyname"
    /\ proxyname_table_drop(p, sb_rid[p])
    /\ sb_pc' = [sb_pc EXCEPT ![p] = "reply_service"]
    /\ UNCHANGED <<request_table, fresh, connection_table, service_table, world,
                   wsVars, sb_rid, sb_conn, sb_todo, sb_remove, tmVars>>

ReplyService(p) ==
    /\ sb_pc[p] = "reply_service"
    /\ service_table_remove(sb_rid[p])
    /\ sb_pc' = [sb_pc EXCEPT ![p] = "reply_write"]
    /\ UNCHANGED <<request_table, fresh, connection_table, proxyname_table, sent,
                   world, wsVars, sb_rid, sb_conn, sb_todo, sb_remove, tmVars>>

\* client_service_reply: the response goes to the database and, if a
\* connection was found, is written to it.
ReplyWrite(p) ==
    /\ sb_pc[p] = "reply_write"
    /\ sb_rid' = [sb_rid EXCEPT ![p] = NoRequest]
    /\ sb_conn' = [sb_conn EXCEPT ![p] = NoConn]
    /\ IF sb_todo[p] = {}
          THEN /\ sb_pc' = [sb_pc EXCEPT ![p] = "idle"]
               /\ sb_remove' = [sb_remove EXCEPT ![p] = FALSE]
          ELSE /\ sb_pc' = [sb_pc EXCEPT ![p] = "reply_request"]
               /\ UNCHANGED sb_remove
    /\ UNCHANGED <<tables, world, wsVars, sb_todo, tmVars>>

SbStep(p) ==
    \/ PurgeRequest(p) \/ PurgeConnection(p) \/ PurgeProxyname(p) \/ PurgeService(p)
    \/ \E rid \in Rid : ReplyRequest(p, rid)
    \/ ReplyConnection(p) \/ ReplyProxyname(p) \/ ReplyService(p) \/ ReplyWrite(p)

-----------------------------------------------------------------------------
(***************************************************************************)
(* The client timeout thread.                                              *)
(***************************************************************************)
Overdue(r) == request_table[r] # NoConn /\ r \notin fresh

\* Mutant: only what the proxy was sent can expire.
TimeoutScan_sent ==
    /\ tm_pc = "idle"
    /\ \E r \in Request \cap sent : Overdue(r)
    /\ tm_todo' = {r \in Request \cap sent : Overdue(r)}
    /\ tm_pc' = "expired_conn"
    /\ UNCHANGED <<tables, world, wsVars, sbVars, tm_rid, tm_conn>>

\* client_request_table_expired
TimeoutScan ==
    /\ tm_pc = "idle"
    /\ \E r \in Request : Overdue(r)
    /\ tm_todo' = {r \in Request : Overdue(r)}
    /\ tm_pc' = "expired_conn"
    /\ UNCHANGED <<tables, world, wsVars, sbVars, tm_rid, tm_conn>>

TimeoutConn(r) ==
    /\ tm_pc = "expired_conn"
    /\ r \in tm_todo
    /\ tm_rid' = r
    /\ tm_conn' = request_table[r]
    /\ tm_todo' = tm_todo \ {r}
    /\ tm_pc' = "expired_reply"
    /\ UNCHANGED <<tables, world, wsVars, sbVars>>

\* client_service_expired_reply: to the database, and to tm_conn if there is one.
TimeoutReply ==
    /\ tm_pc = "expired_reply"
    /\ tm_pc' = "expired_request"
    /\ UNCHANGED <<tables, world, wsVars, sbVars, tm_rid, tm_conn, tm_todo>>

TimeoutRequest ==
    /\ tm_pc = "expired_request"
    /\ request_table_remove(tm_rid)
    /\ tm_pc' = "expired_connection"
    /\ UNCHANGED <<connection_table, service_table, proxyname_table, sent, world,
                   wsVars, sbVars, tm_rid, tm_conn, tm_todo>>

\* With no connection the lookup of the key NULL finds nothing.
TimeoutConnection ==
    /\ tm_pc = "expired_connection"
    /\ IF tm_conn = NoConn THEN UNCHANGED connection_table
                           ELSE connection_table_drop(tm_conn, tm_rid)
    /\ tm_pc' = "expired_service"
    /\ UNCHANGED <<request_table, fresh, service_table, proxyname_table, sent, world,
                   wsVars, sbVars, tm_rid, tm_conn, tm_todo>>

TimeoutService ==
    /\ tm_pc = "expired_service"
    /\ service_table_remove(tm_rid)
    /\ tm_pc' = "expired_proxyname"
    /\ UNCHANGED <<request_table, fresh, connection_table, proxyname_table, sent,
                   world, wsVars, sbVars, tm_rid, tm_conn, tm_todo>>

\* Mutant: a request that was never sent is left to the channel thread.
TimeoutProxyname_sent ==
    /\ tm_pc = "expired_proxyname"
    /\ IF tm_rid \in sent THEN proxyname_table_drop_all(tm_rid)
                         ELSE UNCHANGED <<proxyname_table, sent>>
    /\ tm_rid' = NoRequest
    /\ tm_conn' = NoConn
    /\ tm_pc' = IF tm_todo = {} THEN "idle" ELSE "expired_conn"
    /\ UNCHANGED <<request_table, fresh, connection_table, service_table, world,
                   wsVars, sbVars, tm_todo>>

TimeoutProxyname ==
    /\ tm_pc = "expired_proxyname"
    /\ proxyname_table_drop_all(tm_rid)
    /\ tm_rid' = NoRequest
    /\ tm_conn' = NoConn
    /\ tm_pc' = IF tm_todo = {} THEN "idle" ELSE "expired_conn"
    /\ UNCHANGED <<request_table, fresh, connection_table, service_table, world,
                   wsVars, sbVars, tm_todo>>

TmStep ==
    \/ TimeoutScan \/ (\E r \in Request : TimeoutConn(r)) \/ TimeoutReply
    \/ TimeoutRequest \/ TimeoutConnection \/ TimeoutService \/ TimeoutProxyname

-----------------------------------------------------------------------------
(***************************************************************************)
(* The surroundings: time, the channel thread, the proxy.                  *)
(***************************************************************************)
Routing(r) ==
    \E c \in Conn : /\ ws_pc[c] \in {"route_connection", "route_service", "route_proxyname"}
                    /\ ws_rid[c] = r

TimePasses(r) ==
    /\ r \in fresh \cap Expiring
    /\ PromptRoute => ~Routing(r)
    /\ fresh' = fresh \ {r}
    /\ UNCHANGED <<request_table, connection_table, service_table, proxyname_table,
                   sent, world, wsVars, sbVars, tmVars>>

\* The channel thread of p sends a request that is not yet sent and has a
\* payload; CHANNEL_FAILS marks it sent though the proxy does not hold it.
Dispatch(p, rid) ==
    /\ rid \in proxyname_table[p] \ sent
    /\ rid \in service_table
    /\ sent' = sent \union {rid}
    /\ held' = [held EXCEPT ![p] = @ \union {rid}] \/ UNCHANGED held
    /\ UNCHANGED <<request_table, fresh, connection_table, service_table,
                   proxyname_table, session, last_session, owner, losses, outside,
                   wsVars, sbVars, tmVars>>

\* The proxy is gone and the terminator has set its requests back to unsent.
ProxyLost(p) ==
    /\ losses < MaxLoss
    /\ held[p] # {} \/ proxyname_table[p] \cap sent # {}
    /\ losses' = losses + 1
    /\ held' = [held EXCEPT ![p] = {}]
    /\ sent' = sent \ proxyname_table[p]
    /\ UNCHANGED <<request_table, fresh, connection_table, service_table,
                   proxyname_table, session, last_session, owner, outside, wsVars,
                   sbVars, tmVars>>

-----------------------------------------------------------------------------
(***************************************************************************)
(* Who else takes the two locks (ProxyChannel says when and for how long): *)
(* a REST worker has the table for a whole call (resthandler.c:71-153),    *)
(* the killer while it stops a channel (proxy.c:79-86), and a channel      *)
(* thread has its context's while it exchanges with its proxy              *)
(* (proxychannel.c:127-142).  They may keep a lock for good.  Only a       *)
(* worker that waits for a lock can tell that it is taken, so it is taken  *)
(* when one waits.                                                         *)
(***************************************************************************)
AwaitsTable(c) == ws_pc[c] = "route_lock" \/ (ws_pc[c] = "drop_next" /\ ws_todo[c] = {})
AwaitsContext(c, p) == ws_pc[c] \in {"route_signal", "issue_signal"} /\ ws_proxy[c] = p

TableTaken ==
    /\ TableFree
    /\ \E c \in Conn : AwaitsTable(c)
    /\ table_out' = TRUE
    /\ UNCHANGED <<tables, session, last_session, owner, held, losses, ctx_out,
                   wsVars, sbVars, tmVars>>

TableLeft ==
    /\ table_out
    /\ table_out' = FALSE
    /\ UNCHANGED <<tables, session, last_session, owner, held, losses, ctx_out,
                   wsVars, sbVars, tmVars>>

ContextTaken(p) ==
    /\ p \notin ctx_out
    /\ \E c \in Conn : AwaitsContext(c, p)
    /\ ctx_out' = ctx_out \union {p}
    /\ UNCHANGED <<tables, session, last_session, owner, held, losses, table_out,
                   wsVars, sbVars, tmVars>>

ContextLeft(p) ==
    /\ p \in ctx_out
    /\ ctx_out' = ctx_out \ {p}
    /\ UNCHANGED <<tables, session, last_session, owner, held, losses, table_out,
                   wsVars, sbVars, tmVars>>

LocksStep == TableTaken \/ TableLeft \/ \E p \in Proxy : ContextTaken(p) \/ ContextLeft(p)

-----------------------------------------------------------------------------
Next ==
    \/ \E c \in Conn : Connect(c) \/ Close(c) \/ WsStep(c)
    \/ \E c \in Conn, r \in Request, p \in Proxy : Route(c, r, p)
    \/ \E p \in Proxy, S \in SUBSET Rid, remove \in BOOLEAN : Answer(p, S, remove)
    \/ \E p \in Proxy, q \in Rid, r \in Request, remove \in BOOLEAN :
          AnswerClear(p, q, r, remove)
    \/ \E p \in Proxy : SbStep(p) \/ ProxyLost(p)
    \/ \E p \in Proxy, rid \in Rid : Dispatch(p, rid)
    \/ \E r \in Request : TimePasses(r)
    \/ TmStep
    \/ LocksStep

\* Every thread that is inside a handler goes on when it can, and the timeout
\* thread comes back every client_timeout_period seconds.  No client, proxy or
\* clock has to do anything, and nobody outside has to give a lock back.
Fairness ==
    /\ \A c \in Conn : WF_vars(WsStep(c))
    /\ \A p \in Proxy : WF_vars(SbStep(p))
    /\ WF_vars(TmStep)

Spec == Init /\ [][Next]_vars /\ Fairness

-----------------------------------------------------------------------------
(***************************************************************************)
(* Properties.                                                             *)
(***************************************************************************)
RoutePc == {"route_connection", "route_service", "route_proxyname"}
SignalPc == {"route_lock", "route_signal"}
DropPc == {"drop_next", "drop_request", "drop_service", "drop_proxyname"}
WsPc == {"idle", "drop_connection"} \union RoutePc \union SignalPc \union DropPc
            \union Issuing
SbPc == {"idle", "purge_request", "purge_connection", "purge_proxyname",
         "purge_service", "reply_request", "reply_connection", "reply_proxyname",
         "reply_service", "reply_write"}
TmPc == {"idle", "expired_conn", "expired_reply", "expired_request",
         "expired_connection", "expired_service", "expired_proxyname"}

\* Every variable has its type.  The connection table and the work lists of
\* drop_conn hold rids of clients only, the others drop rids as well.
TypeOK ==
    /\ request_table \in [Request -> Conn \union {NoConn}]
    /\ fresh \in SUBSET Request
    /\ connection_table \in [Conn -> SUBSET Request]
    /\ service_table \in SUBSET Rid
    /\ proxyname_table \in [Proxy -> SUBSET Rid]
    /\ sent \in SUBSET Rid
    /\ last_session \in 0..MaxSession
    /\ session \in [Conn -> 0..MaxSession]
    /\ owner \in [Request -> 0..MaxSession]
    /\ held \in [Proxy -> SUBSET Rid]
    /\ losses \in 0..MaxLoss
    /\ table_out \in BOOLEAN /\ ctx_out \in SUBSET Proxy
    /\ ws_pc \in [Conn -> WsPc]
    /\ ws_rid \in [Conn -> Request \union {NoRequest}]
    /\ ws_proxy \in [Conn -> Proxy \union {NoProxy}]
    /\ ws_todo \in [Conn -> SUBSET Request]
    /\ ws_drops \in [Conn -> [Proxy -> SUBSET Request]]
    /\ sb_pc \in [Proxy -> SbPc]
    /\ sb_rid \in [Proxy -> Rid \union {NoRequest}]
    /\ sb_conn \in [Proxy -> Conn \union {NoConn}]
    /\ sb_todo \in [Proxy -> SUBSET Rid]
    /\ sb_remove \in [Proxy -> BOOLEAN]
    /\ tm_pc \in TmPc
    /\ tm_rid \in Request \union {NoRequest}
    /\ tm_conn \in Conn \union {NoConn}
    /\ tm_todo \in SUBSET Request

\* A connection found in the request table serves the very session that
\* submitted the request: drop_conn takes the requests out before the web
\* server gets the structure back, whatever routes, answers, purges and
\* expiries run in between (clientservice.c:182-226).
NoDanglingRequest ==
    \A r \in Request : request_table[r] # NoConn =>
        /\ owner[r] # 0
        /\ session[request_table[r]] = owner[r]

\* Once drop_conn has made the request that drops r, r itself is in no proxy's
\* list any more, so no channel thread can send r after its drop, which would
\* leave the proxy with a request nobody will ever drop (clientservice.c:198-216).
DropAfterRequest ==
    \A r \in Request, p \in Proxy :
        DropId(r) \in proxyname_table[p] \union held[p] =>
            \A q \in Proxy : r \notin proxyname_table[q]

\* What is left of a request that is out of the request table.
Leftover(r) ==
    /\ owner[r] # 0
    /\ request_table[r] = NoConn
    /\ \/ r \in service_table
       \/ \E c \in Conn : r \in connection_table[c]
       \/ \E p \in Proxy : r \in proxyname_table[p]

\* Somebody outside has the channel thread table, or a context that a worker who has
\* the table waits for.
HeldUp == table_out \/ \E c \in Conn, p \in ctx_out : AwaitsContext(c, p)

\* A request that leaves the request table, for whatever reason and whoever
\* else is removing it at the same time, leaves the other three tables too, unless
\* workers are held up over and over, or for good: the close handler takes its
\* connection out of the connection table last (clientservice.c:204-226).
LeftoversGo == \A r \in Request : Leftover(r) ~> (~Leftover(r) \/ []<>HeldUp)

\* A request whose timeout has elapsed does not stay: the timeout thread takes
\* it out, unless an answer renews it or something else removes it first
\* (clienttimeout.c:61-71).
OverdueGoes == \A r \in Request : Overdue(r) ~> ~Overdue(r)

\* A close handler that has begun to drop its requests ends and gives the connection
\* back, unless workers are held up over and over, or for good: it waits for the
\* channel thread table and, with it, for the context of each proxy it has a drop
\* request for (clientservice.c:188-228).
CloseEnds == \A c \in Conn : ws_pc[c] = "drop_next" ~> (session[c] = 0 \/ []<>HeldUp)

\* The registry implements RequestLife: opened once, finished once, never
\* again open, and no connection leaves an open request behind.
Life == INSTANCE RequestLife WITH
    up <- {c \in Conn : session[c] # 0},
    stage <- [r \in Request |-> IF owner[r] = 0 THEN "unused"
                                ELSE IF request_table[r] # NoConn THEN "open"
                                ELSE "finished"],
    holder <- request_table
LifeSpec == Life!LifeSpec

\* README.md:6, "the service pushes a response back to the client": the
\* connection a response is about to be written to serves the session that
\* sent the request, or nobody.
ReplyReachesRequester ==
    \A p \in Proxy :
        sb_pc[p] = "reply_write" /\ sb_conn[p] # NoConn =>
            session[sb_conn[p]] \in {owner[sb_rid[p]], 0}

=============================================================================
