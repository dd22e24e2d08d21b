---------------------------- MODULE RequestLife ----------------------------
(***************************************************************************)
(* What the client registry promises the rest of gonggo about a request:   *)
(* it is opened once, by a connection that is up; it is finished once, for *)
(* whatever reason (final answer, expiry, subscription cleared, the        *)
(* connection closed); and a connection goes away only after every request *)
(* it opened is finished, so an open request always leads to a live        *)
(* connection.                                                             *)
(***************************************************************************)
CONSTANTS Conn, Request, NoConn

VARIABLES
    up,        \* the connections that have a client
    stage,     \* "unused", "open" or "finished", per request
    holder     \* the connection of an open request, NoConn otherwise

lifeVars == <<up, stage, holder>>

LifeInit ==
    /\ up = {}
    /\ stage = [r \in Request |-> "unused"]
    /\ holder = [r \in Request |-> NoConn]

Arrive(c) ==
    /\ c \notin up
    /\ up' = up \union {c}
    /\ UNCHANGED <<stage, holder>>

Open(c, r) ==
    /\ c \in up
    /\ stage[r] = "unused"
    /\ stage' = [stage EXCEPT ![r] = "open"]
    /\ holder' = [holder EXCEPT ![r] = c]
    /\ UNCHANGED up

Finish(r) ==
    /\ stage[r] = "open"
    /\ stage' = [stage EXCEPT ![r] = "finished"]
    /\ holder' = [holder EXCEPT ![r] = NoConn]
    /\ UNCHANGED up

Leave(c) ==
    /\ c \in up
    /\ \A r \in Request : holder[r] # c
    /\ up' = up \ {c}
    /\ UNCHANGED <<stage, holder>>

LifeNext ==
    \/ \E c \in Conn : Arrive(c) \/ Leave(c)
    \/ \E c \in Conn, r \in Request : Open(c, r)
    \/ \E r \in Request : Finish(r)

LifeSpec == LifeInit /\ [][LifeNext]_lifeVars

=============================================================================
