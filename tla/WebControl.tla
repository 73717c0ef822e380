------------------------------- MODULE WebControl -------------------------------
(***************************************************************************)
(* The browser control surface (src/web/mod.rs): HTTP requests and         *)
(* WebSocket tasks that share one table of browser sessions.               *)
(*                                                                         *)
(* Requests and sockets are tasks on several threads; the table is behind  *)
(* one lock, and each time a task holds it is one step.  create_session    *)
(* reads the clock before it waits for the lock, close_session and the     *)
(* upgrade of a socket look at a copy of the record they took earlier.     *)
(*                                                                         *)
(* Requests without the right Origin, bearer token or cookie are refused   *)
(* before they reach the table and change nothing: they are left out, as   *)
(* are labels, body limits and response headers.                           *)
(***************************************************************************)
EXTENDS Integers, Sequences, FiniteSets

CONSTANTS
    Ids,            \* bound: session ids; each is drawn at most once
    Requests,       \* bound: HTTP requests under way at a time
    Sockets,        \* bound: WebSocket tasks
    SessionTtl,     \* session_ttl
    MaxSessions,    \* max_sessions
    MaxCreations,   \* max_session_creations
    RateWindow,     \* rate_window
    MaxTime         \* bound: how far the clock goes

ASSUME WebConstants ==
    /\ IsFiniteSet(Ids) /\ IsFiniteSet(Requests) /\ IsFiniteSet(Sockets)
    /\ Requests # {}
    /\ SessionTtl \in Nat \ {0}
    /\ MaxSessions \in Nat \ {0}
    /\ MaxCreations \in Nat \ {0}
    /\ RateWindow \in Nat \ {0}
    /\ MaxTime \in Nat

VARIABLES
    now,        \* the clock
    sessions,   \* SessionStore::sessions
    times,      \* SessionStore::creation_times, as positions in created
    req,        \* what each request is waiting for the lock for
    sock,       \* the WebSocket tasks
    drawn,      \* history: the ids that were drawn
    created     \* history: the instants of all creations, in their order

vars == <<now, sessions, times, req, sock, drawn, created>>

-----------------------------------------------------------------------------
Absent == [state |-> "Absent", expires_at |-> 0]

SessionRecord(state, expires) == [state |-> state, expires_at |-> expires]

Records == [state : {"Absent", "Active", "Closed"}, expires_at : Nat]

(* A session that counts against max_sessions and takes a WebSocket.       *)
Usable(r, t) == r.state = "Active" /\ r.expires_at > t

(* session_status: what a client is told of a record.  A record that is no *)
(* longer there was dropped because it had expired.                        *)
Status(r, t) ==
    IF r.state = "Closed" THEN "closed"
    ELSE IF Usable(r, t) THEN "active" ELSE "expired"

(* Instant::duration_since saturates *)
Since(t, earlier) == IF t > earlier THEN t - earlier ELSE 0

(* Expired sessions are dropped, unless they were closed.                  *)
Purged(table, t) ==
    [id \in Ids |-> IF table[id].expires_at > t \/ table[id].state = "Closed"
                    THEN table[id] ELSE Absent]

(* Defect used as a mutant: the wrong part of the creations is retained.   *)
MutWithinWindowInverted(held, t) ==
    {i \in held : Since(t, created[i]) >= RateWindow}

WithinWindow(held, t) == {i \in held : Since(t, created[i]) < RateWindow}

(* Defect used as a mutant: one session too many.                          *)
MutRoomLeftOne(table, t) ==
    Cardinality({id \in Ids : Usable(table[id], t)}) <= MaxSessions

RoomLeft(table, t) ==
    Cardinality({id \in Ids : Usable(table[id], t)}) < MaxSessions

ExpiresAt(t) == t + SessionTtl

(* close_session_record *)
CloseRecord(table, id) ==
    IF table[id].state = "Absent" THEN table
    ELSE [table EXCEPT ![id].state = "Closed"]

-----------------------------------------------------------------------------
Idle == [at |-> "idle", id |-> "none", read |-> 0]

NoSocket == [at |-> "none", id |-> "none"]

Init ==
    /\ now = 0
    /\ sessions = [id \in Ids |-> Absent]
    /\ times = {}
    /\ req = [r \in Requests |-> Idle]
    /\ sock = [k \in Sockets |-> NoSocket]
    /\ drawn = {}
    /\ created = <<>>

Tick ==
    /\ now < MaxTime
    /\ now' = now + 1
    /\ UNCHANGED <<sessions, times, req, sock, drawn, created>>

(* create_session up to the wait for the lock *)
CreateArrives(r) ==
    /\ req[r].at = "idle"
    /\ req' = [req EXCEPT ![r] = [at |-> "create", id |-> "none", read |-> now]]
    /\ UNCHANGED <<now, sessions, times, sock, drawn, created>>

(* create_session with the lock: a new session, or an answer 429 or 500.   *)
(* Either way the table was cleaned.                                       *)
CreateServed(r) ==
    LET t     == req[r].read
        table == Purged(sessions, t)
        calls == WithinWindow(times, t)
        room  == Cardinality(calls) < MaxCreations /\ RoomLeft(table, t)
    IN  /\ req[r].at = "create"
        /\ req' = [req EXCEPT ![r] = Idle]
        /\ \/ /\ room
              /\ \E id \in Ids \ drawn :
                     /\ sessions' = [table EXCEPT ![id] =
                                        SessionRecord("Active", ExpiresAt(t))]
                     /\ drawn' = drawn \cup {id}
              /\ created' = Append(created, t)
              /\ times' = calls \cup {Len(created')}
           \/ /\ sessions' = table
              /\ times' = calls
              /\ UNCHANGED <<drawn, created>>
        /\ UNCHANGED <<now, sock>>

(* close_session has found the record and the token matches.               *)
CloseArrives(r, id) ==
    /\ req[r].at = "idle"
    /\ sessions[id].state # "Absent"
    /\ req' = [req EXCEPT ![r] = [at |-> "close", id |-> id, read |-> 0]]
    /\ UNCHANGED <<now, sessions, times, sock, drawn, created>>

(* close_session with the lock for the second time: closed, or 404.        *)
CloseServed(r) ==
    /\ req[r].at = "close"
    /\ sessions' = CloseRecord(sessions, req[r].id)
    /\ req' = [req EXCEPT ![r] = Idle]
    /\ UNCHANGED <<now, times, sock, drawn, created>>

-----------------------------------------------------------------------------
(* websocket: the record was looked up, the session could be used, and the *)
(* connection was upgraded; run_websocket starts.                          *)
Upgrade(k, id) ==
    /\ sock[k].at = "none"
    /\ Usable(sessions[id], now)
    /\ sock' = [sock EXCEPT ![k] = [at |-> "hello", id |-> id]]
    /\ UNCHANGED <<now, sessions, times, req, drawn, created>>

Moves(k, at) ==
    /\ sock' = [sock EXCEPT ![k].at = at]
    /\ UNCHANGED <<now, sessions, times, req, drawn, created>>

(* The first message: hello with the session's token, and ready could be   *)
(* sent; or anything else.                                                 *)
FirstMessage(k) ==
    /\ sock[k].at = "hello"
    /\ Moves(k, "open") \/ Moves(k, "closing")

(* Defect used as a mutant: the first message may take its time.           *)
MutHelloTimeoutNever(k) == sock[k].at = "hello" /\ UNCHANGED vars

(* handshake_timeout without a message *)
HelloTimeout(k) ==
    /\ sock[k].at = "hello"
    /\ Moves(k, "closing")

(* A status message is answered, a ping or pong is handled: the task goes  *)
(* on.  Anything else, or the end of the connection, ends the loop.        *)
LoopEnds(k) ==
    /\ sock[k].at = "open"
    /\ Moves(k, "closing")

(* Defect used as a mutant: a close message is answered only.              *)
MutCloseMessageForgets(k) ==
    /\ sock[k].at = "open"
    /\ Moves(k, "done")

(* A close message: the record is closed, then it is answered.             *)
CloseMessage(k) ==
    /\ sock[k].at = "open"
    /\ sessions' = CloseRecord(sessions, sock[k].id)
    /\ sock' = [sock EXCEPT ![k].at = "done"]
    /\ UNCHANGED <<now, times, req, drawn, created>>

(* The task gets the lock for the last time.                               *)
TaskEnds(k) ==
    /\ sock[k].at = "closing"
    /\ sessions' = CloseRecord(sessions, sock[k].id)
    /\ sock' = [sock EXCEPT ![k].at = "done"]
    /\ UNCHANGED <<now, times, req, drawn, created>>

Next ==
    \/ Tick
    \/ \E r \in Requests :
           \/ CreateArrives(r) \/ CreateServed(r)
           \/ \E id \in Ids : CloseArrives(r, id)
           \/ CloseServed(r)
    \/ \E k \in Sockets :
           \/ \E id \in Ids : Upgrade(k, id)
           \/ FirstMessage(k) \/ HelloTimeout(k) \/ LoopEnds(k)
           \/ CloseMessage(k) \/ TaskEnds(k)

Spec == Init /\ [][Next]_vars

(* The lock is fair, and the first message has a time limit; after it a    *)
(* client may keep its socket open for ever.                               *)
Fairness ==
    /\ \A k \in Sockets : WF_vars(HelloTimeout(k)) /\ WF_vars(TaskEnds(k))
    /\ \A r \in Requests : WF_vars(CreateServed(r)) /\ WF_vars(CloseServed(r))

FairSpec == Spec /\ Fairness

-----------------------------------------------------------------------------
TypeOK ==
    /\ now \in Nat
    /\ sessions \in [Ids -> Records]
    /\ times \subseteq 1..Len(created)
    /\ req \in [Requests -> [at : {"idle", "create", "close"},
                             id : Ids \cup {"none"}, read : Nat]]
    /\ sock \in [Sockets -> [at : {"none", "hello", "open", "closing", "done"},
                             id : Ids \cup {"none"}]]
    /\ drawn \subseteq Ids
    /\ created \in Seq(Nat)

(* Never more than max_sessions sessions can be used at a time, although   *)
(* create_session counts them at an instant it read before it had the lock *)
(* and other creations may have overtaken it.                              *)
SessionsBounded ==
    Cardinality({id \in Ids : Usable(sessions[id], now)}) <= MaxSessions

(* In no rate_window are there more creations than max_session_creations,  *)
(* but for requests that waited for the lock while a later one went ahead  *)
(* and cleaned the record of creations.                                    *)
RateBounded ==
    \A x \in 0..now :
        Cardinality({i \in 1..Len(created) : created[i] \in x..x + RateWindow - 1})
            <= MaxCreations + Cardinality(Requests) - 1

Rank(status) == CASE status = "active" -> 1 [] status = "expired" -> 2
                  [] status = "closed" -> 3

(* What clients are told of a session never goes back: neither the clock,  *)
(* the clean-up at a creation, another socket of the session nor a close   *)
(* that was overtaken makes an ended session usable, or a closed one look  *)
(* expired.                                                                *)
StatusOnlyAdvances ==
    [][\A id \in drawn : Rank(Status(sessions[id], now))
                            <= Rank(Status(sessions'[id], now'))]_vars

(* A session whose socket has ended cannot be used again, by any of the    *)
(* ways in which the task may end.                                         *)
EndedSocketEndsSession ==
    \A k \in Sockets : sock[k].at = "done" => ~ Usable(sessions[sock[k].id], now)

(* A client that upgraded gets to speak, or its session ends; and a task   *)
(* that is ending ends its session.                                        *)
SocketsDecide ==
    \A k \in Sockets :
        sock[k].at \in {"hello", "closing"} ~> sock[k].at \in {"open", "done"}
=============================================================================
