------------------------------- MODULE Handshake -------------------------------
(***************************************************************************)
(* Two session runtimes, a server's and a client's, over one data channel. *)
(* The channel is reliable and ordered while both ends hold it open.  When *)
(* one end closes its peer, frames still on their way to the other may be  *)
(* lost from the tail, and what the other still sends fails or vanishes.   *)
(*                                                                         *)
(* The owner of a runtime runs handshake, then the runtime's own loop      *)
(* run_until_disconnect (module RemoteStreams has the dispatcher and the   *)
(* clients that take its place on the command line), and closes the        *)
(* runtime when either returned an end.  Each call owns its runtime by     *)
(* &mut, so a frame is handled to its last send before the next one.       *)
(*                                                                         *)
(* Faults are bounded by MaxFaults: a send that fails on an open channel,  *)
(* frames lost at a close, a timer that fires although an answer is under  *)
(* way, and a frame the protocol does not call for.                        *)
(***************************************************************************)
EXTENDS SessionRuntime

CONSTANTS
    ExpectedPin,    \* what the server expects
    ClientPins,     \* the PIN lists a client may be configured with
    PinRequired,    \* values of the server's pin_required
    StrayFrames,    \* frames a fault may put on the channel
    MaxFaults,      \* bound: faults in a behaviour
    MaxTime         \* bound: how far the clock goes

ASSUME HandshakeConstants ==
    /\ ExpectedPin \in Seq(Bytes)
    /\ ClientPins \subseteq Seq(Seq(Bytes))
    /\ PinRequired \subseteq BOOLEAN
    /\ StrayFrames \subseteq Frames
    /\ MaxFaults \in Nat
    /\ MaxTime \in Nat

S == "Server"
C == "Client"
Sides == {S, C}

Other(x) == IF x = S THEN C ELSE S

VARIABLES
    rt,         \* the runtime of each side
    proc,       \* where each owner is: idle, handshake, up, ended, closed
    inbox,      \* frames on their way to each side, or buffered there
    closed,     \* the sides whose peer is closed
    now,
    faults,     \* faults so far
    strays      \* history: the sides that were sent a stray frame

vars == <<rt, proc, inbox, closed, now, faults, strays>>

Init ==
    /\ \E pin_required \in PinRequired, pins \in ClientPins :
           LET server == NewRuntime(S, pin_required, ExpectedPin, <<>>)
               client == NewRuntime(C, FALSE, NoPin, pins)
           IN  /\ server.ok /\ client.ok
               /\ rt = [x \in Sides |-> IF x = S THEN server.rt ELSE client.rt]
    /\ proc = [x \in Sides |-> "idle"]
    /\ inbox = [x \in Sides |-> <<>>]
    /\ closed = {}
    /\ now = 0
    /\ faults = 0
    /\ strays = {}

-----------------------------------------------------------------------------
Fault(n) == faults + n <= MaxFaults /\ faults' = faults + n

(* The number of sends of a method that succeed, of at most two: fewer     *)
(* than all of them is a fault unless the other end is closed.             *)
Succeed(x, k) ==
    /\ k \in 0..2
    /\ Fault(IF k < 2 /\ Other(x) \notin closed THEN 1 ELSE 0)

(* A method of x that returned turn.  rest is what is left of x's inbox    *)
(* and next where its owner goes on.                                       *)
Returns(x, turn, rest, next) ==
    /\ rt' = [rt EXCEPT ![x] = turn.rt]
    /\ proc' = [proc EXCEPT ![x] = next]
    /\ inbox' = [inbox EXCEPT
                    ![x] = rest,
                    ![Other(x)] = IF Other(x) \in closed THEN @ ELSE @ \o turn.out]
    /\ closed' = IF turn.shut THEN closed \cup {x} ELSE closed
    /\ UNCHANGED <<now, strays>>

(* Where the owner of x goes on after a turn of a loop.                    *)
Goes(x, res, done) ==
    CASE res = "More" -> proc[x]
      [] res = "Done" -> done
      [] res = "Err"  -> "ended"

(* The owner calls handshake. *)
Start(x) ==
    /\ proc[x] = "idle"
    /\ \E k \in 0..2 :
           LET turn == StartHandshake(rt[x], k)
           IN  /\ Succeed(x, k)
               /\ Returns(x, turn, inbox[x],
                          IF turn.res = "Err" THEN "ended" ELSE "handshake")

(* handshake takes the next frame. *)
HandshakeReceive(x) ==
    /\ proc[x] = "handshake"
    /\ inbox[x] # <<>>
    /\ \E k \in 0..2 :
           LET turn == HandshakeTurn(rt[x], Head(inbox[x]), now, k)
           IN  /\ Succeed(x, k)
               /\ Returns(x, turn, Tail(inbox[x]), Goes(x, turn.res, "up"))

(* The receive loop is closed and drained: recv_frame returns an error.    *)
HandshakeDisconnected(x) ==
    /\ proc[x] = "handshake"
    /\ inbox[x] = <<>> /\ Other(x) \in closed
    /\ Returns(x, CloseAnd(rt[x], "Err"), <<>>, "ended")
    /\ UNCHANGED faults

(* Nothing is under way to x and the other side has nothing to say: it     *)
(* waits for x, or is done.                                                *)
Quiet(x) ==
    /\ inbox[x] = <<>> /\ inbox[Other(x)] = <<>>
    /\ proc[Other(x)] \in {"handshake", "up", "closed"}

(* control_timeout passed without a frame. *)
HandshakeTimeout(x) ==
    /\ proc[x] = "handshake"
    /\ Fault(IF Quiet(x) THEN 0 ELSE 1)
    /\ Returns(x, CloseAnd(rt[x], "Err"), inbox[x], "ended")

(* The owner's own time limit drops the handshake where it waits.  (A cut  *)
(* between two sends of a handler leaves what a failed send leaves.)       *)
HandshakeDropped(x) ==
    /\ proc[x] = "handshake"
    /\ Fault(1)
    /\ proc' = [proc EXCEPT ![x] = "ended"]
    /\ UNCHANGED <<rt, inbox, closed, now, strays>>

(* run_until_disconnect takes the next frame. *)
LoopReceive(x) ==
    /\ proc[x] = "up"
    /\ inbox[x] # <<>>
    /\ \E k \in 0..2 :
           LET turn == LoopTurn(rt[x], Head(inbox[x]), now, k)
           IN  /\ Succeed(x, k)
               /\ Returns(x, turn, Tail(inbox[x]), Goes(x, turn.res, "ended"))

(* Defect used as a mutant: nothing tells the loop that the other end left. *)
MutLoopDisconnectedUnseen(x) == FALSE /\ UNCHANGED vars

(* run_until_disconnect learns that the other end is gone: from the        *)
(* connection state, or from the receive loop once it is drained.          *)
LoopDisconnected(x) ==
    /\ proc[x] = "up"
    /\ Other(x) \in closed
    /\ Returns(x, CloseAnd(rt[x], "Done"), inbox[x], "ended")
    /\ UNCHANGED faults

(* wait_disconnected gives up after DEFAULT_WAIT_TIMEOUT without a frame.  *)
LoopTimeout(x) ==
    /\ proc[x] = "up"
    /\ Fault(IF Quiet(x) THEN 0 ELSE 1)
    /\ Returns(x, CloseAnd(rt[x], "Err"), inbox[x], "ended")

(* The owner closes the runtime: because a call ended, or at will.  Frames *)
(* on their way to the other end may be lost from the tail.                *)
CloseAt(x) ==
    \E k \in 0..1, lost \in 0..Len(inbox[Other(x)]) + 1 :
        LET turn == CloseRuntime(rt[x], k)
            sent == inbox[Other(x)]
                        \o IF Other(x) \in closed THEN <<>> ELSE turn.out
        IN  /\ lost <= Len(sent)
            /\ Fault((IF k = 0 /\ Other(x) \notin closed THEN 1 ELSE 0)
                         + (IF lost > 0 THEN 1 ELSE 0))
            /\ rt' = [rt EXCEPT ![x] = turn.rt]
            /\ proc' = [proc EXCEPT ![x] = "closed"]
            /\ inbox' = [inbox EXCEPT
                            ![x] = <<>>,
                            ![Other(x)] = SubSeq(sent, 1, Len(sent) - lost)]
            /\ closed' = closed \cup {x}
            /\ UNCHANGED <<now, strays>>

OwnerCleansUp(x) == proc[x] = "ended" /\ CloseAt(x)

OwnerLeaves(x) == proc[x] = "up" /\ CloseAt(x)

(* A frame the protocol does not call for reaches x.                       *)
Stray(x, f) ==
    /\ x \notin closed /\ proc[Other(x)] # "idle"
    /\ Fault(1)
    /\ inbox' = [inbox EXCEPT ![x] = Append(@, f)]
    /\ strays' = strays \cup {x}
    /\ UNCHANGED <<rt, proc, closed, now>>

Tick ==
    /\ now < MaxTime
    /\ now' = now + 1
    /\ UNCHANGED <<rt, proc, inbox, closed, faults, strays>>

(* Both runtimes are closed and nothing is left to do.                     *)
Finished ==
    /\ \A x \in Sides : proc[x] = "closed"
    /\ UNCHANGED vars

Next ==
    \/ \E x \in Sides :
           \/ Start(x)
           \/ HandshakeReceive(x) \/ HandshakeDisconnected(x)
           \/ HandshakeTimeout(x) \/ HandshakeDropped(x)
           \/ LoopReceive(x) \/ LoopDisconnected(x) \/ LoopTimeout(x)
           \/ OwnerCleansUp(x) \/ OwnerLeaves(x)
           \/ \E f \in StrayFrames : Stray(x, f)
    \/ Tick
    \/ Finished

Spec == Init /\ [][Next]_vars

(* Owners call handshake and clean up after a call that ended; a frame     *)
(* that arrived is handled, a closed channel is noticed, and a timer that  *)
(* nothing disarms fires.  Nobody has to leave a session that is up.       *)
Fairness ==
    \A x \in Sides :
        /\ WF_vars(Start(x))
        /\ WF_vars(HandshakeReceive(x))
        /\ WF_vars(HandshakeDisconnected(x))
        /\ WF_vars(Quiet(x) /\ HandshakeTimeout(x))
        /\ WF_vars(LoopReceive(x))
        /\ WF_vars(LoopDisconnected(x))
        /\ WF_vars(OwnerCleansUp(x))

FairSpec == Spec /\ Fairness

-----------------------------------------------------------------------------
State(x) == rt[x].session.state

(* A client that was sent nothing but what its server sends is ready only  *)
(* if the server got as far as sending ready: no client uses a session     *)
(* that its server does not know to be open.                               *)
ClientFollowsServer ==
    (C \notin strays /\ State(C) = "Ready") => rt[S].ready_seen

(* The client sends its next PIN when the last one was rejected and at no  *)
(* other time, so that it spends at most one PIN more than the server has  *)
(* counted, and never more than max_auth_fails.                            *)
PinsSpent ==
    LET auths == {i \in 1..Len(inbox[S]) : inbox[S][i].type = "auth"}
    IN  (strays = {} /\ rt[S].session.pin_required) =>
            /\ Cardinality(auths) <= 1
            /\ rt[S].session.auth_attempts + Cardinality(auths) <= MaxAuthFails
            /\ auths # {} => rt[C].auth_pending \/ State(C) = "Closed"

(* A side whose handshake is over has no control message of it left to     *)
(* read: what runs on the session next takes any such message for an       *)
(* error.                                                                  *)
NothingLeftOver ==
    \A x \in Sides : (strays = {} /\ proc[x] = "up") =>
        \A i \in 1..Len(inbox[x]) : inbox[x][i].type = "fin"

(* A session that is up, with both ends there and nothing under way, stays *)
(* up until one of the owners closes it.                                   *)
IdleSessionKept ==
    [][\A x \in Sides :
           (proc[x] = "up" /\ proc[Other(x)] = "up" /\ Quiet(x)
                /\ State(x) = "Ready")
               => State(x)' = "Ready" \/ proc'[x] = "closed"]_vars

(* Nobody waits for ever: a handshake that began ends, one way or another, *)
(* and once one side is closed the other closes too.                       *)
NobodyWaitsForever ==
    \A x \in Sides :
        /\ proc[x] = "handshake" ~> proc[x] # "handshake"
        /\ proc[x] = "closed" ~> State(Other(x)) = "Closed"

(* Two ends that follow the protocol, with the right PIN first in the      *)
(* client's list or a server that asks for none, both become ready: no     *)
(* order of their frames leaves one of them behind.                        *)
BothBecomeReady ==
    (/\ \/ ~ rt[S].session.pin_required
        \/ rt[C].auth_pins # <<>> /\ Head(rt[C].auth_pins) = ExpectedPin
     /\ [](faults = 0))
        => <>(State(S) = "Ready") /\ <>(State(C) = "Ready")

(* Every handshake is decided, and where nothing goes wrong it is decided  *)
(* in favour of the session.                                               *)
HandshakesDecide == NobodyWaitsForever /\ BothBecomeReady
=============================================================================
