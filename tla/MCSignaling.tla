------------------------------- MODULE MCSignaling -------------------------------
(* The ways to a connection: the retrying call of the transport, the calls that    *)
(* set up a session, and a peer handle.  They share nothing: a behaviour is about  *)
(* one of them, chosen at the start.  A peer is looked at in two ways.  In "waits" *)
(* its one channel carries no messages and every wait, report and close happens;   *)
(* in "frames" there are two channels, a queue shorter than the messages that are  *)
(* sent, and a handle that is closed and dropped at any point, and no waits.       *)
EXTENDS SignalingTransport, Establishment, Peer

VARIABLE job

MCInit ==
    /\ job \in {"transact", "establish", "waits", "frames"}
    /\ SigInit /\ EstInit /\ Init
    /\ job # "establish" => \A j \in Joins : client[j].pin = DevicePin /\ client[j].client_id = "u"
    /\ job # "transact" =>
           /\ request.message.type = "answer" /\ request.size = 1
           /\ fixture = "plain" /\ policy = "AllowLocal"

Installed == {c \in Channels : pump'[c] # None}

MCNext ==
    \/ job = "transact" /\ SigNext /\ UNCHANGED <<job, estVars, vars>>
    \/ job = "establish" /\ EstNext /\ UNCHANGED <<job, sigVars, vars>>
    \/ /\ job = "waits" /\ Next /\ UNCHANGED <<job, sigVars, estVars>>
       /\ UNCHANGED polled /\ Cardinality(Installed) <= 1
    \/ /\ job = "frames" /\ Next /\ UNCHANGED <<job, sigVars, estVars>>
       /\ UNCHANGED <<wait, owes>> /\ {"failed", "error"} \cap flags' = {}
       /\ \A c, d \in Channels : c # d => polled'[c] + polled'[d] <= MaxPolled

\* A part that is not chosen stays as it starts, where none of its fair steps is
\* enabled, so the fairness of one part restricts no behaviour of another.
MCSpec ==
    /\ MCInit /\ [][MCNext]_<<job, sigVars, estVars, vars>>
    /\ SigFairness /\ EstFairness /\ Fairness

M(type, texts, map) == SignalingMessage(type, texts, PROTOCOL_VERSION, <<>>, map)

\* A message of every kind, and one for every rule a message can break.
MCRequests ==
    {M("register", [uid |-> "d", public_key |-> "k"], <<>>),
     M("register", [uid |-> "d", public_key |-> ""], <<>>),
     [M("register", [uid |-> "d", public_key |-> "k"], <<>>) EXCEPT !.protocol = 2],
     M("registered", [pairing_code |-> "six digits"], <<>>),
     M("registered", [pairing_code |-> "five digits"], <<>>),
     M("offer", [client_id |-> "u", sdp |-> "s"], <<Bytes("key"), Bytes("nonce")>>),
     M("answer", [client_id |-> "u", sdp |-> "s", encrypted_request |-> "e"], <<>>),
     M("candidate", [client_id |-> "u"], <<>>),
     [M("request", [client_id |-> "u"], <<>>) EXCEPT !.servers = <<"">>],
     [M("pair_request", [client_id |-> "u"], <<>>) EXCEPT !.servers = <<"stun">>]}

\* A public and a local address, both, and a name that does not resolve.
Public == V4(<<8, 8, 8, 8>>)
Loopback == V4(<<127, 0, 0, 1>>)
MCLookups == {{Public}, {Loopback}, {Public, Loopback}, {}}

\* A call that has its connection to the relay comes back: see TransactReturns and
\* CallsEnd.
ConnectedCallsReturn == TransactReturns /\ CallsEnd
=================================================================================
