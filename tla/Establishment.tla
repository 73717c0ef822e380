------------------------------- MODULE Establishment -------------------------------
(* accept_server_session and connect_target (src/signaling/orchestration.rs): calls *)
(* of a device and of its clients that meet over a signaling relay.  The relay is   *)
(* external: it hands over any message it was ever sent, to any call, any number of *)
(* times, and an answer with the sealed request of another, or sends anything that  *)
(* a call refuses.  It makes up no offer and no answer of its own: an offer bears   *)
(* the device's key, and which key a client trusts is not decided here.             *)
(* RSA encryption seals a request: only the device can open it and nobody alters    *)
(* it.  A description (SDP) and a nonce bear the name of the call that made them.   *)
EXTENDS Integers, FiniteSets

CONSTANTS Accepts,    \* calls of accept_server_session
          Joins,      \* calls of connect_target
          Ids,        \* uids of clients
          DevicePin,  \* the pin the device expects
          Pins,       \* pins of clients
          Nobody      \* no call, no client

ASSUME EstablishmentAssumption ==
    Nobody \notin Accepts \cup Joins \cup Ids /\ DevicePin \in Pins

VARIABLES server,  \* Accepts -> the call
          client,  \* Joins -> the call
          relay    \* every offer, answer and request that was sent

estVars == <<server, client, relay>>

Peers == {"none", "open", "closed", "dropped"}
Results == {"none", "ok", "error"}

ServerSession ==
    [pc : {"start", "register", "request", "answer", "ready", "handshake", "ended"},
     client_id : Ids \cup {Nobody}, consumed : BOOLEAN, answer : Joins \cup {Nobody},
     peer : Peers, result : Results]

ClientSession ==
    [pc : {"start", "offer", "ready", "handshake", "ended"}, client_id : Ids, pin : Pins,
     offer : Accepts \cup {Nobody}, peer : Peers, result : Results]

Request(id) == [type |-> "request", client_id |-> id]
Offer(id, a) == [type |-> "offer", client_id |-> id, sdp |-> a, nonce |-> a]

\* encrypted_session_request
Sealed(fingerprint, nonce, code) == [fingerprint |-> fingerprint, nonce |-> nonce, code |-> code]
Answer(id, j, sealed) == [type |-> "answer", client_id |-> id, sdp |-> j, encrypted_request |-> sealed]

Of(type) == {m \in relay : m.type = type}

EstInit ==
    /\ server = [a \in Accepts |-> [pc |-> "start", client_id |-> Nobody, consumed |-> FALSE,
                                    answer |-> Nobody, peer |-> "none", result |-> "none"]]
    /\ \E ids \in [Joins -> Ids], pins \in [Joins -> Pins] :
           client = [j \in Joins |-> [pc |-> "start", client_id |-> ids[j], pin |-> pins[j],
                                      offer |-> Nobody, peer |-> "none", result |-> "none"]]
    /\ relay = {}

ServerAt(a, pc) == server[a].pc = pc
ClientAt(j, pc) == client[j].pc = pc

\* The call returns an error and leaves its peer in the given state.
ServerFails(a, peer) ==
    server' = [server EXCEPT ![a].pc = "ended", ![a].result = "error", ![a].peer = peer]
ClientFails(j, peer) ==
    client' = [client EXCEPT ![j].pc = "ended", ![j].result = "error", ![j].peer = peer]

---------------------------------------------------------------------------------
(* accept_server_session                                                         *)

\* connect_with_retry, then register is sent.
ServerConnects(a) ==
    /\ ServerAt(a, "start")
    /\ server' = [server EXCEPT ![a].pc = "register"]
    /\ UNCHANGED <<client, relay>>

ServerRegistered(a) ==
    /\ ServerAt(a, "register")
    /\ server' = [server EXCEPT ![a].pc = "request"]
    /\ UNCHANGED <<client, relay>>

\* A request: challenge, peer and offer are made and the offer is sent.  A data
\* channel that cannot be made leaves the peer; an offer that cannot be made or sent
\* closes it.
ServerRequested(a) ==
    /\ ServerAt(a, "request")
    /\ \E m \in Of("request") :
           \/ /\ server' = [server EXCEPT ![a].pc = "answer", ![a].peer = "open",
                                          ![a].client_id = m.client_id]
              /\ relay' = relay \cup {Offer(m.client_id, a)}
           \/ \E peer \in {"none", "dropped", "closed"} :
                  ServerFails(a, peer) /\ UNCHANGED relay
    /\ UNCHANGED client

\* Defect used as a mutant: any nonce of the device will do.
MutNonceIgnored(a, sealed, sdp) == sealed.fingerprint = sdp /\ sealed.code = DevicePin

\* validate_encrypted_request against the challenge of a and the answer's own SDP.
validate_encrypted_request(a, sealed, sdp) ==
    sealed.nonce = a /\ sealed.fingerprint = sdp /\ sealed.code = DevicePin

\* Defect used as a mutant: only a right answer gets its peer looked after.
MutRefusedPeerLeft(a, sealed, sdp) ==
    IF validate_encrypted_request(a, sealed, sdp)
    THEN \/ server' = [server EXCEPT ![a].pc = "ready", ![a].consumed = TRUE, ![a].answer = sdp]
         \/ ServerFails(a, "dropped")
    ELSE server' = [server EXCEPT ![a].pc = "ended", ![a].result = "error",
                                  ![a].consumed = TRUE, ![a].peer = "dropped"]

\* validate_and_consume, then set_remote_answer.  An answer that does not parse
\* leaves the peer, one that cannot be set closes it.
ServerTakes(a, sealed, sdp) ==
    IF validate_encrypted_request(a, sealed, sdp)
    THEN \E next \in {"ready", "ended"}, peer \in {"open", "dropped", "closed"} :
             /\ (next = "ready") = (peer = "open")
             /\ server' = [server EXCEPT ![a].pc = next, ![a].consumed = TRUE, ![a].answer = sdp,
                                         ![a].peer = peer,
                                         ![a].result = IF next = "ready" THEN @ ELSE "error"]
    ELSE server' = [server EXCEPT ![a].pc = "ended", ![a].result = "error",
                                  ![a].consumed = TRUE, ![a].peer = "closed"]

\* The answer of one call with the sealed request of any; for another client it is
\* refused before the challenge is spent and the peer is left.
ServerAnswered(a) ==
    /\ ServerAt(a, "answer")
    /\ \E m, other \in Of("answer") :
           IF m.client_id = server[a].client_id
           THEN ServerTakes(a, other.encrypted_request, m.sdp)
           ELSE ServerFails(a, "dropped")
    /\ UNCHANGED <<client, relay>>

\* The relay sends anything else: an error, a candidate, a message out of place.
ServerRefuses(a) ==
    /\ server[a].pc \in {"register", "request", "answer"}
    /\ ServerFails(a, IF ServerAt(a, "answer") THEN "closed" ELSE "none")
    /\ UNCHANGED <<client, relay>>

\* There is no connection, the time limit of a wait for a message passes, or the
\* socket ends.
ServerSilence(a) ==
    /\ server[a].pc \in {"start", "register", "request", "answer"}
    /\ ServerFails(a, IF ServerAt(a, "answer") THEN "dropped" ELSE "none")
    /\ UNCHANGED <<client, relay>>

\* Both ends have the description of the other and are there.
Linked(a, j) ==
    /\ server[a].answer = j /\ client[j].offer = a
    /\ server[a].peer = "open" /\ client[j].peer = "open"

ServerPeerReady(a) ==
    /\ ServerAt(a, "ready")
    /\ \E j \in Joins : Linked(a, j)
    /\ server' = [server EXCEPT ![a].pc = "handshake"]
    /\ UNCHANGED <<client, relay>>

ServerPeerFails(a) ==
    /\ ServerAt(a, "ready")
    /\ ServerFails(a, "dropped")
    /\ UNCHANGED <<client, relay>>

\* The handshake of module Handshake, by its outcome: the server is ready if the
\* client runs it too, with the right PIN.
ServerHandshake(a) ==
    /\ ServerAt(a, "handshake")
    /\ \/ /\ \E j \in Joins : Linked(a, j) /\ ClientAt(j, "handshake") /\ client[j].pin = DevicePin
          /\ server' = [server EXCEPT ![a].pc = "ended", ![a].result = "ok"]
       \/ ServerFails(a, "closed")
    /\ UNCHANGED <<client, relay>>

---------------------------------------------------------------------------------
(* connect_target                                                                *)

\* connect_with_retry, then the request is sent.
ClientConnects(j) ==
    /\ ClientAt(j, "start")
    /\ client' = [client EXCEPT ![j].pc = "offer"]
    /\ relay' = relay \cup {Request(client[j].client_id)}
    /\ UNCHANGED server

\* An offer for this client: keys are read, peer and answer are made and the answer
\* is sent with the request sealed for the device.  Sealing that fails leaves the
\* peer; an answer that cannot be made or sent closes it.
ClientOffered(j) ==
    /\ ClientAt(j, "offer")
    /\ \E m \in Of("offer") :
           \/ /\ m.client_id = client[j].client_id
              /\ client' = [client EXCEPT ![j].pc = "ready", ![j].peer = "open", ![j].offer = m.sdp]
              /\ relay' = relay \cup {Answer(m.client_id, j, Sealed(j, m.nonce, client[j].pin))}
           \/ /\ m.client_id = client[j].client_id
              /\ \E peer \in {"none", "closed", "dropped"} : ClientFails(j, peer)
              /\ UNCHANGED relay
           \/ /\ m.client_id # client[j].client_id
              /\ ClientFails(j, "none")
              /\ UNCHANGED relay
    /\ UNCHANGED server

\* Any other message, silence, or the end of the socket: there is no peer yet.
ClientRefuses(j) ==
    /\ client[j].pc \in {"start", "offer"}
    /\ ClientFails(j, "none")
    /\ UNCHANGED <<server, relay>>

ClientPeerReady(j) ==
    /\ ClientAt(j, "ready")
    /\ \E a \in Accepts : Linked(a, j)
    /\ client' = [client EXCEPT ![j].pc = "handshake"]
    /\ UNCHANGED <<server, relay>>

\* Defect used as a mutant: the wait for the peer has no time limit.
MutPeerWaitUnbounded(j) ==
    /\ ClientAt(j, "ready")
    /\ \E a \in Accepts : Linked(a, j)
    /\ ClientFails(j, "closed")
    /\ UNCHANGED <<server, relay>>

ClientPeerFails(j) ==
    /\ ClientAt(j, "ready")
    /\ ClientFails(j, "closed")
    /\ UNCHANGED <<server, relay>>

\* A client is ready only after its server (ClientFollowsServer of Handshake).
ClientHandshake(j) ==
    /\ ClientAt(j, "handshake")
    /\ \/ /\ \E a \in Accepts : Linked(a, j) /\ server[a].result = "ok"
          /\ client' = [client EXCEPT ![j].pc = "ended", ![j].result = "ok"]
       \/ ClientFails(j, "closed")
    /\ UNCHANGED <<server, relay>>

---------------------------------------------------------------------------------
ServerStep(a) ==
    \/ ServerConnects(a) \/ ServerRegistered(a) \/ ServerRequested(a) \/ ServerAnswered(a)
    \/ ServerRefuses(a) \/ ServerSilence(a) \/ ServerPeerReady(a) \/ ServerPeerFails(a)
    \/ ServerHandshake(a)

ClientStep(j) ==
    \/ ClientConnects(j) \/ ClientOffered(j) \/ ClientRefuses(j) \/ ClientPeerReady(j)
    \/ ClientPeerFails(j) \/ ClientHandshake(j)

EstNext == (\E a \in Accepts : ServerStep(a)) \/ (\E j \in Joins : ClientStep(j))

\* Every wait of a call that has its socket has a time limit.  Connecting has none:
\* a relay that accepts the connection and leaves the upgrade unanswered holds the
\* call at its start.  A send has none either, but the few frames of a call are
\* far smaller than the buffers of its socket and do not wait for the relay.
EstFairness ==
    /\ \A a \in Accepts : WF_estVars(~ServerAt(a, "start") /\ ServerStep(a))
    /\ \A j \in Joins : WF_estVars(~ClientAt(j, "start") /\ ClientStep(j))

EstSpec == EstInit /\ [][EstNext]_estVars /\ EstFairness

---------------------------------------------------------------------------------
(* Properties                                                                    *)

\* The records of the calls keep their types.
EstTypeOK == server \in [Accepts -> ServerSession] /\ client \in [Joins -> ClientSession]

\* A device goes on only with the answer to the very offer of this call, made with
\* the right PIN by the client that it made the offer to: no answer from an earlier
\* or a concurrent call opens it, whatever the relay delays, repeats or mixes up.
OnlyOwnAnswers ==
    \A a \in Accepts : server[a].answer # Nobody =>
        LET j == server[a].answer
        IN /\ client[j].offer = a
           /\ client[j].pin = DevicePin
           /\ client[j].client_id = server[a].client_id

\* Where peers are left without a close: by a client only if its answer never went
\* out, by a device never after it refused a sealed request, and never by a call
\* that succeeded.
PeersAccounted ==
    /\ \A a \in Accepts :
           /\ server[a].peer = "dropped" /\ server[a].consumed => server[a].answer # Nobody
           /\ server[a].pc = "ended" => (server[a].result = "ok") = (server[a].peer = "open")
    /\ \A j \in Joins :
           /\ client[j].peer = "dropped" => \A m \in Of("answer") : m.sdp # j
           /\ client[j].pc = "ended" => (client[j].result = "ok") = (client[j].peer = "open")

\* A call that has connected to the relay comes back, whatever becomes of the other
\* end and of the relay after that: in the end no call is under way between the
\* start, where it may hang, and its end, which is final.
CallsEnd ==
    <>[](/\ \A a \in Accepts : server[a].pc \in {"start", "ended"}
         /\ \A j \in Joins : client[j].pc \in {"start", "ended"})
=================================================================================
