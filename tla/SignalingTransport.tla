---------------------------- MODULE SignalingTransport ----------------------------
(* SignalingClient::transact_with_retry against LocalFixtureServer                 *)
(* (src/signaling/transport.rs): connections that break, answers that are lost,    *)
(* malformed or too long, and a request that is sent again after any error.        *)
EXTENDS SignalingMessages, AddressPolicy

CONSTANTS Requests,      \* messages a caller sends
          Lookups,       \* what the name of the endpoint may resolve to: sets of addresses
          Policies,      \* values of endpoint_policy
          MaxRetries,    \* reconnect.max_retries
          Faults,        \* bound on frames that a relay adds and connections that break
          Sizes,         \* lengths of a payload
          MaxMessage,    \* max_message_size of the client
          DEFAULT_MAX_MESSAGE_SIZE  \* that of the server

ASSUME TransportAssumption ==
    /\ MaxRetries \in Nat /\ Faults \in Nat
    /\ {MaxMessage, DEFAULT_MAX_MESSAGE_SIZE} \subseteq Nat \ {0} /\ Sizes \subseteq Nat
    /\ \A m \in Requests : IsMessage(m)

VARIABLES call,       \* where the caller is
          request,    \* its request and the length of it
          attempt,    \* retries so far
          answer,     \* what it returned: a set with at most one message
          conns,      \* the connections, in the order they were accepted
          received,   \* received_messages, each with its connection
          fixture,    \* FixtureConfig
          accepting,  \* the accept loop runs
          policy,     \* endpoint_policy
          faults

sigVars == <<call, request, attempt, answer, conns, received, fixture, accepting, policy, faults>>

\* up and down are the frames under way to the server and to the client; an end
\* that is gone has dropped its socket.
Connection == [up |-> <<>>, down |-> <<>>, client |-> TRUE, server |-> TRUE]

Text(payload, size) == [kind |-> "text", payload |-> payload, size |-> size]
Plainly(kind) == [kind |-> kind, payload |-> Malformed, size |-> 0]

FixtureConfigs == {"plain", "close_before", "close_after", "malformed"}

SigInit ==
    /\ call = "idle" /\ attempt = 0 /\ answer = {} /\ conns = <<>> /\ received = <<>>
    /\ request \in [message : Requests, size : Sizes]
    /\ fixture \in FixtureConfigs
    /\ policy \in Policies
    /\ accepting = TRUE /\ faults = 0

\* The connection of the caller.
Mine == Len(conns)

---------------------------------------------------------------------------------
(* Frames: WebSocketConnection::recv                                             *)

\* What recv makes of the next frame: it goes on, ends with None, with an error, or
\* with the message.
recv(frame, limit) ==
    CASE frame.kind \in {"ping", "pong"} -> [next |-> "again", message |-> {}]
      [] frame.kind = "close"  -> [next |-> "closed", message |-> {}]
      [] frame.kind = "binary" -> [next |-> "error", message |-> {}]
      [] frame.kind = "text" ->
            IF frame.size > limit \/ decode_message(frame.payload) = {}
            THEN [next |-> "error", message |-> {}]
            ELSE [next |-> "message", message |-> decode_message(frame.payload)]

---------------------------------------------------------------------------------
(* The client                                                                    *)

\* Every address must pass; no address is an error.
validate_endpoint(addresses) ==
    addresses # {} /\ \A ip \in addresses : endpoint_allows(ip, policy)

Start ==
    /\ call = "idle" /\ call' = "connect"
    /\ UNCHANGED <<request, attempt, answer, conns, received, fixture, accepting, policy, faults>>

\* Defect used as a mutant: the last retry is counted one late.
MutOneRetryMore == attempt <= MaxRetries

RetriesLeft == attempt < MaxRetries

\* transact fails: its connection is dropped, and while retries are left the
\* caller sleeps for retry_delay.
Fails ==
    /\ IF RetriesLeft THEN call' = "sleep" /\ attempt' = attempt + 1
       ELSE call' = "failed" /\ UNCHANGED attempt
    /\ UNCHANGED <<request, answer, received, fixture, accepting, policy, faults>>

\* connect: the name is resolved and checked, then connect_async resolves it again
\* by itself and completes the upgrade, or fails.
Connects ==
    /\ call = "connect"
    /\ \E addresses \in Lookups :
           \/ /\ validate_endpoint(addresses) /\ accepting
              /\ call' = "send"
              /\ conns' = Append(conns, Connection)
              /\ UNCHANGED <<request, attempt, answer, received, fixture, accepting, policy, faults>>
           \/ /\ ~validate_endpoint(addresses) \/ ~accepting
              /\ Fails /\ UNCHANGED conns

Dropped == conns' = [conns EXCEPT ![Mine].client = FALSE]

\* send: a message that is not valid or too long is an error before anything is
\* sent; so is a socket whose other end has gone, or the frame vanishes with it.
Sends ==
    /\ call = "send"
    /\ \/ \E payload \in encode_message(request.message) :
              /\ request.size <= MaxMessage
              /\ call' = "recv"
              /\ conns' = [conns EXCEPT ![Mine].up = Append(@, Text(payload, request.size))]
              /\ UNCHANGED <<request, attempt, answer, received, fixture, accepting, policy, faults>>
       \/ /\ encode_message(request.message) = {} \/ request.size > MaxMessage \/ ~conns[Mine].server
          /\ Fails /\ Dropped

\* recv, frame by frame; transact drops the connection when it returns.  The pong
\* that answers a ping may not get through.
Receives ==
    /\ call = "recv" /\ conns[Mine].down # <<>>
    /\ LET r == recv(Head(conns[Mine].down), MaxMessage)
           rest == [conns EXCEPT ![Mine].down = Tail(@)]
       IN \/ /\ r.next = "again"
             /\ conns' = rest
             /\ UNCHANGED <<call, request, attempt, answer, received, fixture, accepting, policy, faults>>
          \/ /\ r.next = "message"
             /\ call' = "done" /\ answer' = r.message
             /\ conns' = [rest EXCEPT ![Mine].client = FALSE]
             /\ UNCHANGED <<request, attempt, received, fixture, accepting, policy, faults>>
          \/ /\ \/ r.next \in {"closed", "error"}
                \/ Head(conns[Mine].down).kind = "ping" /\ ~conns[Mine].server
             /\ Fails
             /\ conns' = [rest EXCEPT ![Mine].client = FALSE]

\* The socket ends without a close frame.
ReceivesEnd ==
    /\ call = "recv" /\ conns[Mine].down = <<>> /\ ~conns[Mine].server
    /\ Fails /\ Dropped

Wakes ==
    /\ call = "sleep" /\ call' = "connect"
    /\ UNCHANGED <<request, attempt, answer, conns, received, fixture, accepting, policy, faults>>

---------------------------------------------------------------------------------
(* LocalFixtureServer                                                            *)

Registered == SignalingMessage("registered", [pairing_code |-> "six digits"], 0, <<>>, <<>>)
Unsupported == SignalingMessage("error", [message |-> "not implemented"], 0, <<>>, <<>>)

Sent(message) == <<Text((CHOOSE p \in encode_message(message) : TRUE), 1)>>

\* fixture_connection_loop: what connection i answers to m, and whether it goes on.
Response(i, m) ==
    IF m.type # "register" THEN [frames |-> Sent(Unsupported), stays |-> TRUE] ELSE
    CASE i = 1 /\ fixture = "close_before" -> [frames |-> <<Plainly("close")>>, stays |-> FALSE]
      [] i = 1 /\ fixture = "malformed" -> [frames |-> <<Text(Malformed, 1)>>, stays |-> FALSE]
      [] i = 1 /\ fixture = "close_after" ->
            [frames |-> Sent(Registered) \o <<Plainly("close")>>, stays |-> FALSE]
      [] OTHER -> [frames |-> Sent(Registered), stays |-> TRUE]

\* What connection i does after recv: a message is answered, anything else but a
\* frame to skip ends it.
Turn(i, r) ==
    IF r.next = "message" THEN Response(i, CHOOSE m \in r.message : TRUE)
    ELSE [frames |-> <<>>, stays |-> r.next = "again"]

\* The message is recorded before it is answered.
Serves(i) ==
    /\ conns[i].server /\ conns[i].up # <<>>
    /\ LET r == recv(Head(conns[i].up), DEFAULT_MAX_MESSAGE_SIZE)
       IN /\ received' = IF r.next = "message"
                         THEN Append(received, [conn |-> i, message |-> CHOOSE m \in r.message : TRUE])
                         ELSE received
          /\ conns' = [conns EXCEPT ![i].up = Tail(@), ![i].server = Turn(i, r).stays,
                                    ![i].down = @ \o Turn(i, r).frames]
    /\ UNCHANGED <<call, request, attempt, answer, fixture, accepting, policy, faults>>

\* The client has gone: the loop ends.
ServesEnd(i) ==
    /\ conns[i].server /\ conns[i].up = <<>> /\ ~conns[i].client
    /\ conns' = [conns EXCEPT ![i].server = FALSE]
    /\ UNCHANGED <<call, request, attempt, answer, received, fixture, accepting, policy, faults>>

\* shutdown ends the accept loop; connections that were accepted go on.
Shutdown ==
    /\ accepting /\ accepting' = FALSE
    /\ UNCHANGED <<call, request, attempt, answer, conns, received, fixture, policy, faults>>

---------------------------------------------------------------------------------
(* What is between them                                                          *)

Fault == faults < Faults /\ faults' = faults + 1

\* A message of the relay's own.  It is valid, and no message names the request it
\* answers: recv cannot tell it from the answer.
Notice == SignalingMessage("error", [message |-> "from the relay"], 0, <<>>, <<>>)

Interjections == {Plainly("ping"), Plainly("pong"), Plainly("binary"),
                  Text(Malformed, MaxMessage + 1), Head(Sent(Notice))}

\* A relay sends frames of its own before the answer, or before the request.
Interjects(frame) ==
    /\ Fault /\ call \in {"send", "recv"} /\ conns[Mine].server
    /\ conns' = [conns EXCEPT ![Mine].down = Append(@, frame)]
    /\ UNCHANGED <<call, request, attempt, answer, received, fixture, accepting, policy>>

\* A connection breaks: what is under way is lost.
Breaks(i) ==
    /\ Fault /\ conns[i].server
    /\ conns' = [conns EXCEPT ![i] = [@ EXCEPT !.up = <<>>, !.down = <<>>, !.server = FALSE]]
    /\ UNCHANGED <<call, request, attempt, answer, received, fixture, accepting, policy>>

SigClient == Start \/ Connects \/ Sends \/ Receives \/ ReceivesEnd \/ Wakes
SigServer == \E i \in DOMAIN conns : Serves(i) \/ ServesEnd(i)

SigNext ==
    \/ SigClient \/ SigServer \/ Shutdown
    \/ \E frame \in Interjections : Interjects(frame)
    \/ \E i \in DOMAIN conns : Breaks(i)

\* The runtime polls the caller, and the fixture's tasks, as long as they are there.
\* Connecting is not fair: connect has no time limit, and an upgrade that the other
\* end leaves unanswered lasts for ever.
SigFairness ==
    /\ WF_sigVars(call \notin {"idle", "connect"} /\ SigClient)
    /\ WF_sigVars(SigServer)

SigSpec == SigInit /\ [][SigNext]_sigVars /\ SigFairness

---------------------------------------------------------------------------------
(* Properties                                                                    *)

\* The server never sees more copies of a request than there are retries and one,
\* each on a connection of its own and exactly as the caller gave it.  What the
\* caller returns answers the copy on the connection it was returned from, never
\* one that an earlier attempt left behind, or is a message that the relay put
\* before the answer.
AnswersItsRequest ==
    /\ Len(received) <= MaxRetries + 1
    /\ \A i, j \in DOMAIN received : i # j => received[i].conn # received[j].conn
    /\ \A i \in DOMAIN received : received[i].message = request.message
    /\ call = "done" =>
           \/ answer = {Notice}
           \/ /\ \E i \in DOMAIN received : received[i].conn = Mine
              /\ answer = {IF request.message.type = "register" THEN Registered ELSE Unsupported}

\* A call comes back if no attempt to connect hangs and the server answers or goes
\* away.  Nothing else ends it: neither connect nor transact has a time limit.
TransactReturns ==
    []<>(call # "connect") => (call = "connect" ~> call \in {"done", "failed"})
=================================================================================
