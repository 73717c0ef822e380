------------------------- MODULE Signaling_proofs ------------------------------
(* Signaling: the calls that set up a session (Establishment) and the retrying call *)
(* of the transport (SignalingTransport).  They share nothing but the relay's role. *)
EXTENDS SignalingTransport, Establishment, FiniteSetTheorems, SequenceTheorems, TLAPS

---------------------------------------------------------------------------------
(* Establishment.  A device only goes on with an answer to its own offer, for any *)
(* number of calls and clients.  The invariant follows a message through the relay: *)
(* who made it and from what.  It is inductive because a call chooses its client,   *)
(* and a client its offer, once.                                                    *)

Early == {"start", "register", "request"}

IsRequest(m) == \E id \in Ids : m = Request(id)

IsOfferOf(m, a) ==
    /\ m = Offer(server[a].client_id, a)
    /\ server[a].client_id \in Ids
    /\ server[a].pc \notin Early

IsAnswerOf(m, j) ==
    /\ client[j].offer # Nobody
    /\ m = Answer(client[j].client_id, j, Sealed(j, client[j].offer, client[j].pin))

\* Every message is what the call that made it would still make.
RelayHonest ==
    \A m \in relay : \/ IsRequest(m)
                     \/ \E a \in Accepts : IsOfferOf(m, a)
                     \/ \E j \in Joins : IsAnswerOf(m, j)

\* A client that took an offer is past the wait for one, and took it from a call
\* that made it for this client.
OffersTaken ==
    \A j \in Joins : client[j].offer # Nobody =>
        /\ client[j].pc \notin {"start", "offer"}
        /\ server[client[j].offer].pc \notin Early
        /\ server[client[j].offer].client_id = client[j].client_id

AnswersLate == \A a \in Accepts : server[a].pc \in Early => server[a].answer = Nobody

EstInv == EstTypeOK /\ RelayHonest /\ OffersTaken /\ AnswersLate /\ OnlyOwnAnswers

\* Nothing was sent and nothing chosen when accept_server_session and connect_target
\* begin.
LEMMA EstStarts == EstInit => EstInv
  BY EstablishmentAssumption
  DEF EstInit, EstInv, EstTypeOK, RelayHonest, OffersTaken, AnswersLate, OnlyOwnAnswers,
      ServerSession, ClientSession, Peers, Results

\* The names in the calls' records are names of calls and clients.
LEMMA EstNames ==
    ASSUME EstTypeOK
    PROVE  /\ \A j \in Joins : /\ client[j].client_id \in Ids
                               /\ client[j].offer # Nobody => client[j].offer \in Accepts
           /\ \A a \in Accepts : server[a].answer # Nobody => server[a].answer \in Joins
  BY DEF EstTypeOK, ServerSession, ClientSession

\* A step of a device that changes neither its client nor its answer.
LEMMA ServerQuiet ==
    ASSUME EstInv, server' \in [Accepts -> ServerSession],
           \A b \in Accepts : /\ server'[b].client_id = server[b].client_id
                              /\ server'[b].answer = server[b].answer
                              /\ server'[b].pc \in Early => server[b].pc \in Early,
           UNCHANGED <<client, relay>>
    PROVE  EstInv'
<1>1. EstTypeOK'
  BY DEF EstInv, EstTypeOK
<1>2. RelayHonest'
  <2>1. \A m, a : a \in Accepts /\ IsOfferOf(m, a) => IsOfferOf(m, a)'
    BY DEF IsOfferOf
  <2>2. \A m, j : j \in Joins /\ IsAnswerOf(m, j) => IsAnswerOf(m, j)'
    BY DEF IsAnswerOf
  <2> QED
    BY <2>1, <2>2 DEF EstInv, RelayHonest, IsRequest
<1>3. OffersTaken'
  BY EstNames DEF EstInv, OffersTaken
<1>4. AnswersLate'
  BY DEF EstInv, AnswersLate
<1>5. OnlyOwnAnswers'
  BY EstNames DEF EstInv, OnlyOwnAnswers
<1> QED
  BY <1>1, <1>2, <1>3, <1>4, <1>5 DEF EstInv

\* A step of a client that takes no offer; it may send a request.
LEMMA ClientQuiet ==
    ASSUME EstInv, client' \in [Joins -> ClientSession],
           \A k \in Joins : /\ client'[k].client_id = client[k].client_id
                            /\ client'[k].pin = client[k].pin
                            /\ client'[k].offer = client[k].offer
                            /\ client'[k].pc \in {"start", "offer"} =>
                                   client[k].pc \in {"start", "offer"},
           \A m \in relay' : m \in relay \/ IsRequest(m),
           UNCHANGED server
    PROVE  EstInv'
<1>1. EstTypeOK'
  BY DEF EstInv, EstTypeOK
<1>2. RelayHonest'
  <2>1. \A m, a : a \in Accepts /\ IsOfferOf(m, a) => IsOfferOf(m, a)'
    BY DEF IsOfferOf
  <2>2. \A m, j : j \in Joins /\ IsAnswerOf(m, j) => IsAnswerOf(m, j)'
    BY DEF IsAnswerOf
  <2> QED
    BY <2>1, <2>2 DEF EstInv, RelayHonest, IsRequest
<1>3. OffersTaken'
  BY EstNames DEF EstInv, OffersTaken
<1>4. AnswersLate'
  BY DEF EstInv, AnswersLate
<1>5. OnlyOwnAnswers'
  BY EstNames DEF EstInv, OnlyOwnAnswers
<1> QED
  BY <1>1, <1>2, <1>3, <1>4, <1>5 DEF EstInv

\* A call that fails is quiet whatever becomes of its peer.
LEMMA ServerFailsQuiet ==
    ASSUME EstInv, NEW a \in Accepts, NEW peer \in Peers,
           ServerFails(a, peer), UNCHANGED <<client, relay>>
    PROVE  EstInv'
<1>1. server' \in [Accepts -> ServerSession]
  <2> DEFINE r == [server[a] EXCEPT !.pc = "ended", !.result = "error", !.peer = peer]
  <2>1. server[a] \in ServerSession
    BY DEF EstInv, EstTypeOK
  <2>2. "error" \in Results
    BY DEF Results, Peers
  <2>3. r \in ServerSession
    BY <2>1, <2>2 DEF ServerSession
  <2>4. server' = [server EXCEPT ![a] = r]
    BY DEF ServerFails
  <2> HIDE DEF r
  <2> QED
    BY <2>3, <2>4 DEF EstInv, EstTypeOK
<1>2. \A b \in Accepts : /\ server'[b].client_id = server[b].client_id
                         /\ server'[b].answer = server[b].answer
                         /\ server'[b].pc \in Early => server[b].pc \in Early
  BY DEF EstInv, EstTypeOK, ServerFails, ServerSession, Early
<1> QED
  BY <1>1, <1>2, ServerQuiet

\* The same for connect_target.
LEMMA ClientFailsQuiet ==
    ASSUME EstInv, NEW j \in Joins, NEW peer \in Peers,
           ClientFails(j, peer), UNCHANGED <<server, relay>>
    PROVE  EstInv'
<1>1. client' \in [Joins -> ClientSession]
  <2> DEFINE r == [client[j] EXCEPT !.pc = "ended", !.result = "error", !.peer = peer]
  <2>1. client[j] \in ClientSession
    BY DEF EstInv, EstTypeOK
  <2>2. "error" \in Results
    BY DEF Results, Peers
  <2>3. r \in ClientSession
    BY <2>1, <2>2 DEF ClientSession
  <2>4. client' = [client EXCEPT ![j] = r]
    BY DEF ClientFails
  <2> HIDE DEF r
  <2> QED
    BY <2>3, <2>4 DEF EstInv, EstTypeOK
<1>2. \A k \in Joins : /\ client'[k].client_id = client[k].client_id
                       /\ client'[k].pin = client[k].pin
                       /\ client'[k].offer = client[k].offer
                       /\ client'[k].pc \in {"start", "offer"} =>
                              client[k].pc \in {"start", "offer"}
  BY DEF EstInv, EstTypeOK, ClientFails, ClientSession
<1>3. \A m \in relay' : m \in relay \/ IsRequest(m)
  OBVIOUS
<1> QED
  BY <1>1, <1>2, <1>3, ClientQuiet

\* The device that takes a request names its client once: it was early, so no client
\* holds an offer of this call and no answer was taken.
LEMMA RequestTaken ==
    ASSUME EstInv, NEW a \in Accepts, ServerRequested(a)
    PROVE  EstInv'
<1>1. PICK m \in Of("request") :
          \/ /\ server' = [server EXCEPT ![a].pc = "answer", ![a].peer = "open",
                                         ![a].client_id = m.client_id]
             /\ relay' = relay \cup {Offer(m.client_id, a)}
          \/ \E peer \in {"none", "dropped", "closed"} :
                 ServerFails(a, peer) /\ UNCHANGED relay
  BY DEF ServerRequested
<1>2. CASE \E peer \in {"none", "dropped", "closed"} : ServerFails(a, peer) /\ UNCHANGED relay
  BY <1>2, ServerFailsQuiet DEF ServerRequested, Peers
<1>3. CASE /\ server' = [server EXCEPT ![a].pc = "answer", ![a].peer = "open",
                                       ![a].client_id = m.client_id]
           /\ relay' = relay \cup {Offer(m.client_id, a)}
  <2>0. server[a].pc = "request" /\ UNCHANGED client
    BY DEF ServerRequested, ServerAt
  <2>1. m.client_id \in Ids
    <3>1. m \in relay /\ m.type = "request"
      BY DEF Of
    <3>2. ~ \E b \in Accepts : IsOfferOf(m, b)
      BY <3>1 DEF IsOfferOf, Offer
    <3>3. ~ \E j \in Joins : IsAnswerOf(m, j)
      BY <3>1 DEF IsAnswerOf, Answer
    <3>4. IsRequest(m)
      BY <3>1, <3>2, <3>3 DEF EstInv, RelayHonest
    <3> QED
      BY <3>4 DEF IsRequest, Request
  <2>2. server' \in [Accepts -> ServerSession]
    <3> DEFINE r == [server[a] EXCEPT !.pc = "answer", !.peer = "open", !.client_id = m.client_id]
    <3>1. server[a] \in ServerSession
      BY DEF EstInv, EstTypeOK
    <3>2. "open" \in Peers
      BY DEF Peers
    <3>3. r \in ServerSession
      BY <2>1, <3>1, <3>2 DEF ServerSession
    <3>4. server' = [server EXCEPT ![a] = r]
      BY <1>3
    <3> HIDE DEF r
    <3> QED
      BY <3>3, <3>4 DEF EstInv, EstTypeOK
  <2>3. /\ \A b \in Accepts : b # a => server'[b] = server[b]
        /\ server'[a].pc = "answer" /\ server'[a].client_id = m.client_id
        /\ server'[a].answer = server[a].answer
    BY <1>3 DEF EstInv, EstTypeOK, ServerSession
  <2>4. \A j \in Joins : client[j].offer # a
    BY <2>0, EstablishmentAssumption DEF EstInv, OffersTaken, Early
  <2>5. server[a].answer = Nobody
    BY <2>0 DEF EstInv, AnswersLate, Early
  <2>6. RelayHonest'
    <3>1. \A n, b : b \in Accepts /\ IsOfferOf(n, b) => b # a
      BY <2>0 DEF IsOfferOf, Early
    <3>2. \A n, b : b \in Accepts /\ IsOfferOf(n, b) => IsOfferOf(n, b)'
      BY <3>1, <2>3 DEF IsOfferOf
    <3>3. \A n, j : j \in Joins /\ IsAnswerOf(n, j) => IsAnswerOf(n, j)'
      BY <2>0 DEF IsAnswerOf
    <3>4. IsOfferOf(Offer(m.client_id, a), a)'
      BY <2>1, <2>3 DEF IsOfferOf, Early
    <3>5. \A n \in relay : \/ IsRequest(n)
                           \/ \E b \in Accepts : IsOfferOf(n, b)'
                           \/ \E j \in Joins : IsAnswerOf(n, j)'
      BY <3>2, <3>3 DEF EstInv, RelayHonest
    <3>6. \A n \in relay' : \/ IsRequest(n)
                            \/ \E b \in Accepts : IsOfferOf(n, b)'
                            \/ \E j \in Joins : IsAnswerOf(n, j)'
      BY <1>3, <3>4, <3>5
    <3> QED
      BY <3>6 DEF RelayHonest, IsRequest
  <2>7. OffersTaken'
    BY <2>0, <2>3, <2>4, EstNames DEF EstInv, OffersTaken
  <2>8. AnswersLate'
    BY <2>3, <2>5 DEF EstInv, AnswersLate
  <2>9. OnlyOwnAnswers'
    BY <2>0, <2>3, <2>5, EstNames DEF EstInv, OnlyOwnAnswers
  <2> QED
    BY <2>0, <2>2, <2>6, <2>7, <2>8, <2>9 DEF EstInv, EstTypeOK
<1> QED
  BY <1>1, <1>2, <1>3

\* What a message of type answer says of the call that made it.
LEMMA AnswerOrigin ==
    ASSUME EstInv, NEW m \in Of("answer")
    PROVE  \E j \in Joins : IsAnswerOf(m, j)
<1>1. m \in relay /\ m.type = "answer"
  BY DEF Of
<1>2. ~ IsRequest(m)
  BY <1>1 DEF IsRequest, Request
<1>3. ~ \E b \in Accepts : IsOfferOf(m, b)
  BY <1>1 DEF IsOfferOf, Offer
<1> QED
  BY <1>1, <1>2, <1>3 DEF EstInv, RelayHonest

\* A sealed request that passes the challenge of a was sealed by the call whose
\* description comes with it, for the offer of a, with the device's PIN.
LEMMA AnswerTaken ==
    ASSUME EstInv, NEW a \in Accepts, ServerAnswered(a)
    PROVE  EstInv'
<1>0. server[a].pc = "answer" /\ UNCHANGED <<client, relay>>
  BY DEF ServerAnswered, ServerAt
<1>1. PICK m \in Of("answer"), other \in Of("answer") :
          IF m.client_id = server[a].client_id
          THEN ServerTakes(a, other.encrypted_request, m.sdp)
          ELSE ServerFails(a, "dropped")
  BY DEF ServerAnswered
<1>2. CASE m.client_id # server[a].client_id
  BY <1>0, <1>1, <1>2, ServerFailsQuiet DEF Peers
<1>3. CASE m.client_id = server[a].client_id
  <2>1. PICK j \in Joins : IsAnswerOf(m, j)
    BY AnswerOrigin
  <2>2. PICK k \in Joins : IsAnswerOf(other, k)
    BY AnswerOrigin
  <2>3. m.sdp = j /\ m.client_id = client[j].client_id
    BY <2>1 DEF IsAnswerOf, Answer
  <2>4. other.encrypted_request = [fingerprint |-> k, nonce |-> client[k].offer, code |-> client[k].pin]
    BY <2>2 DEF IsAnswerOf, Answer, Sealed
  <2>5. CASE ~ validate_encrypted_request(a, other.encrypted_request, m.sdp)
    <3>1. server' = [server EXCEPT ![a].pc = "ended", ![a].result = "error",
                                   ![a].consumed = TRUE, ![a].peer = "closed"]
      BY <1>1, <1>3, <2>5 DEF ServerTakes
    <3>2. server' \in [Accepts -> ServerSession]
      <4> DEFINE r == [server[a] EXCEPT !.pc = "ended", !.result = "error",
                                     !.consumed = TRUE, !.peer = "closed"]
      <4>1. server[a] \in ServerSession
        BY DEF EstInv, EstTypeOK
      <4>2. "error" \in Results /\ "closed" \in Peers
        BY DEF Results, Peers
      <4>3. r \in ServerSession
        BY <4>1, <4>2 DEF ServerSession
      <4>4. server' = [server EXCEPT ![a] = r]
        BY <3>1
      <4> HIDE DEF r
      <4> QED
        BY <4>3, <4>4 DEF EstInv, EstTypeOK
    <3>3. \A b \in Accepts : /\ server'[b].client_id = server[b].client_id
                             /\ server'[b].answer = server[b].answer
                             /\ server'[b].pc \in Early => server[b].pc \in Early
      BY <3>1 DEF EstInv, EstTypeOK, ServerSession, Early
    <3> QED
      BY <1>0, <3>2, <3>3, ServerQuiet
  <2>6. CASE validate_encrypted_request(a, other.encrypted_request, m.sdp)
    <3>1. client[k].offer = a /\ k = j /\ client[k].pin = DevicePin
      BY <2>3, <2>4, <2>6 DEF validate_encrypted_request
    <3>2. PICK next \in {"ready", "ended"}, peer \in {"open", "dropped", "closed"} :
              server' = [server EXCEPT ![a].pc = next, ![a].consumed = TRUE, ![a].answer = m.sdp,
                                       ![a].peer = peer,
                                       ![a].result = IF next = "ready" THEN @ ELSE "error"]
      BY <1>1, <1>3, <2>6 DEF ServerTakes
    <3>3. server' \in [Accepts -> ServerSession]
      <4> DEFINE r == [server[a] EXCEPT !.pc = next, !.consumed = TRUE, !.answer = m.sdp, !.peer = peer,
                                     !.result = IF next = "ready" THEN @ ELSE "error"]
      <4>1. server[a] \in ServerSession
        BY DEF EstInv, EstTypeOK
      <4>2. "error" \in Results /\ peer \in Peers /\ m.sdp \in Joins
        BY <2>3 DEF Results, Peers
      <4>3. r \in ServerSession
        BY <4>1, <4>2 DEF ServerSession
      <4>4. server' = [server EXCEPT ![a] = r]
        BY <3>2
      <4> HIDE DEF r
      <4> QED
        BY <4>3, <4>4 DEF EstInv, EstTypeOK
    <3>4. /\ \A b \in Accepts : b # a => server'[b] = server[b]
          /\ server'[a].pc \in {"ready", "ended"} /\ server'[a].client_id = server[a].client_id
          /\ server'[a].answer = j
      BY <2>3, <3>2 DEF EstInv, EstTypeOK, ServerSession
    <3>5. RelayHonest'
      <4>1. \A n, b : b \in Accepts /\ IsOfferOf(n, b) => IsOfferOf(n, b)'
        BY <3>4 DEF IsOfferOf, Early
      <4>2. \A n, i : i \in Joins /\ IsAnswerOf(n, i) => IsAnswerOf(n, i)'
        BY <1>0 DEF IsAnswerOf
      <4> QED
        BY <1>0, <4>1, <4>2 DEF EstInv, RelayHonest, IsRequest
    <3>6. OffersTaken'
      BY <1>0, <3>4, EstNames DEF EstInv, OffersTaken, Early
    <3>7. AnswersLate'
      BY <3>4 DEF EstInv, AnswersLate, Early
    <3>8. OnlyOwnAnswers'
      BY <1>0, <1>3, <2>3, <3>1, <3>4, EstNames DEF EstInv, OnlyOwnAnswers
    <3> QED
      BY <1>0, <3>3, <3>5, <3>6, <3>7, <3>8 DEF EstInv, EstTypeOK
  <2> QED
    BY <2>5, <2>6
<1> QED
  BY <1>2, <1>3

\* A client takes an offer once: it still waited, so it had none, and no answer of
\* this call is with the relay or with a device.
LEMMA OfferTaken ==
    ASSUME EstInv, NEW j \in Joins, ClientOffered(j)
    PROVE  EstInv'
<1>0. client[j].pc = "offer" /\ UNCHANGED server
  BY DEF ClientOffered, ClientAt
<1>1. PICK m \in Of("offer") :
          \/ /\ m.client_id = client[j].client_id
             /\ client' = [client EXCEPT ![j].pc = "ready", ![j].peer = "open", ![j].offer = m.sdp]
             /\ relay' = relay \cup {Answer(m.client_id, j, Sealed(j, m.nonce, client[j].pin))}
          \/ \E peer \in {"none", "closed", "dropped"} : ClientFails(j, peer) /\ UNCHANGED relay
  BY DEF ClientOffered
<1>2. CASE \E peer \in {"none", "closed", "dropped"} : ClientFails(j, peer) /\ UNCHANGED relay
  BY <1>0, <1>2, ClientFailsQuiet DEF Peers
<1>3. CASE /\ m.client_id = client[j].client_id
           /\ client' = [client EXCEPT ![j].pc = "ready", ![j].peer = "open", ![j].offer = m.sdp]
           /\ relay' = relay \cup {Answer(m.client_id, j, Sealed(j, m.nonce, client[j].pin))}
  <2>1. PICK a \in Accepts : IsOfferOf(m, a)
    <3>1. m \in relay /\ m.type = "offer"
      BY DEF Of
    <3>2. ~ IsRequest(m)
      BY <3>1 DEF IsRequest, Request
    <3>3. ~ \E k \in Joins : IsAnswerOf(m, k)
      BY <3>1 DEF IsAnswerOf, Answer
    <3> QED
      BY <3>1, <3>2, <3>3 DEF EstInv, RelayHonest
  <2>2. /\ m.sdp = a /\ m.nonce = a /\ m.client_id = server[a].client_id
        /\ server[a].pc \notin Early
    BY <2>1 DEF IsOfferOf, Offer
  <2>3. client' \in [Joins -> ClientSession]
    <3> DEFINE r == [client[j] EXCEPT !.pc = "ready", !.peer = "open", !.offer = m.sdp]
    <3>1. client[j] \in ClientSession
      BY DEF EstInv, EstTypeOK
    <3>2. "open" \in Peers /\ m.sdp \in Accepts
      BY <2>2 DEF Peers
    <3>3. r \in ClientSession
      BY <3>1, <3>2 DEF ClientSession
    <3>4. client' = [client EXCEPT ![j] = r]
      BY <1>3
    <3> HIDE DEF r
    <3> QED
      BY <3>3, <3>4 DEF EstInv, EstTypeOK
  <2>4. /\ \A k \in Joins : k # j => client'[k] = client[k]
        /\ client'[j].pc = "ready" /\ client'[j].offer = a
        /\ client'[j].pin = client[j].pin /\ client'[j].client_id = client[j].client_id
    BY <1>3, <2>2 DEF EstInv, EstTypeOK, ClientSession
  <2>5. client[j].offer = Nobody
    BY <1>0 DEF EstInv, OffersTaken
  <2>6. a # Nobody
    BY EstablishmentAssumption
  <2>7. RelayHonest'
    <3>1. \A n, b : b \in Accepts /\ IsOfferOf(n, b) => IsOfferOf(n, b)'
      BY <1>0 DEF IsOfferOf
    <3>2. \A n, k : k \in Joins /\ IsAnswerOf(n, k) => IsAnswerOf(n, k)'
      BY <2>4, <2>5 DEF IsAnswerOf
    <3>3. \A n : n = Answer(m.client_id, j, Sealed(j, m.nonce, client[j].pin))
                 => IsAnswerOf(n, j)'
      BY <1>3, <2>2, <2>4, <2>6 DEF IsAnswerOf
    <3>4. \A n \in relay : \/ IsRequest(n)
                           \/ \E b \in Accepts : IsOfferOf(n, b)'
                           \/ \E k \in Joins : IsAnswerOf(n, k)'
      BY <3>1, <3>2 DEF EstInv, RelayHonest
    <3>5. \A n \in relay' : \/ IsRequest(n)
                            \/ \E b \in Accepts : IsOfferOf(n, b)'
                            \/ \E k \in Joins : IsAnswerOf(n, k)'
      BY <1>3, <3>3, <3>4
    <3> QED
      BY <3>5 DEF RelayHonest, IsRequest
  <2>8. OffersTaken'
    BY <1>0, <1>3, <2>2, <2>4 DEF EstInv, OffersTaken
  <2>9. AnswersLate'
    BY <1>0 DEF EstInv, AnswersLate
  <2>10. OnlyOwnAnswers'
    <3>1. \A b \in Accepts : server[b].answer # j
      BY <2>5, EstablishmentAssumption DEF EstInv, OnlyOwnAnswers
    <3> QED
      BY <1>0, <2>4, <3>1, EstNames DEF EstInv, OnlyOwnAnswers
  <2> QED
    BY <1>0, <2>3, <2>7, <2>8, <2>9, <2>10 DEF EstInv, EstTypeOK
<1> QED
  BY <1>1, <1>2, <1>3

\* Every other step of a device moves it on or ends it.
LEMMA ServerStepKeeps ==
    ASSUME EstInv, NEW a \in Accepts, ServerStep(a)
    PROVE  EstInv'
<1>1. CASE ServerConnects(a) \/ ServerRegistered(a) \/ ServerPeerReady(a)
  <2>1. PICK pc \in {"register", "request", "handshake"} :
            /\ server' = [server EXCEPT ![a].pc = pc]
            /\ pc \in Early => server[a].pc \in Early
    BY <1>1 DEF ServerConnects, ServerRegistered, ServerPeerReady, ServerAt, Early
  <2>2. server' \in [Accepts -> ServerSession]
    BY <2>1 DEF EstInv, EstTypeOK, ServerSession
  <2>3. \A b \in Accepts : /\ server'[b].client_id = server[b].client_id
                           /\ server'[b].answer = server[b].answer
                           /\ server'[b].pc \in Early => server[b].pc \in Early
    BY <2>1 DEF EstInv, EstTypeOK, ServerSession
  <2>4. UNCHANGED <<client, relay>>
    BY <1>1 DEF ServerConnects, ServerRegistered, ServerPeerReady
  <2> QED
    BY <2>2, <2>3, <2>4, ServerQuiet
<1>2. CASE ServerRequested(a)
  BY <1>2, RequestTaken
<1>3. CASE ServerAnswered(a)
  BY <1>3, AnswerTaken
<1>4. CASE ServerRefuses(a) \/ ServerSilence(a) \/ ServerPeerFails(a)
  <2>1. PICK peer \in Peers : ServerFails(a, peer) /\ UNCHANGED <<client, relay>>
    BY <1>4 DEF ServerRefuses, ServerSilence, ServerPeerFails, Peers
  <2> QED
    BY <2>1, ServerFailsQuiet
<1>5. CASE ServerHandshake(a)
  <2>1. UNCHANGED <<client, relay>>
    BY <1>5 DEF ServerHandshake
  <2>2. CASE ServerFails(a, "closed")
    BY <2>1, <2>2, ServerFailsQuiet DEF Peers
  <2>3. CASE server' = [server EXCEPT ![a].pc = "ended", ![a].result = "ok"]
    <3>1. server' \in [Accepts -> ServerSession]
      <4> DEFINE r == [server[a] EXCEPT !.pc = "ended", !.result = "ok"]
      <4>1. server[a] \in ServerSession /\ "ok" \in Results
        BY DEF EstInv, EstTypeOK, Results
      <4>2. r \in ServerSession
        BY <4>1 DEF ServerSession
      <4>3. server' = [server EXCEPT ![a] = r]
        BY <2>3
      <4> HIDE DEF r
      <4> QED
        BY <4>2, <4>3 DEF EstInv, EstTypeOK
    <3>2. \A b \in Accepts : /\ server'[b].client_id = server[b].client_id
                             /\ server'[b].answer = server[b].answer
                             /\ server'[b].pc \in Early => server[b].pc \in Early
      BY <2>3 DEF EstInv, EstTypeOK, ServerSession, Early
    <3> QED
      BY <2>1, <3>1, <3>2, ServerQuiet
  <2> QED
    BY <1>5, <2>2, <2>3 DEF ServerHandshake
<1> QED
  BY <1>1, <1>2, <1>3, <1>4, <1>5 DEF ServerStep

\* And every other step of a client takes no offer.
LEMMA ClientStepKeeps ==
    ASSUME EstInv, NEW j \in Joins, ClientStep(j)
    PROVE  EstInv'
<1>1. CASE ClientOffered(j)
  BY <1>1, OfferTaken
<1>2. CASE ClientRefuses(j) \/ ClientPeerFails(j)
  <2>1. PICK peer \in Peers : ClientFails(j, peer) /\ UNCHANGED <<server, relay>>
    BY <1>2 DEF ClientRefuses, ClientPeerFails, Peers
  <2> QED
    BY <2>1, ClientFailsQuiet
<1>3. CASE ClientConnects(j) \/ ClientPeerReady(j) \/ ClientHandshake(j)
  <2>1. CASE \E peer \in Peers : ClientFails(j, peer) /\ UNCHANGED <<server, relay>>
    BY <2>1, ClientFailsQuiet
  <2>2. CASE ~ \E peer \in Peers : ClientFails(j, peer) /\ UNCHANGED <<server, relay>>
    <3>1. UNCHANGED server
      BY <1>3 DEF ClientConnects, ClientPeerReady, ClientHandshake
    <3>2. PICK pc \in {"offer", "handshake", "ended"}, result \in {client[j].result, "ok"} :
              /\ client' = [client EXCEPT ![j].pc = pc, ![j].result = result]
              /\ pc = "offer" => client[j].pc = "start"
      <4>1. CASE ClientConnects(j)
        <5>1. client' = [client EXCEPT ![j].pc = "offer", ![j].result = client[j].result]
          BY <4>1 DEF ClientConnects, EstInv, EstTypeOK, ClientSession
        <5> QED
          BY <4>1, <5>1 DEF ClientConnects, ClientAt
      <4>2. CASE ClientPeerReady(j)
        <5>1. client' = [client EXCEPT ![j].pc = "handshake", ![j].result = client[j].result]
          BY <4>2 DEF ClientPeerReady, EstInv, EstTypeOK, ClientSession
        <5> QED
          BY <5>1
      <4>3. CASE ClientHandshake(j)
        BY <2>2, <4>3 DEF ClientHandshake, Peers
      <4> QED
        BY <1>3, <4>1, <4>2, <4>3
    <3>3. client' \in [Joins -> ClientSession]
      <4> DEFINE r == [client[j] EXCEPT !.pc = pc, !.result = result]
      <4>1. client[j] \in ClientSession
        BY DEF EstInv, EstTypeOK
      <4>2. result \in Results
        BY <4>1 DEF ClientSession, Results
      <4>3. r \in ClientSession
        BY <4>1, <4>2 DEF ClientSession
      <4>4. client' = [client EXCEPT ![j] = r]
        BY <3>2
      <4> HIDE DEF r
      <4> QED
        BY <4>3, <4>4 DEF EstInv, EstTypeOK
    <3>4. \A k \in Joins : /\ client'[k].client_id = client[k].client_id
                           /\ client'[k].pin = client[k].pin
                           /\ client'[k].offer = client[k].offer
                           /\ client'[k].pc \in {"start", "offer"} =>
                                  client[k].pc \in {"start", "offer"}
      BY <3>2 DEF EstInv, EstTypeOK, ClientSession
    <3>5. \A m \in relay' : m \in relay \/ IsRequest(m)
      BY <1>3, EstNames
      DEF EstInv, ClientConnects, ClientPeerReady, ClientHandshake, IsRequest
    <3> QED
      BY <3>1, <3>3, <3>4, <3>5, ClientQuiet
  <2> QED
    BY <2>1, <2>2
<1> QED
  BY <1>1, <1>2, <1>3 DEF ClientStep

\* The invariant holds in every reachable state.
LEMMA EstInvariant == EstSpec => []EstInv
<1>1. EstInv /\ [EstNext]_estVars => EstInv'
  <2> SUFFICES ASSUME EstInv, [EstNext]_estVars PROVE EstInv'
    OBVIOUS
  <2>1. CASE UNCHANGED estVars
    BY <2>1
    DEF EstInv, EstTypeOK, RelayHonest, IsRequest, IsOfferOf, IsAnswerOf, OffersTaken,
        AnswersLate, OnlyOwnAnswers, estVars
  <2> QED
    BY <2>1, ServerStepKeeps, ClientStepKeeps DEF EstNext
<1> QED
  BY EstStarts, <1>1, PTL DEF EstSpec

\* accept_server_session never goes on with an answer made for another offer, by
\* another client or with another PIN, for any number of concurrent calls and
\* whatever the relay does with their messages.
THEOREM OwnAnswersOnly == EstSpec => []OnlyOwnAnswers
  BY EstInvariant, PTL DEF EstInv

\* What a call of the device has of its peer, by how far it is: the challenge is
\* spent only by an answer, and a call that waits for its peer has taken one.
ServerPeerSound(s) ==
    /\ s.pc \in Early => s.peer = "none" /\ ~s.consumed
    /\ s.pc = "answer" => s.peer = "open" /\ ~s.consumed
    /\ s.pc \in {"ready", "handshake"} => s.peer = "open" /\ s.answer # Nobody
    /\ s.peer = "dropped" /\ s.consumed => s.answer # Nobody
    /\ s.pc = "ended" => (s.result = "ok") = (s.peer = "open")

\* And a call of a client: it notes the offer it took when its answer goes out.
ClientPeerSound(c) ==
    /\ c.pc \in {"start", "offer"} => c.peer = "none"
    /\ c.pc \in {"ready", "handshake"} => c.peer = "open"
    /\ c.peer = "dropped" => c.offer = Nobody
    /\ c.pc = "ended" => (c.result = "ok") = (c.peer = "open")

PeersSound ==
    /\ \A a \in Accepts : ServerPeerSound(server[a])
    /\ \A j \in Joins : ClientPeerSound(client[j])

\* accept_server_session leaves its peer as ServerPeerSound says on every path out of
\* every step, error paths included.
LEMMA ServerPeerKept ==
    ASSUME EstInv, PeersSound, NEW a \in Accepts, ServerStep(a)
    PROVE  PeersSound'
<1>0. /\ server[a] \in ServerSession /\ ServerPeerSound(server[a])
      /\ server \in [Accepts -> ServerSession]
  BY DEF EstInv, EstTypeOK, PeersSound
<1>1. /\ (\A b \in Accepts : b # a => server'[b] = server[b]) /\ ServerPeerSound(server'[a])
      /\ UNCHANGED client
  <2> DEFINE Kept == (\A b \in Accepts : b # a => server'[b] = server[b]) /\ ServerPeerSound(server'[a])
  <2> HIDE DEF Kept
  <2>1. UNCHANGED client
    BY DEF ServerStep, ServerConnects, ServerRegistered, ServerRequested, ServerAnswered,
           ServerRefuses, ServerSilence, ServerPeerReady, ServerPeerFails, ServerHandshake
  <2> SUFFICES Kept
    BY <2>1 DEF Kept
  <2>2. ASSUME NEW peer \in {"none", "dropped", "closed"}, ServerFails(a, peer),
               peer = "dropped" => ~server[a].consumed \/ server[a].answer # Nobody
        PROVE  Kept
    <3> DEFINE q == [server[a] EXCEPT !.pc = "ended", !.result = "error", !.peer = peer]
    <3>1. server' = [server EXCEPT ![a] = q]
      BY <2>2 DEF ServerFails
    <3>2. ServerPeerSound(q)
      BY <1>0, <2>2 DEF ServerPeerSound, ServerSession, Early
    <3> HIDE DEF q
    <3> QED
      BY <1>0, <3>1, <3>2 DEF Kept
  <2>3. CASE ServerConnects(a) \/ ServerRegistered(a) \/ ServerPeerReady(a)
    <3>1. PICK pc \in {"register", "request", "handshake"} :
              /\ server' = [server EXCEPT ![a].pc = pc]
              /\ pc \in Early => server[a].pc \in Early
              /\ pc = "handshake" => server[a].pc = "ready"
      BY <2>3 DEF ServerConnects, ServerRegistered, ServerPeerReady, ServerAt, Early
    <3> DEFINE q == [server[a] EXCEPT !.pc = pc]
    <3>2. server' = [server EXCEPT ![a] = q]
      BY <3>1
    <3>3. ServerPeerSound(q)
      BY <1>0, <3>1 DEF ServerPeerSound, ServerSession, Early
    <3> HIDE DEF q
    <3> QED
      BY <1>0, <3>2, <3>3 DEF Kept
  <2>4. CASE ServerRequested(a)
    <3>1. ~server[a].consumed
      BY <1>0, <2>4 DEF ServerPeerSound, ServerRequested, ServerAt, Early
    <3>2. CASE \E peer \in {"none", "dropped", "closed"} : ServerFails(a, peer)
      BY <3>1, <3>2, <2>2
    <3>3. CASE \E id : server' = [server EXCEPT ![a].pc = "answer", ![a].peer = "open",
                                                ![a].client_id = id]
      <4>1. PICK id : server' = [server EXCEPT ![a].pc = "answer", ![a].peer = "open",
                                               ![a].client_id = id]
        BY <3>3
      <4> DEFINE q == [server[a] EXCEPT !.pc = "answer", !.peer = "open", !.client_id = id]
      <4>2. server' = [server EXCEPT ![a] = q]
        BY <4>1
      <4>3. ServerPeerSound(q)
        BY <1>0, <3>1 DEF ServerPeerSound, ServerSession, Early
      <4> HIDE DEF q
      <4> QED
        BY <1>0, <4>2, <4>3 DEF Kept
    <3> QED
      BY <2>4, <3>2, <3>3 DEF ServerRequested
  <2>5. CASE ServerAnswered(a)
    <3>1. ~server[a].consumed
      BY <1>0, <2>5 DEF ServerPeerSound, ServerAnswered, ServerAt
    <3>2. PICK m \in Of("answer"), other \in Of("answer") :
              IF m.client_id = server[a].client_id
              THEN ServerTakes(a, other.encrypted_request, m.sdp)
              ELSE ServerFails(a, "dropped")
      BY <2>5 DEF ServerAnswered
    <3>3. CASE m.client_id # server[a].client_id
      BY <3>1, <3>2, <3>3, <2>2
    <3>4. CASE /\ m.client_id = server[a].client_id
               /\ ~ validate_encrypted_request(a, other.encrypted_request, m.sdp)
      <4> DEFINE q == [server[a] EXCEPT !.pc = "ended", !.result = "error",
                                        !.consumed = TRUE, !.peer = "closed"]
      <4>1. server' = [server EXCEPT ![a] = q]
        BY <3>2, <3>4 DEF ServerTakes
      <4>2. ServerPeerSound(q)
        BY <1>0 DEF ServerPeerSound, ServerSession, Early
      <4> HIDE DEF q
      <4> QED
        BY <1>0, <4>1, <4>2 DEF Kept
    <3>5. CASE /\ m.client_id = server[a].client_id
               /\ validate_encrypted_request(a, other.encrypted_request, m.sdp)
      <4>1. PICK next \in {"ready", "ended"}, peer \in {"open", "dropped", "closed"} :
                /\ (next = "ready") = (peer = "open")
                /\ server' = [server EXCEPT ![a].pc = next, ![a].consumed = TRUE, ![a].answer = m.sdp,
                                            ![a].peer = peer,
                                            ![a].result = IF next = "ready" THEN @ ELSE "error"]
        BY <3>2, <3>5 DEF ServerTakes
      <4>2. m.sdp # Nobody
        BY AnswerOrigin, EstablishmentAssumption DEF IsAnswerOf, Answer
      <4> DEFINE q == [server[a] EXCEPT !.pc = next, !.consumed = TRUE, !.answer = m.sdp, !.peer = peer,
                                        !.result = IF next = "ready" THEN @ ELSE "error"]
      <4>3. server' = [server EXCEPT ![a] = q]
        BY <4>1
      <4>4. ServerPeerSound(q)
        BY <1>0, <4>1, <4>2 DEF ServerPeerSound, ServerSession, Early
      <4> HIDE DEF q
      <4> QED
        BY <1>0, <4>3, <4>4 DEF Kept
    <3> QED
      BY <3>3, <3>4, <3>5
  <2>6. CASE ServerRefuses(a) \/ ServerSilence(a)
    <3>1. ~server[a].consumed
      BY <1>0, <2>6 DEF ServerPeerSound, ServerRefuses, ServerSilence, Early
    <3>2. PICK peer \in {"none", "dropped", "closed"} : ServerFails(a, peer)
      BY <2>6 DEF ServerRefuses, ServerSilence
    <3> QED
      BY <3>1, <3>2, <2>2
  <2>7. CASE ServerPeerFails(a)
    BY <1>0, <2>7, <2>2 DEF ServerPeerFails, ServerAt, ServerPeerSound
  <2>8. CASE ServerHandshake(a)
    <3>1. CASE ServerFails(a, "closed")
      BY <3>1, <2>2
    <3>2. CASE server' = [server EXCEPT ![a].pc = "ended", ![a].result = "ok"]
      <4> DEFINE q == [server[a] EXCEPT !.pc = "ended", !.result = "ok"]
      <4>1. server' = [server EXCEPT ![a] = q]
        BY <3>2
      <4>2. ServerPeerSound(q)
        BY <1>0, <2>8 DEF ServerPeerSound, ServerSession, ServerHandshake, ServerAt, Early
      <4> HIDE DEF q
      <4> QED
        BY <1>0, <4>1, <4>2 DEF Kept
    <3> QED
      BY <2>8, <3>1, <3>2 DEF ServerHandshake
  <2> QED
    BY <2>3, <2>4, <2>5, <2>6, <2>7, <2>8 DEF ServerStep
<1> QED
  BY <1>1 DEF PeersSound

\* The same for connect_target: a peer is left without a close only before an answer
\* of the call went out.
LEMMA ClientPeerKept ==
    ASSUME EstInv, PeersSound, NEW j \in Joins, ClientStep(j)
    PROVE  PeersSound'
<1>0. /\ client[j] \in ClientSession /\ ClientPeerSound(client[j])
      /\ client \in [Joins -> ClientSession]
      /\ client[j].pc \in {"start", "offer"} => client[j].offer = Nobody
  BY DEF EstInv, EstTypeOK, PeersSound, OffersTaken
<1>1. /\ (\A k \in Joins : k # j => client'[k] = client[k]) /\ ClientPeerSound(client'[j])
      /\ UNCHANGED server
  <2> DEFINE Kept == (\A k \in Joins : k # j => client'[k] = client[k]) /\ ClientPeerSound(client'[j])
  <2> HIDE DEF Kept
  <2>1. UNCHANGED server
    BY DEF ClientStep, ClientConnects, ClientOffered, ClientRefuses, ClientPeerReady,
           ClientPeerFails, ClientHandshake
  <2> SUFFICES Kept
    BY <2>1 DEF Kept
  <2>2. ASSUME NEW peer \in {"none", "dropped", "closed"}, ClientFails(j, peer),
               peer = "dropped" => client[j].offer = Nobody
        PROVE  Kept
    <3> DEFINE q == [client[j] EXCEPT !.pc = "ended", !.result = "error", !.peer = peer]
    <3>1. client' = [client EXCEPT ![j] = q]
      BY <2>2 DEF ClientFails
    <3>2. ClientPeerSound(q)
      BY <1>0, <2>2 DEF ClientPeerSound, ClientSession
    <3> HIDE DEF q
    <3> QED
      BY <1>0, <3>1, <3>2 DEF Kept
  <2>3. CASE ClientConnects(j) \/ ClientPeerReady(j)
    <3>1. PICK pc \in {"offer", "handshake"} :
              /\ client' = [client EXCEPT ![j].pc = pc]
              /\ client[j].pc = IF pc = "offer" THEN "start" ELSE "ready"
      BY <2>3 DEF ClientConnects, ClientPeerReady, ClientAt
    <3> DEFINE q == [client[j] EXCEPT !.pc = pc]
    <3>2. client' = [client EXCEPT ![j] = q]
      BY <3>1
    <3>3. ClientPeerSound(q)
      BY <1>0, <3>1 DEF ClientPeerSound, ClientSession
    <3> HIDE DEF q
    <3> QED
      BY <1>0, <3>2, <3>3 DEF Kept
  <2>4. CASE ClientOffered(j)
    <3>1. client[j].offer = Nobody
      BY <1>0, <2>4 DEF ClientOffered, ClientAt
    <3>2. CASE \E peer \in {"none", "dropped", "closed"} : ClientFails(j, peer)
      BY <3>1, <3>2, <2>2
    <3>3. CASE \E a : client' = [client EXCEPT ![j].pc = "ready", ![j].peer = "open", ![j].offer = a]
      <4>1. PICK a : client' = [client EXCEPT ![j].pc = "ready", ![j].peer = "open", ![j].offer = a]
        BY <3>3
      <4> DEFINE q == [client[j] EXCEPT !.pc = "ready", !.peer = "open", !.offer = a]
      <4>2. client' = [client EXCEPT ![j] = q]
        BY <4>1
      <4>3. ClientPeerSound(q)
        BY <1>0 DEF ClientPeerSound, ClientSession
      <4> HIDE DEF q
      <4> QED
        BY <1>0, <4>2, <4>3 DEF Kept
    <3> QED
      BY <2>4, <3>2, <3>3 DEF ClientOffered
  <2>5. CASE ClientRefuses(j) \/ ClientPeerFails(j)
    BY <2>2, <2>5 DEF ClientRefuses, ClientPeerFails
  <2>6. CASE ClientHandshake(j)
    <3>1. CASE ClientFails(j, "closed")
      BY <3>1, <2>2
    <3>2. CASE client' = [client EXCEPT ![j].pc = "ended", ![j].result = "ok"]
      <4> DEFINE q == [client[j] EXCEPT !.pc = "ended", !.result = "ok"]
      <4>1. client' = [client EXCEPT ![j] = q]
        BY <3>2
      <4>2. ClientPeerSound(q)
        BY <1>0, <2>6 DEF ClientPeerSound, ClientSession, ClientHandshake, ClientAt
      <4> HIDE DEF q
      <4> QED
        BY <1>0, <4>1, <4>2 DEF Kept
    <3> QED
      BY <2>6, <3>1, <3>2 DEF ClientHandshake
  <2> QED
    BY <2>3, <2>4, <2>5, <2>6 DEF ClientStep
<1> QED
  BY <1>1 DEF PeersSound

\* With the messages traced to the calls that made them, that accounts for every
\* peer: an answer with the relay is of a call that noted its offer.
LEMMA PeersFollow ==
    ASSUME EstInv, PeersSound
    PROVE  PeersAccounted
<1>1. ASSUME NEW j \in Joins, client[j].peer = "dropped", NEW m \in Of("answer")
      PROVE  m.sdp # j
  <2>1. PICK k \in Joins : IsAnswerOf(m, k)
    BY AnswerOrigin
  <2>2. m.sdp = k /\ client[k].offer # Nobody
    BY <2>1 DEF IsAnswerOf, Answer
  <2> QED
    BY <1>1, <2>2 DEF PeersSound, ClientPeerSound
<1> QED
  BY <1>1 DEF PeersSound, ServerPeerSound, ClientPeerSound, PeersAccounted

\* No path out of accept_server_session or connect_target loses track of its peer:
\* a device that refused a sealed request has closed it, a client whose answer went
\* out never drops it open, and exactly the calls that succeed hand on an open one,
\* for any number of calls and whatever the relay does.
THEOREM PeersAreAccounted == EstSpec => []PeersAccounted
<1>1. EstInit => PeersSound
  BY DEF EstInit, PeersSound, ServerPeerSound, ClientPeerSound, Early
<1>2. EstInv /\ PeersSound /\ [EstNext]_estVars => PeersSound'
  <2> SUFFICES ASSUME EstInv, PeersSound, [EstNext]_estVars PROVE PeersSound'
    OBVIOUS
  <2>1. CASE UNCHANGED estVars
    BY <2>1 DEF PeersSound, estVars
  <2> QED
    BY <2>1, ServerPeerKept, ClientPeerKept DEF EstNext
<1> QED
  BY <1>1, <1>2, EstInvariant, PeersFollow, PTL DEF EstSpec

---------------------------------------------------------------------------------
(* SignalingTransport.  A message survives its conversion to JSON and back, so the *)
(* server hears exactly what the caller gave; the invariant then follows the copy  *)
(* on each connection: under way, heard once, or answered.                         *)

\* Renaming pairing_code on the wire merges no two fields: no message has a field
\* that is called code already.
LEMMA WireNamesDiffer ==
    ASSUME NEW type \in DOMAIN Texts, NEW f \in Texts[type], NEW g \in Texts[type],
           WireName(f) = WireName(g)
    PROVE  f = g
<1>1. "code" \notin Texts[type]
  BY DEF Texts
<1> QED
  BY <1>1 DEF WireName

\* The message with other texts and another map.
Updated(w, t, e) == [w EXCEPT !.texts = t, !.map = e]

\* Replacing the texts and the map of a message keeps the rest of it.
LEMMA MessageUpdate ==
    ASSUME NEW type, NEW texts, NEW protocol, NEW servers, NEW map, NEW t, NEW e, NEW w,
           w = SignalingMessage(type, texts, protocol, servers, map)
    PROVE  Updated(w, t, e) = SignalingMessage(type, t, protocol, servers, e)
<1> DEFINE u == [w EXCEPT !.texts = t, !.map = e]
           v == SignalingMessage(type, t, protocol, servers, e)
           D == {"type", "texts", "protocol", "servers", "map"}
<1>1. DOMAIN w = D /\ DOMAIN u = D /\ DOMAIN v = D
  BY DEF SignalingMessage
<1>2. \A x \in D : u[x] = v[x]
  <2>1. w.type = type /\ w.protocol = protocol /\ w.servers = servers
    BY DEF SignalingMessage
  <2>2. /\ u.texts = t /\ u.map = e
        /\ u.type = w.type /\ u.protocol = w.protocol /\ u.servers = w.servers
    BY <1>1
  <2>3. /\ v.texts = t /\ v.map = e
        /\ v.type = type /\ v.protocol = protocol /\ v.servers = servers
    BY DEF SignalingMessage
  <2> HIDE DEF u, v
  <2> QED
    BY <2>1, <2>2, <2>3
<1>3. u = [x \in D |-> u[x]] /\ v = [x \in D |-> v[x]]
  BY <1>1 DEF SignalingMessage
<1> HIDE DEF u, v, D
<1>4. u = v
  BY <1>2, <1>3
<1> QED
  BY <1>4 DEF u, v, Updated

\* to_wire then try_from gives every valid message back, field by field.
LEMMA WireRoundTrip ==
    ASSUME NEW m, IsMessage(m), validate(m)
    PROVE  try_from(to_wire(m)) = {m}
<1> DEFINE names == {WireName(f) : f \in Texts[m.type]}
           texts == [w \in names |-> m.texts[CHOOSE f \in Texts[m.type] : WireName(f) = w]]
           map == IF m.type = "offer" THEN [i \in DOMAIN m.map |-> Base64(m.map[i])] ELSE m.map
           w == to_wire(m)
<1>0. m = SignalingMessage(m.type, m.texts, m.protocol, m.servers, m.map) /\ m.type \in DOMAIN Texts
  BY DEF IsMessage
<1>1. w = SignalingMessage(m.type, texts, m.protocol, m.servers, map)
  <2>1. w = Updated(m, texts, map)
    BY DEF to_wire, Updated
  <2> HIDE DEF w, texts, map
  <2> QED
    BY <1>0, <2>1, MessageUpdate
<1>2. /\ w.type = m.type /\ w.texts = texts /\ w.map = map
      /\ w.protocol = m.protocol /\ w.servers = m.servers
  BY <1>1 DEF SignalingMessage
<1>3. [f \in Texts[m.type] |-> texts[WireName(f)]] = m.texts
  <2>1. ASSUME NEW f \in Texts[m.type] PROVE texts[WireName(f)] = m.texts[f]
    <3>1. (CHOOSE g \in Texts[m.type] : WireName(g) = WireName(f)) = f
      BY <1>0, WireNamesDiffer
    <3> QED
      BY <3>1
  <2> HIDE DEF texts
  <2> QED
    BY <2>1 DEF IsMessage
<1>4. m.type = "offer" => [i \in DOMAIN map |-> Bytes(map[i].base64)] = m.map
  <2> SUFFICES ASSUME m.type = "offer"
               PROVE  [i \in DOMAIN map |-> Bytes(map[i].base64)] = m.map
    OBVIOUS
  <2>1. DOMAIN map = DOMAIN m.map
    OBVIOUS
  <2>2. ASSUME NEW i \in DOMAIN m.map PROVE map[i].base64 = m.map[i].bytes
    <3>1. map[i] = Base64(m.map[i])
      OBVIOUS
    <3> QED
      BY <3>1 DEF Base64
  <2> HIDE DEF map
  <2>3. [i \in DOMAIN map |-> Bytes(map[i].base64)] = [i \in DOMAIN m.map |-> Bytes(m.map[i].bytes)]
    BY <2>1, <2>2
  <2> QED
    BY <2>3 DEF IsMessage
<1>5. m.type = "offer" => \A i \in DOMAIN map : IsBase64(map[i])
  BY DEF IsBase64, Base64
<1>6. DOMAIN texts = names
  OBVIOUS
<1> HIDE DEF w, texts, map
<1>7. [w EXCEPT !.texts = [f \in Texts[w.type] |-> w.texts[WireName(f)]],
                !.map = IF w.type = "offer" THEN [i \in DOMAIN @ |-> Bytes(@[i].base64)] ELSE @]
      = m
  <2>1. [f \in Texts[w.type] |-> w.texts[WireName(f)]] = m.texts
    BY <1>2, <1>3
  <2>2. (IF w.type = "offer" THEN [i \in DOMAIN w.map |-> Bytes(w.map[i].base64)] ELSE w.map) = m.map
    BY <1>2, <1>4 DEF map
  <2> DEFINE t == [f \in Texts[w.type] |-> w.texts[WireName(f)]]
             e == IF w.type = "offer" THEN [i \in DOMAIN w.map |-> Bytes(w.map[i].base64)] ELSE w.map
  <2>3. [w EXCEPT !.texts = t,
                  !.map = IF w.type = "offer" THEN [i \in DOMAIN @ |-> Bytes(@[i].base64)] ELSE @]
        = Updated(w, t, e)
    BY DEF Updated
  <2>4. t = m.texts /\ e = m.map
    BY <2>1, <2>2
  <2> HIDE DEF t, e
  <2>5. Updated(w, t, e) = SignalingMessage(m.type, t, m.protocol, m.servers, e)
    BY <1>1, MessageUpdate
  <2>6. Updated(w, t, e) = m
    BY <1>0, <2>4, <2>5
  <2> QED
    BY <2>3, <2>6 DEF t
<1>8. /\ DOMAIN w.texts = {WireName(f) : f \in Texts[w.type]}
      /\ w.type = "offer" => \A i \in DOMAIN w.map : IsBase64(w.map[i])
  BY <1>2, <1>5, <1>6
<1>9. try_from(w) = {m}
  BY <1>7, <1>8 DEF try_from
<1> QED
  BY <1>9 DEF w

\* encode_message and decode_message are inverse on every message that is valid, of
\* every kind: what the checks of one side let through, the other side reads as sent.
THEOREM MessagesRoundTrip ==
    ASSUME NEW m, IsMessage(m), NEW payload \in encode_message(m)
    PROVE  decode_message(payload) = {m}
<1>1. validate(m) /\ payload.json = {to_wire(m)}
  BY DEF encode_message
<1> QED
  BY <1>1, WireRoundTrip DEF decode_message

\* The frame that carries the caller's request, the one that carries its answer, and
\* the others: what the server, a relay or a break puts in the way of an answer.
RequestFrames == {Text(p, request.size) : p \in encode_message(request.message)}
Reply == IF request.message.type = "register" THEN Registered ELSE Unsupported
ReplyFrames == {Text(p, 1) : p \in encode_message(Reply)}
NoiseFrames ==
    {Plainly(kind) : kind \in {"ping", "pong", "binary", "close"}}
        \cup {Text(Malformed, 1), Text(Malformed, MaxMessage + 1)}
        \cup {Text(p, 1) : p \in encode_message(Notice)}

Connections ==
    [up : Seq(RequestFrames), down : Seq(ReplyFrames \cup NoiseFrames), client : BOOLEAN, server : BOOLEAN]

Heard(i) == \E k \in DOMAIN received : received[k].conn = i

\* A connection carries the request at most once, and before it was heard nothing
\* comes back but noise: no answer of the server.
ConnSound(c, i) ==
    /\ c \in Connections
    /\ Len(c.up) <= 1
    /\ c.up # <<>> => ~Heard(i)
    /\ ~Heard(i) => c.down \in Seq(NoiseFrames)

ConnsSound == conns \in Seq(Connections) /\ \A i \in 1..Len(conns) : ConnSound(conns[i], i)

\* What was heard is the request, on a connection that was not heard before.
HeardOnce ==
    /\ received \in Seq([conn : 1..Len(conns), message : {request.message}])
    /\ \A i, j \in 1..Len(received) : i # j => received[i].conn # received[j].conn

\* An attempt has one connection, new when the request is sent.
CallSound ==
    /\ request \in [message : Requests, size : Sizes]
    /\ call \in {"idle", "connect", "send", "recv", "sleep", "done", "failed"}
    /\ attempt \in 0..MaxRetries
    /\ Len(conns) <= attempt + (IF call \in {"send", "recv", "done", "failed"} THEN 1 ELSE 0)
    /\ call \in {"send", "recv", "done"} => Len(conns) > 0
    /\ call = "send" => conns[Len(conns)].up = <<>> /\ ~Heard(Len(conns))
    /\ call = "done" => answer = {Notice} \/ (Heard(Len(conns)) /\ answer = {Reply})

SigInv == ConnsSound /\ HeardOnce /\ CallSound

\* The fixture's own messages and the relay's are messages and valid.
LEMMA RepliesValid ==
    /\ IsMessage(Registered) /\ validate(Registered)
    /\ IsMessage(Unsupported) /\ validate(Unsupported)
    /\ IsMessage(Notice) /\ validate(Notice)
<1>1. /\ Registered.type = "registered" /\ Registered.texts = [pairing_code |-> "six digits"]
      /\ Unsupported.type = "error" /\ Unsupported.texts = [message |-> "not implemented"]
      /\ Notice.type = "error" /\ Notice.texts = [message |-> "from the relay"]
  BY DEF Registered, Unsupported, Notice, SignalingMessage
<1>2. Texts["registered"] = {"pairing_code"} /\ Texts["error"] = {"message"}
  BY DEF Texts
<1>3. "registered" \in DOMAIN Texts /\ "error" \in DOMAIN Texts
  BY DEF Texts
<1>4. validate(Registered) /\ validate(Unsupported) /\ validate(Notice)
  <2>1. /\ Registered.texts["pairing_code"] = "six digits"
        /\ Unsupported.texts["message"] = "not implemented"
        /\ Notice.texts["message"] = "from the relay"
    <3>1. [pairing_code |-> "six digits"]["pairing_code"] = "six digits"
      OBVIOUS
    <3>2. [message |-> "not implemented"]["message"] = "not implemented"
      OBVIOUS
    <3>3. [message |-> "from the relay"]["message"] = "from the relay"
      OBVIOUS
    <3> QED
      BY <1>1, <3>1, <3>2, <3>3
  <2>2. validate(Registered)
    BY <1>1, <1>2, <2>1 DEF validate, validate_pairing_code
  <2>3. validate(Unsupported)
    BY <1>1, <1>2, <2>1 DEF validate
  <2>4. validate(Notice)
    BY <1>1, <1>2, <2>1 DEF validate
  <2> QED
    BY <2>2, <2>3, <2>4
<1>5. IsMessage(Registered) /\ IsMessage(Unsupported) /\ IsMessage(Notice)
  <2>1. Registered = SignalingMessage(Registered.type, Registered.texts, Registered.protocol,
                                      Registered.servers, Registered.map)
    BY DEF Registered, SignalingMessage
  <2>2. Unsupported = SignalingMessage(Unsupported.type, Unsupported.texts, Unsupported.protocol,
                                       Unsupported.servers, Unsupported.map)
    BY DEF Unsupported, SignalingMessage
  <2>3. Notice = SignalingMessage(Notice.type, Notice.texts, Notice.protocol,
                                  Notice.servers, Notice.map)
    BY DEF Notice, SignalingMessage
  <2> QED
    BY <1>1, <1>2, <1>3, <2>1, <2>2, <2>3 DEF IsMessage
<1> QED
  BY <1>4, <1>5

\* recv at the server: the request as it was given, or an error if it is too long.
LEMMA RequestHeard ==
    ASSUME CallSound, NEW frame \in RequestFrames
    PROVE  LET r == recv(frame, DEFAULT_MAX_MESSAGE_SIZE)
           IN r.next \in {"message", "error"} /\ (r.next = "message" => r.message = {request.message})
<1>1. PICK p \in encode_message(request.message) : frame = Text(p, request.size)
  BY DEF RequestFrames
<1>2. IsMessage(request.message)
  BY TransportAssumption DEF CallSound
<1>3. decode_message(frame.payload) = {request.message} /\ frame.kind = "text"
  BY <1>1, <1>2, MessagesRoundTrip DEF Text
<1> QED
  BY <1>3 DEF recv

\* recv at the caller: an answer is the fixture's answer to this request, and every
\* other frame gives none, or the relay's own message.
LEMMA ReplyHeard ==
    /\ \A frame \in ReplyFrames : recv(frame, MaxMessage) = [next |-> "message", message |-> {Reply}]
    /\ \A frame \in NoiseFrames : recv(frame, MaxMessage).next = "message" =>
                                      recv(frame, MaxMessage).message = {Notice}
<1>1. ASSUME NEW frame \in ReplyFrames
      PROVE  recv(frame, MaxMessage) = [next |-> "message", message |-> {Reply}]
  <2>1. PICK p \in encode_message(Reply) : frame = Text(p, 1)
    BY DEF ReplyFrames
  <2>2. IsMessage(Reply)
    BY RepliesValid DEF Reply
  <2>3. decode_message(frame.payload) = {Reply} /\ frame.kind = "text" /\ frame.size = 1
    BY <2>1, <2>2, MessagesRoundTrip DEF Text
  <2>4. ~(frame.size > MaxMessage)
    BY <2>3, TransportAssumption
  <2> QED
    BY <2>3, <2>4 DEF recv
<1>2. ASSUME NEW frame \in NoiseFrames
      PROVE  recv(frame, MaxMessage).next = "message" =>
                 recv(frame, MaxMessage).message = {Notice}
  <2>1. CASE \E kind \in {"ping", "pong", "binary", "close"} : frame = Plainly(kind)
    BY <2>1 DEF recv, Plainly
  <2>2. CASE \E n : frame = Text(Malformed, n)
    <3>1. decode_message(Malformed) = {}
      BY DEF decode_message, Malformed
    <3> QED
      BY <2>2, <3>1 DEF recv, Text
  <2>3. CASE \E p \in encode_message(Notice) : frame = Text(p, 1)
    <3>1. decode_message(frame.payload) = {Notice} /\ frame.kind = "text"
      BY <2>3, RepliesValid, MessagesRoundTrip DEF Text
    <3> QED
      BY <3>1 DEF recv
  <2> QED
    BY <2>1, <2>2, <2>3 DEF NoiseFrames
<1> QED
  BY <1>1, <1>2

\* fixture_connection_loop sends nothing but its answer and frames that are none.
LEMMA ResponseFrames ==
    ASSUME CallSound, NEW i
    PROVE  LET r == Response(i, request.message)
           IN r.frames \in Seq(ReplyFrames \cup NoiseFrames) /\ r.stays \in BOOLEAN
<1> DEFINE F == ReplyFrames \cup NoiseFrames
<1>1. Plainly("close") \in F /\ Text(Malformed, 1) \in F
  BY DEF NoiseFrames
<1>2. ASSUME NEW m, validate(m)
      PROVE  \E p \in encode_message(m) : Sent(m) = <<Text(p, 1)>>
  <2>1. encode_message(m) # {}
    BY <1>2 DEF encode_message
  <2> QED
    BY <2>1 DEF Sent
<1>3. \A m : validate(m) /\ m = Reply => Sent(m) \in Seq(F)
  <2> SUFFICES ASSUME NEW m, validate(m), m = Reply PROVE Sent(m) \in Seq(F)
    OBVIOUS
  <2>1. PICK p \in encode_message(m) : Sent(m) = <<Text(p, 1)>>
    BY <1>2
  <2>2. Text(p, 1) \in F
    BY DEF ReplyFrames
  <2> QED
    BY <2>1, <2>2
<1>4. /\ request.message.type # "register" => Sent(Unsupported) \in Seq(F)
      /\ request.message.type = "register" => Sent(Registered) \in Seq(F)
  BY <1>3, RepliesValid DEF Reply
<1> HIDE DEF F
<1>5. <<Plainly("close")>> \in Seq(F) /\ <<Text(Malformed, 1)>> \in Seq(F)
  BY <1>1
<1>6. request.message.type = "register" => Sent(Registered) \o <<Plainly("close")>> \in Seq(F)
  BY <1>4, <1>5, ConcatProperties
<1>7. LET r == Response(i, request.message) IN r.frames \in Seq(F) /\ r.stays \in BOOLEAN
  <2>1. CASE request.message.type # "register"
    BY <1>4, <2>1 DEF Response
  <2>2. CASE request.message.type = "register" /\ i = 1 /\ fixture = "close_before"
    BY <1>5, <2>2 DEF Response
  <2>3. CASE request.message.type = "register" /\ i = 1 /\ fixture = "malformed"
    BY <1>5, <2>3 DEF Response
  <2>4. CASE request.message.type = "register" /\ i = 1 /\ fixture = "close_after"
    BY <1>6, <2>4 DEF Response
  <2>5. CASE /\ request.message.type = "register"
             /\ ~(i = 1 /\ fixture \in {"close_before", "malformed", "close_after"})
    BY <1>4, <2>5 DEF Response
  <2> QED
    BY <2>1, <2>2, <2>3, <2>4, <2>5
<1> QED
  BY <1>7 DEF F

\* The frames are a matter of the request alone.
LEMMA SameRequest ==
    ASSUME UNCHANGED request
    PROVE  /\ RequestFrames' = RequestFrames /\ Reply' = Reply
           /\ ReplyFrames' = ReplyFrames /\ Connections' = Connections
<1>1. RequestFrames' = RequestFrames
  BY DEF RequestFrames
<1>2. Reply' = Reply
  BY DEF Reply
<1>3. ReplyFrames' = ReplyFrames
  BY <1>2 DEF ReplyFrames
<1> QED
  BY <1>1, <1>2, <1>3 DEF Connections

\* A step that touches one connection, or none, and hears nothing.
LEMMA OneConnection ==
    ASSUME SigInv, UNCHANGED <<request, received>>,
           \/ UNCHANGED conns
           \/ \E i \in 1..Len(conns) : \E c : ConnSound(c, i) /\ conns' = [conns EXCEPT ![i] = c]
    PROVE  /\ ConnsSound' /\ HeardOnce' /\ Len(conns') = Len(conns)
           /\ \A k : Heard(k)' = Heard(k)
<1>1. \A k : Heard(k)' = Heard(k)
  BY DEF Heard
<1>2. \A c, k : ConnSound(c, k)' = ConnSound(c, k)
  BY <1>1, SameRequest DEF ConnSound
<1>3. /\ conns' \in Seq(Connections) /\ Len(conns') = Len(conns)
      /\ \A k \in 1..Len(conns) : ConnSound(conns'[k], k)
  <2>1. CASE UNCHANGED conns
    BY <2>1 DEF SigInv, ConnsSound
  <2>2. CASE \E i \in 1..Len(conns) : \E c : ConnSound(c, i) /\ conns' = [conns EXCEPT ![i] = c]
    <3>0. PICK i \in 1..Len(conns) : \E c : ConnSound(c, i) /\ conns' = [conns EXCEPT ![i] = c]
      BY <2>2
    <3>1. PICK c : ConnSound(c, i) /\ conns' = [conns EXCEPT ![i] = c]
      BY <3>0
    <3>2. conns \in Seq(Connections) /\ c \in Connections
      BY <3>1 DEF SigInv, ConnsSound, ConnSound
    <3>3. /\ conns' \in Seq(Connections) /\ Len(conns') = Len(conns)
          /\ \A k \in 1..Len(conns) : conns'[k] = IF k = i THEN c ELSE conns[k]
      BY <3>1, <3>2, ExceptSeq
    <3> QED
      BY <3>1, <3>3 DEF SigInv, ConnsSound
  <2> QED
    BY <2>1, <2>2
<1>4. ConnsSound'
  BY <1>2, <1>3, SameRequest DEF ConnsSound
<1>5. HeardOnce'
  BY <1>3 DEF SigInv, HeardOnce
<1> QED
  BY <1>1, <1>3, <1>4, <1>5

\* transact fails: the attempt has had its connection.
LEMMA FailsSound ==
    ASSUME SigInv, Fails, call \in {"connect", "send", "recv"},
           \/ UNCHANGED conns
           \/ \E c : ConnSound(c, Len(conns)) /\ conns' = [conns EXCEPT ![Len(conns)] = c],
           UNCHANGED conns \/ call \in {"send", "recv"}
    PROVE  SigInv'
<1>0. UNCHANGED <<request, received>>
  BY DEF Fails
<1>1. Len(conns) \in Nat
  BY DEF SigInv, ConnsSound
<1>2. ConnsSound' /\ HeardOnce' /\ Len(conns') = Len(conns)
  <2>1. UNCHANGED conns \/ Len(conns) \in 1..Len(conns)
    BY <1>1 DEF SigInv, CallSound
  <2> QED
    BY <1>0, <2>1, OneConnection
<1>3. CallSound'
  <2>1. MaxRetries \in Nat /\ attempt \in 0..MaxRetries
    BY TransportAssumption DEF SigInv, CallSound
  <2>2. CASE RetriesLeft
    BY <1>0, <1>1, <1>2, <2>1, <2>2 DEF Fails, RetriesLeft, SigInv, CallSound
  <2>3. CASE ~RetriesLeft
    BY <1>0, <1>1, <1>2, <2>1, <2>3 DEF Fails, RetriesLeft, SigInv, CallSound
  <2> QED
    BY <2>2, <2>3
<1> QED
  BY <1>2, <1>3 DEF SigInv

\* A step on a connection that the caller does not take part in.
LEMMA QuietConnection ==
    ASSUME SigInv, NEW i \in 1..Len(conns), NEW c, ConnSound(c, i),
           c.up = conns[i].up \/ c.up = <<>>,
           conns' = [conns EXCEPT ![i] = c],
           UNCHANGED <<request, received, call, attempt, answer>>
    PROVE  SigInv'
<1>1. /\ ConnsSound' /\ HeardOnce' /\ Len(conns') = Len(conns)
      /\ \A k : Heard(k)' = Heard(k)
  BY OneConnection
<1>2. conns \in Seq(Connections) /\ c \in Connections
  BY DEF SigInv, ConnsSound, ConnSound
<1>3. \A k \in 1..Len(conns) : conns'[k] = IF k = i THEN c ELSE conns[k]
  BY <1>2, ExceptSeq
<1>4. call = "send" => conns'[Len(conns)].up = <<>>
  <2>1. call = "send" => Len(conns) \in 1..Len(conns) /\ conns[Len(conns)].up = <<>>
    BY <1>2 DEF SigInv, CallSound
  <2> QED
    BY <2>1, <1>3
<1>5. CallSound'
  BY <1>1, <1>4, SameRequest DEF SigInv, CallSound
<1> QED
  BY <1>1, <1>5 DEF SigInv

\* A step of the caller between its attempts, and the end of the accept loop.
LEMMA BetweenSound ==
    ASSUME SigInv,
           \/ call = "idle" /\ call' = "connect"
           \/ call = "sleep" /\ call' = "connect"
           \/ UNCHANGED call,
           UNCHANGED <<request, received, conns, attempt, answer>>
    PROVE  SigInv'
<1>1. /\ ConnsSound' /\ HeardOnce' /\ Len(conns') = Len(conns)
      /\ \A k : Heard(k)' = Heard(k)
  BY OneConnection
<1>2. CallSound'
  BY <1>1, SameRequest DEF SigInv, CallSound
<1> QED
  BY <1>1, <1>2 DEF SigInv

\* What a sound connection is made of, field by field.
LEMMA ConnFields ==
    ASSUME SigInv, NEW i \in 1..Len(conns)
    PROVE  /\ ConnSound(conns[i], i) /\ conns[i] \in Connections
           /\ conns[i].up \in Seq(RequestFrames)
           /\ conns[i].down \in Seq(ReplyFrames \cup NoiseFrames)
           /\ conns \in Seq(Connections)
  BY DEF SigInv, ConnsSound, ConnSound, Connections

\* A connection stays sound if its ends go, if it loses what is under way, and if
\* noise is added to it or a frame taken from it.
LEMMA ConnChanges ==
    ASSUME NEW i, NEW c, ConnSound(c, i)
    PROVE  /\ ConnSound([c EXCEPT !.client = FALSE], i)
           /\ ConnSound([c EXCEPT !.server = FALSE], i)
           /\ ConnSound([c EXCEPT !.up = <<>>, !.down = <<>>, !.server = FALSE], i)
           /\ \A frame \in NoiseFrames : ConnSound([c EXCEPT !.down = Append(@, frame)], i)
           /\ c.down # <<>> => ConnSound([c EXCEPT !.down = Tail(@)], i)
<1>0. c \in Connections
  BY DEF ConnSound
<1>1. ConnSound([c EXCEPT !.client = FALSE], i) /\ ConnSound([c EXCEPT !.server = FALSE], i)
  BY <1>0 DEF ConnSound, Connections
<1>2. ConnSound([c EXCEPT !.up = <<>>, !.down = <<>>, !.server = FALSE], i)
  <2>1. <<>> \in Seq(RequestFrames) /\ <<>> \in Seq(ReplyFrames \cup NoiseFrames) /\ <<>> \in Seq(NoiseFrames)
    OBVIOUS
  <2>2. Len(<<>>) <= 1
    OBVIOUS
  <2> QED
    BY <1>0, <2>1, <2>2 DEF ConnSound, Connections
<1>3. ASSUME NEW down \in Seq(ReplyFrames \cup NoiseFrames), ~Heard(i) => down \in Seq(NoiseFrames)
      PROVE  ConnSound([c EXCEPT !.down = down], i)
  BY <1>0, <1>3 DEF ConnSound, Connections
<1>4. ASSUME NEW frame \in NoiseFrames PROVE ConnSound([c EXCEPT !.down = Append(@, frame)], i)
  <2>1. c.down \in Seq(ReplyFrames \cup NoiseFrames) /\ (~Heard(i) => c.down \in Seq(NoiseFrames))
    BY <1>0 DEF ConnSound, Connections
  <2>2. Append(c.down, frame) \in Seq(ReplyFrames \cup NoiseFrames)
    BY <2>1, AppendProperties
  <2>3. ~Heard(i) => Append(c.down, frame) \in Seq(NoiseFrames)
    BY <2>1, AppendProperties
  <2> QED
    BY <1>3, <2>2, <2>3
<1>5. ASSUME c.down # <<>> PROVE ConnSound([c EXCEPT !.down = Tail(@)], i)
  <2>1. c.down \in Seq(ReplyFrames \cup NoiseFrames) /\ (~Heard(i) => c.down \in Seq(NoiseFrames))
    BY <1>0 DEF ConnSound, Connections
  <2>2. Tail(c.down) \in Seq(ReplyFrames \cup NoiseFrames)
    BY <1>5, <2>1, HeadTailProperties
  <2>3. ~Heard(i) => Tail(c.down) \in Seq(NoiseFrames)
    BY <1>5, <2>1, HeadTailProperties
  <2> QED
    BY <1>3, <2>2, <2>3
<1> QED
  BY <1>1, <1>2, <1>4, <1>5

\* connect appends a connection that nothing was heard on; a lookup or an upgrade
\* that fails leaves the connections alone.
LEMMA ConnectsSound ==
    ASSUME SigInv, Connects
    PROVE  SigInv'
<1>1. CASE Fails /\ UNCHANGED conns
  BY <1>1, FailsSound DEF Connects
<1>2. CASE /\ call' = "send" /\ conns' = Append(conns, Connection)
           /\ UNCHANGED <<request, attempt, answer, received>>
  <2> DEFINE n == Len(conns)
  <2>0. n \in Nat /\ conns \in Seq(Connections)
    BY DEF SigInv, ConnsSound
  <2>1. Connection \in Connections
    <3>1. <<>> \in Seq(RequestFrames) /\ <<>> \in Seq(ReplyFrames \cup NoiseFrames)
      OBVIOUS
    <3> QED
      BY <3>1 DEF Connection, Connections
  <2>2. /\ conns' \in Seq(Connections) /\ Len(conns') = n + 1
        /\ \A k \in 1..n : conns'[k] = conns[k]
        /\ conns'[n + 1] = Connection
    BY <1>2, <2>0, <2>1, AppendProperties
  <2>3. \A k : Heard(k)' = Heard(k)
    BY <1>2 DEF Heard
  <2>4. ~Heard(n + 1)
    <3>1. \A k \in DOMAIN received : received[k].conn \in 1..n
      <4> DEFINE S == [conn : 1..n, message : {request.message}]
      <4>1. received \in Seq(S)
        BY DEF SigInv, HeardOnce
      <4>2. \A x \in S : x.conn \in 1..n
        OBVIOUS
      <4> HIDE DEF S
      <4>3. \A k \in DOMAIN received : received[k] \in S
        BY <4>1
      <4> QED
        BY <4>2, <4>3
    <3> HIDE DEF n
    <3> QED
      BY <2>0, <3>1 DEF Heard
  <2>5. ConnSound(Connection, n + 1)
    <3>1. Connection.up = <<>> /\ Connection.down = <<>>
      BY DEF Connection
    <3>2. Len(<<>>) <= 1 /\ <<>> \in Seq(NoiseFrames)
      OBVIOUS
    <3> QED
      BY <2>1, <3>1, <3>2 DEF ConnSound
  <2>6. \A c, k : ConnSound(c, k)' = ConnSound(c, k)
    BY <1>2, <2>3, SameRequest DEF ConnSound
  <2>7. ConnsSound'
    <3>1. \A k \in 1..(n + 1) : k = n + 1 \/ k \in 1..n
      BY <2>0
    <3>2. \A k \in 1..(n + 1) : ConnSound(conns'[k], k)
      BY <2>2, <2>5, <3>1 DEF SigInv, ConnsSound
    <3>3. conns' \in Seq(Connections')
      BY <1>2, <2>2, SameRequest
    <3> QED
      BY <2>2, <2>6, <3>2, <3>3 DEF ConnsSound
  <2>8. HeardOnce'
    <3>1. 1..n \subseteq 1..(n + 1)
      BY <2>0
    <3>2. received \in Seq([conn : 1..(n + 1), message : {request.message}])
      <4> DEFINE S == [conn : 1..n, message : {request.message}]
                 T == [conn : 1..(n + 1), message : {request.message}]
      <4>1. received \in Seq(S)
        BY DEF SigInv, HeardOnce
      <4>2. S \subseteq T
        BY <3>1
      <4> HIDE DEF S, T
      <4>3. received \in Seq(T)
        BY <4>1, <4>2
      <4> QED
        BY <4>3 DEF T
    <3> QED
      BY <1>2, <2>2, <3>2 DEF SigInv, HeardOnce
  <2>9. CallSound'
    <3>1. conns'[n + 1].up = <<>>
      BY <2>2 DEF Connection
    <3>2. n <= attempt /\ attempt \in Nat
      BY TransportAssumption DEF Connects, SigInv, CallSound
    <3>3. \A k : k = n + 1 => ~Heard(k)'
      BY <2>3, <2>4
    <3> HIDE DEF n
    <3> QED
      BY <1>2, <2>0, <2>2, <3>1, <3>2, <3>3 DEF SigInv, CallSound
  <2> QED
    BY <2>7, <2>8, <2>9 DEF SigInv
<1> QED
  BY <1>1, <1>2 DEF Connects

\* send puts the request on a connection that has not carried it.
LEMMA SendsSound ==
    ASSUME SigInv, Sends
    PROVE  SigInv'
<1> DEFINE n == Len(conns)
<1>0. n \in 1..Len(conns) /\ n \in Nat /\ conns[n].up = <<>> /\ ~Heard(n) /\ call = "send"
  BY DEF Sends, SigInv, CallSound, ConnsSound
<1>1. ConnSound(conns[n], n) /\ conns[n] \in Connections /\ conns \in Seq(Connections)
  BY <1>0, ConnFields
<1>2. CASE Fails /\ Dropped
  <2>1. conns' = [conns EXCEPT ![n] = [conns[n] EXCEPT !.client = FALSE]]
    BY <1>2 DEF Dropped, Mine
  <2> QED
    BY <1>0, <1>1, <1>2, <2>1, ConnChanges, FailsSound
<1>3. CASE \E payload \in encode_message(request.message) :
              /\ call' = "recv"
              /\ conns' = [conns EXCEPT ![Mine].up = Append(@, Text(payload, request.size))]
              /\ UNCHANGED <<request, attempt, answer, received>>
  <2>1. PICK payload \in encode_message(request.message) :
              /\ call' = "recv"
              /\ conns' = [conns EXCEPT ![Mine].up = Append(@, Text(payload, request.size))]
              /\ UNCHANGED <<request, attempt, answer, received>>
    BY <1>3
  <2> DEFINE f == Text(payload, request.size)
             c == [conns[n] EXCEPT !.up = <<f>>]
  <2>2. f \in RequestFrames
    BY DEF RequestFrames
  <2>3. <<f>> \in Seq(RequestFrames) /\ Len(<<f>>) <= 1
    BY <2>2
  <2>4. Append(conns[n].up, f) = <<f>>
    BY <1>0
  <2> HIDE DEF f
  <2>5. conns' = [conns EXCEPT ![n] = c]
    BY <2>1, <2>4 DEF Mine, f
  <2>6. ConnSound(c, n)
    BY <1>0, <1>1, <2>3 DEF ConnSound, Connections
  <2> HIDE DEF c
  <2>7. /\ ConnsSound' /\ HeardOnce' /\ Len(conns') = Len(conns)
        /\ \A k : Heard(k)' = Heard(k)
    BY <1>0, <2>1, <2>5, <2>6, OneConnection
  <2>8. CallSound'
    BY <1>0, <2>1, <2>7 DEF SigInv, CallSound
  <2> QED
    BY <2>7, <2>8 DEF SigInv
<1> QED
  BY <1>2, <1>3 DEF Sends

\* recv takes an answer only off a connection that the request was heard on.
LEMMA ReceivesSound ==
    ASSUME SigInv, Receives
    PROVE  SigInv'
<1> DEFINE n == Len(conns)
           c == [conns[n] EXCEPT !.down = Tail(@)]
           d == [c EXCEPT !.client = FALSE]
           head == Head(conns[n].down)
           r == recv(head, MaxMessage)
           rest == [conns EXCEPT ![Mine].down = Tail(@)]
<1>0. n \in 1..Len(conns) /\ call = "recv" /\ conns[n].down # <<>>
  BY DEF Receives, SigInv, CallSound, ConnsSound, Mine
<1>1. ConnSound(conns[n], n) /\ conns[n] \in Connections /\ conns \in Seq(Connections)
  BY <1>0, ConnFields
<1>2. ConnSound(c, n) /\ ConnSound(d, n) /\ c.up = conns[n].up
  <2>1. ConnSound(c, n)
    BY <1>0, <1>1, ConnChanges
  <2>2. c.up = conns[n].up
    BY <1>1 DEF Connections
  <2> HIDE DEF c
  <2>3. ConnSound([c EXCEPT !.client = FALSE], n)
    BY <2>1, ConnChanges
  <2> QED
    BY <2>1, <2>2, <2>3
<1>3. /\ rest = [conns EXCEPT ![n] = c]
      /\ [rest EXCEPT ![Mine].client = FALSE] = [conns EXCEPT ![n] = d]
  <2>1. rest = [conns EXCEPT ![n] = c]
    BY DEF Mine
  <2>2. DOMAIN conns = 1..Len(conns)
    BY <1>1
  <2> HIDE DEF c
  <2>3. [[conns EXCEPT ![n] = c] EXCEPT ![n].client = FALSE] = [conns EXCEPT ![n] = d]
    BY <1>0, <2>2
  <2> QED
    BY <2>1, <2>3 DEF Mine
<1>4. r.next = "message" => r.message = {Notice} \/ (Heard(n) /\ r.message = {Reply})
  <2>1. head \in ReplyFrames \cup NoiseFrames
    BY <1>0, ConnFields, HeadTailProperties
  <2>2. ~Heard(n) => head \in NoiseFrames
    BY <1>0, <1>1, HeadTailProperties DEF ConnSound
  <2> HIDE DEF head
  <2> QED
    BY <2>1, <2>2, ReplyHeard
<1> HIDE DEF c, d
<1>5. CASE /\ conns' = rest
           /\ UNCHANGED <<call, request, attempt, answer, received>>
  BY <1>0, <1>2, <1>3, <1>5, QuietConnection
<1>6. CASE /\ r.next = "message" /\ call' = "done" /\ answer' = r.message
           /\ conns' = [rest EXCEPT ![Mine].client = FALSE]
           /\ UNCHANGED <<request, attempt, received>>
  <2>1. conns' = [conns EXCEPT ![n] = d]
    BY <1>3, <1>6
  <2>2. /\ ConnsSound' /\ HeardOnce' /\ Len(conns') = Len(conns)
        /\ \A k : Heard(k)' = Heard(k)
    BY <1>0, <1>2, <1>6, <2>1, OneConnection
  <2>3. answer' = {Notice} \/ (answer' = {Reply'} /\ Heard(Len(conns)))
    BY <1>4, <1>6, SameRequest
  <2> HIDE DEF r, rest
  <2>4. CallSound'
    BY <1>0, <1>6, <2>2, <2>3 DEF SigInv, CallSound
  <2> QED
    BY <2>2, <2>4 DEF SigInv
<1>7. CASE Fails /\ conns' = [rest EXCEPT ![Mine].client = FALSE]
  BY <1>0, <1>2, <1>3, <1>7, FailsSound
<1> QED
  BY <1>5, <1>6, <1>7 DEF Receives, Mine

\* The server takes the request off its connection: it is too long and the
\* connection ends, or it is recorded and answered.
LEMMA ServesSound ==
    ASSUME SigInv, NEW i \in 1..Len(conns), Serves(i)
    PROVE  SigInv'
<1> DEFINE r == recv(Head(conns[i].up), DEFAULT_MAX_MESSAGE_SIZE)
           m == CHOOSE x \in r.message : TRUE
           turn == Turn(i, r)
           c == [conns[i] EXCEPT !.up = Tail(@), !.server = turn.stays, !.down = @ \o turn.frames]
<1>0. /\ conns[i].up # <<>> /\ UNCHANGED <<call, request, attempt, answer>>
      /\ conns' = [conns EXCEPT ![i] = c]
      /\ received' = IF r.next = "message" THEN Append(received, [conn |-> i, message |-> m]) ELSE received
  BY DEF Serves
<1>1. /\ ConnSound(conns[i], i) /\ conns[i] \in Connections /\ conns \in Seq(Connections)
      /\ conns[i].up \in Seq(RequestFrames) /\ conns[i].down \in Seq(ReplyFrames \cup NoiseFrames)
  BY ConnFields
<1>2. Tail(conns[i].up) = <<>> /\ ~Heard(i)
  <2>1. Len(conns[i].up) <= 1 /\ ~Heard(i)
    BY <1>0, <1>1 DEF ConnSound
  <2>2. Tail(conns[i].up) \in Seq(RequestFrames) /\ Len(Tail(conns[i].up)) = Len(conns[i].up) - 1
    BY <1>0, <1>1, HeadTailProperties
  <2> QED
    BY <1>1, <2>1, <2>2
<1>3. r.next \in {"message", "error"} /\ (r.next = "message" => r.message = {request.message})
  <2>1. Head(conns[i].up) \in RequestFrames
    BY <1>0, <1>1, HeadTailProperties
  <2> QED
    BY <2>1, RequestHeard DEF SigInv
<1> HIDE DEF r
<1>4. CASE r.next = "error"
  <2>1. turn.frames = <<>> /\ turn.stays = FALSE
    BY <1>4 DEF Turn
  <2>3. UNCHANGED received
    BY <1>0, <1>4
  <2>4. conns[i].down \o turn.frames = conns[i].down
    BY <1>1, <2>1, ConcatEmptySeq
  <2>5. c = [conns[i] EXCEPT !.up = <<>>, !.server = FALSE]
    <3>1. c = [conns[i] EXCEPT !.up = <<>>, !.server = FALSE, !.down = conns[i].down]
      BY <1>2, <2>1, <2>4
    <3> HIDE DEF c
    <3> QED
      BY <1>1, <3>1 DEF Connections
  <2>6. ConnSound(c, i) /\ c.up = <<>>
    <3>1. <<>> \in Seq(RequestFrames) /\ Len(<<>>) <= 1
      OBVIOUS
    <3> HIDE DEF c
    <3> QED
      BY <1>1, <2>5, <3>1 DEF ConnSound, Connections
  <2> HIDE DEF c
  <2> QED
    BY <1>0, <2>3, <2>6, QuietConnection
<1>5. CASE r.next = "message"
  <2> DEFINE e == [conn |-> i, message |-> request.message]
             n == Len(conns)
             S == [conn : 1..n, message : {request.message}]
  <2>1. m = request.message
    BY <1>3, <1>5
  <2>2. turn = Response(i, request.message)
    BY <1>5, <2>1 DEF Turn
  <2>3. turn.frames \in Seq(ReplyFrames \cup NoiseFrames) /\ turn.stays \in BOOLEAN
    BY <2>2, ResponseFrames DEF SigInv
  <2> HIDE DEF turn
  <2>4. c \in Connections /\ c.up = <<>>
    <3>1. <<>> \in Seq(RequestFrames)
      OBVIOUS
    <3>2. conns[i].down \o turn.frames \in Seq(ReplyFrames \cup NoiseFrames)
      BY <1>1, <2>3, ConcatProperties
    <3> QED
      BY <1>1, <1>2, <2>3, <3>1, <3>2 DEF Connections
  <2> HIDE DEF c
  <2>5. received \in Seq(S) /\ e \in S
    BY DEF SigInv, HeardOnce
  <2>6. received' = Append(received, e)
    BY <1>0, <1>5, <2>1
  <2>7. \A x \in S : x.conn \in 1..n /\ x.message = request.message
    OBVIOUS
  <2>8. e.conn = i
    OBVIOUS
  <2> HIDE DEF e, S
  <2>9. /\ received' \in Seq(S) /\ Len(received') = Len(received) + 1 /\ Len(received) \in Nat
        /\ \A k \in 1..Len(received) : received'[k] = received[k]
        /\ received'[Len(received) + 1] = e
    BY <2>5, <2>6, AppendProperties
  <2>10. DOMAIN received = 1..Len(received) /\ DOMAIN received' = 1..(Len(received) + 1)
    BY <2>5, <2>9
  <2>11. \A k : Heard(k)' <=> (Heard(k) \/ k = i)
    <3>1. 1..(Len(received) + 1) = 1..Len(received) \cup {Len(received) + 1}
      BY <2>9
    <3> QED
      BY <2>8, <2>9, <2>10, <3>1 DEF Heard
  <2>12. /\ conns' \in Seq(Connections) /\ Len(conns') = n
         /\ \A k \in 1..n : conns'[k] = IF k = i THEN c ELSE conns[k]
    BY <1>0, <1>1, <2>4, ExceptSeq
  <2>13. ConnsSound'
    <3>1. Connections' = Connections
      BY <1>0, SameRequest
    <3>2. ASSUME NEW k \in 1..n PROVE ConnSound(conns[k], k)'
      <4>1. CASE k = i
        <5>1. Len(<<>>) <= 1
          OBVIOUS
        <5>2. Heard(k)' /\ conns'[k] \in Connections' /\ conns'[k].up = <<>>
          BY <2>4, <2>11, <2>12, <3>1, <4>1
        <5> QED
          BY <5>1, <5>2 DEF ConnSound
      <4>2. CASE k # i
        <5>1. ConnSound(conns[k], k)
          BY ConnFields
        <5>2. (Heard(k)' <=> Heard(k)) /\ conns'[k] = conns[k]
          BY <2>11, <2>12, <4>2
        <5> QED
          BY <3>1, <5>1, <5>2 DEF ConnSound
      <4> QED
        BY <4>1, <4>2
    <3> QED
      BY <2>12, <3>1, <3>2 DEF ConnsSound
  <2>14. HeardOnce'
    <3>1. S = [conn : 1..Len(conns'), message : {request'.message}]
      BY <1>0, <2>12 DEF S
    <3>2. \A k \in 1..Len(received) : received[k].conn # i
      BY <1>2, <2>10 DEF Heard
    <3>3. ASSUME NEW k \in 1..Len(received'), NEW j \in 1..Len(received'), k # j
          PROVE  received'[k].conn # received'[j].conn
      <4>1. CASE k \in 1..Len(received) /\ j \in 1..Len(received)
        BY <2>9, <3>3, <4>1 DEF SigInv, HeardOnce
      <4>2. CASE k = Len(received) + 1 /\ j \in 1..Len(received)
        BY <2>8, <2>9, <3>2, <4>2
      <4>3. CASE j = Len(received) + 1 /\ k \in 1..Len(received)
        BY <2>8, <2>9, <3>2, <4>3
      <4> QED
        BY <2>9, <3>3, <4>1, <4>2, <4>3
    <3> QED
      BY <2>9, <3>1, <3>3 DEF HeardOnce
  <2>15. CallSound'
    <3>1. call = "send" => n # i /\ n \in 1..n
      BY <1>0, <1>1 DEF SigInv, CallSound
    <3> QED
      BY <1>0, <2>11, <2>12, <3>1, SameRequest DEF SigInv, CallSound
  <2> QED
    BY <2>13, <2>14, <2>15 DEF SigInv
<1> QED
  BY <1>3, <1>4, <1>5

\* Every step of the caller, the server and what is between them.
LEMMA SigStepKeeps ==
    ASSUME SigInv, [SigNext]_sigVars
    PROVE  SigInv'
<1>0. conns \in Seq(Connections) /\ DOMAIN conns = 1..Len(conns) /\ Len(conns) \in Nat
  BY DEF SigInv, ConnsSound
<1>1. CASE UNCHANGED sigVars
  BY <1>1, BetweenSound DEF sigVars
<1>2. CASE Start \/ Wakes \/ Shutdown
  BY <1>2, BetweenSound DEF Start, Wakes, Shutdown
<1>3. CASE Connects
  BY <1>3, ConnectsSound
<1>4. CASE Sends
  BY <1>4, SendsSound
<1>5. CASE Receives
  BY <1>5, ReceivesSound
<1>6. CASE ReceivesEnd
  <2>1. Len(conns) \in 1..Len(conns) /\ call = "recv" /\ Fails
    BY <1>0, <1>6 DEF ReceivesEnd, SigInv, CallSound
  <2>2. conns' = [conns EXCEPT ![Len(conns)] = [conns[Len(conns)] EXCEPT !.client = FALSE]]
    BY <1>6 DEF ReceivesEnd, Dropped, Mine
  <2>3. ConnSound([conns[Len(conns)] EXCEPT !.client = FALSE], Len(conns))
    BY <2>1, ConnFields, ConnChanges
  <2> QED
    BY <2>1, <2>2, <2>3, FailsSound
<1>7. ASSUME NEW i \in DOMAIN conns, Serves(i) PROVE SigInv'
  BY <1>0, <1>7, ServesSound
<1>8. ASSUME NEW i \in DOMAIN conns, ServesEnd(i) PROVE SigInv'
  <2> DEFINE c == [conns[i] EXCEPT !.server = FALSE]
  <2>1. conns' = [conns EXCEPT ![i] = c] /\ UNCHANGED <<request, received, call, attempt, answer>>
    BY <1>8 DEF ServesEnd
  <2>2. ConnSound(c, i)
    BY <1>0, ConnFields, ConnChanges
  <2>3. c.up = conns[i].up
    BY <1>0, ConnFields DEF Connections
  <2> HIDE DEF c
  <2> QED
    BY <1>0, <2>1, <2>2, <2>3, QuietConnection
<1>9. ASSUME NEW i \in DOMAIN conns, Breaks(i) PROVE SigInv'
  <2> DEFINE c == [conns[i] EXCEPT !.up = <<>>, !.down = <<>>, !.server = FALSE]
  <2>1. conns' = [conns EXCEPT ![i] = c] /\ UNCHANGED <<request, received, call, attempt, answer>>
    BY <1>9 DEF Breaks
  <2>2. ConnSound(c, i)
    BY <1>0, ConnFields, ConnChanges
  <2>3. c.up = <<>>
    BY <1>0, ConnFields DEF Connections
  <2> HIDE DEF c
  <2> QED
    BY <1>0, <2>1, <2>2, <2>3, QuietConnection
<1>10. ASSUME NEW frame \in NoiseFrames, Interjects(frame) PROVE SigInv'
  <2> DEFINE n == Len(conns)
             c == [conns[n] EXCEPT !.down = Append(@, frame)]
  <2>1. n \in 1..n
    BY <1>0, <1>10 DEF Interjects, SigInv, CallSound
  <2>2. conns' = [conns EXCEPT ![n] = c] /\ UNCHANGED <<request, received, call, attempt, answer>>
    BY <1>10 DEF Interjects, Mine
  <2>3. ConnSound(c, n)
    BY <2>1, ConnFields, ConnChanges
  <2>4. c.up = conns[n].up
    BY <2>1, ConnFields DEF Connections
  <2> HIDE DEF c
  <2> QED
    BY <2>1, <2>2, <2>3, <2>4, QuietConnection
<1>11. Interjections \subseteq NoiseFrames
  <2>1. encode_message(Notice) # {}
    BY RepliesValid DEF encode_message
  <2>2. PICK p \in encode_message(Notice) : Sent(Notice) = <<Text(p, 1)>>
    BY <2>1 DEF Sent
  <2>3. Head(Sent(Notice)) = Text(p, 1)
    BY <2>2
  <2> QED
    BY <2>3 DEF NoiseFrames, Interjections
<1> QED
  BY <1>1, <1>2, <1>3, <1>4, <1>5, <1>6, <1>7, <1>8, <1>9, <1>10, <1>11
  DEF SigNext, SigClient, SigServer

\* Distinct connections bound the copies: no more were heard than were opened.
LEMMA HeardBounded ==
    ASSUME SigInv
    PROVE  Len(received) <= MaxRetries + 1
<1> DEFINE n == Len(conns)
           f == [k \in 1..Len(received) |-> received[k].conn]
           S == [conn : 1..n, message : {request.message}]
<1>1. received \in Seq(S) /\ n \in Nat
  BY DEF SigInv, HeardOnce, ConnsSound
<1>2. \A x \in S : x.conn \in 1..n
  OBVIOUS
<1> HIDE DEF S
<1>3. Len(received) \in Nat /\ \A k \in 1..Len(received) : received[k].conn \in 1..n
  BY <1>1, <1>2
<1>4. /\ IsFiniteSet(1..n) /\ Cardinality(1..n) = n
      /\ IsFiniteSet(1..Len(received)) /\ Cardinality(1..Len(received)) = Len(received)
  <2>1. \A x \in Nat : IsFiniteSet(1..x) /\ Cardinality(1..x) = x
    <3> SUFFICES ASSUME NEW x \in Nat PROVE IsFiniteSet(1..x) /\ Cardinality(1..x) = x
      OBVIOUS
    <3>1. IsFiniteSet(1..x) /\ Cardinality(1..x) = IF 1 > x THEN 0 ELSE x - 1 + 1
      BY FS_Interval
    <3> QED
      BY <3>1
  <2> HIDE DEF n
  <2> QED
    BY <1>1, <1>3, <2>1
<1>5. f \in [1..Len(received) -> 1..n]
  BY <1>3
<1>6. \A x, y \in 1..Len(received) : x # y => f[x] # f[y]
  BY DEF SigInv, HeardOnce
<1>7. ~(n < Len(received))
  <2> HIDE DEF f, n
  <2> QED
    BY <1>4, <1>5, <1>6, FS_PigeonHole
<1>8. n <= MaxRetries + 1
  BY <1>1, TransportAssumption DEF SigInv, CallSound
<1> QED
  BY <1>1, <1>3, <1>7, <1>8, TransportAssumption

\* transact_with_retry returns the answer to its own request, off the connection of
\* the attempt that returns, or what the relay put before it, and no server hears a request more than once per
\* connection or altered, for any number of retries and whatever breaks, is lost or
\* comes in between.
THEOREM RequestsAnswered == SigSpec => []AnswersItsRequest
<1>1. SigInit => SigInv
  <2> SUFFICES ASSUME SigInit PROVE SigInv
    OBVIOUS
  <2>1. conns = <<>> /\ received = <<>> /\ call = "idle" /\ attempt = 0
    BY DEF SigInit
  <2>2. request \in [message : Requests, size : Sizes]
    BY DEF SigInit
  <2>3. ConnsSound /\ HeardOnce
    BY <2>1 DEF ConnsSound, HeardOnce
  <2>4. CallSound
    BY <2>1, <2>2, TransportAssumption DEF CallSound
  <2> QED
    BY <2>3, <2>4 DEF SigInv
<1>2. SigInv => AnswersItsRequest
  <2> SUFFICES ASSUME SigInv PROVE AnswersItsRequest
    OBVIOUS
  <2> DEFINE S == [conn : 1..Len(conns), message : {request.message}]
  <2>1. received \in Seq(S)
    BY DEF SigInv, HeardOnce
  <2>2. \A x \in S : x.message = request.message
    OBVIOUS
  <2> HIDE DEF S
  <2>3. DOMAIN received = 1..Len(received) /\ \A k \in DOMAIN received : received[k] \in S
    BY <2>1
  <2>4. \A i, j \in DOMAIN received : i # j => received[i].conn # received[j].conn
    BY <2>3 DEF SigInv, HeardOnce
  <2>5. call = "done" => answer = {Notice} \/ (Heard(Mine) /\ answer = {Reply})
    BY DEF SigInv, CallSound, Mine
  <2> QED
    BY <2>2, <2>3, <2>4, <2>5, HeardBounded DEF AnswersItsRequest, Heard, Reply
<1> QED
  BY <1>1, <1>2, SigStepKeeps, PTL DEF SigSpec
=================================================================================
