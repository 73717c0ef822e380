---------------------------------- MODULE Proxy ----------------------------------
(* ProxyStreamService (src/stream/proxy_handler.rs) under one ProxyPolicy        *)
(* (src/stream/proxy.rs): TCP, WebSocket and HTTP requests that share the        *)
(* semaphore, each a future its owner may drop at any await.  A step is what     *)
(* runs between two awaits.  Name resolution, the far end and the HTTP client    *)
(* library are external: they answer in any way they can.                        *)
EXTENDS AddressPolicy, FiniteSets

CONSTANTS Streams,        \* stream ids passed to the service
          Urls,           \* targets: [scheme, host, port, flaw]
          Normal,         \* host as spelled -> host without trailing dots, lower case
          Literal,        \* host -> the addresses it spells out: {} or one IP
          AnswerSets,     \* sequences of IPs a name server may answer with
          Policies,       \* configurations of ProxyPolicy
          MaxConcurrent,  \* max_concurrent_streams
          MaxRequest,     \* max_request_bytes
          MaxResponse,    \* max_response_bytes
          MaxBuffered,    \* max_buffered_bytes
          MaxFrameData,   \* MAX_FRAME_DATA
          MaxRedirects,   \* max_redirects
          Lengths,        \* payload lengths the peer and the far end choose from
          MaxCounted      \* bound on the byte counters of a stream

NoPort == 0
Schemes == {"http", "https", "tcp", "ws", "wss"}
Kinds == {"tcp", "websocket", "http"}
Authorizations == {"None", "Allowlisted", "UserConfirmed"}

\* ProxyResourceLimits::validate, which also caps every limit from above: no limit
\* but the redirects may be zero.  MaxFrameData is a constant of the code.
validate_limits ==
    /\ {MaxConcurrent, MaxRequest, MaxResponse, MaxBuffered, MaxFrameData} \subseteq Nat \ {0}
    /\ MaxRedirects \in Nat

\* What deny_by_default and the with_... builders can make.  allowed_ports is an
\* option: {} is None and {ports} is Some(ports).
ProxyPolicy ==
    [allowed_schemes : SUBSET Schemes,
     allowed_targets : SUBSET [scheme : Schemes, host : STRING, port : Nat],
     allowed_ports : SUBSET SUBSET (Nat \ {0}), allow_user_confirmation : BOOLEAN,
     allow_local_targets : BOOLEAN, allow_cross_origin_redirects : BOOLEAN,
     allow_insecure_redirects : BOOLEAN]

ASSUME ProxyAssumption ==
    /\ validate_limits
    /\ MaxCounted \in Nat /\ Lengths \subseteq Nat
    /\ Policies \subseteq ProxyPolicy
    /\ Urls # {} /\ \A u \in Urls : Literal[Normal[u.host]] \subseteq IPs
    /\ AnswerSets \subseteq Seq(IPs)

VARIABLES policy,   \* the ProxyPolicy of the service
          permits,  \* permits left in the semaphore
          st        \* Streams -> the stream's future or handle

proxyVars == <<policy, permits, st>>

Phases == {"idle", "resolving", "connecting", "upgrading", "open", "shut", "sending",
           "reading", "ended"}

\* The future or handle of one stream id, and three history fields: the target
\* the caller named, the bytes that reached the far end (of an HTTP request: with
\* one round of its loop), those handed back.
Stream == [phase : Phases, kind : Kinds, auth : Authorizations, url : Urls,
           pins : Seq(IPs), next : Nat, redirects : Nat,
           request_bytes : Nat, response_bytes : Nat, first : Urls, wrote : Nat, gave : Nat]

---------------------------------------------------------------------------------
(* ProxyPolicy                                                                   *)

default_port(scheme) == CASE scheme \in {"http", "ws"} -> 80
                          [] scheme \in {"https", "wss"} -> 443
                          [] OTHER -> NoPort

is_secure(scheme) == scheme \in {"https", "wss"}

PortOf(u) == IF u.port # NoPort THEN u.port ELSE default_port(u.scheme)

\* target_key succeeds
has_key(u) ==
    /\ u.scheme \in Schemes
    /\ u.flaw \notin {"credentials", "fragment"}
    /\ Normal[u.host] # ""
    /\ PortOf(u) # NoPort
    /\ ~(u.scheme = "tcp" /\ u.flaw = "path")

target_key(u) == [scheme |-> u.scheme, host |-> Normal[u.host], port |-> PortOf(u)]

validate_ip(ip) == proxy_allows(ip, policy.allow_local_targets)

validate_target(u, auth) ==
    /\ has_key(u)
    /\ target_key(u).scheme \in policy.allowed_schemes
    /\ \A ports \in policy.allowed_ports : target_key(u).port \in ports
    /\ \/ auth = "Allowlisted" /\ target_key(u) \in policy.allowed_targets
       \/ auth = "UserConfirmed" /\ policy.allow_user_confirmation
    /\ \A ip \in Literal[target_key(u).host] : validate_ip(ip)

\* Defect used as a mutant: only the first answer of a lookup is checked.
MutFirstAnswerChecked(ips) == ips # <<>> /\ validate_ip(ips[1])

validate_resolved_target_for(ips) ==
    ips # <<>> /\ \A i \in DOMAIN ips : validate_ip(ips[i])

\* Defect used as a mutant: a redirect may leave a secure scheme.
MutRedirectDowngrades(original, next, auth, count) ==
    /\ count < MaxRedirects
    /\ validate_target(next, auth)
    /\ policy.allow_cross_origin_redirects \/ Normal[original.host] = Normal[next.host]

validate_redirect(original, next, auth, count) ==
    /\ count < MaxRedirects
    /\ validate_target(next, auth)
    /\ is_secure(original.scheme) /\ ~is_secure(next.scheme) => policy.allow_insecure_redirects
    /\ policy.allow_cross_origin_redirects \/ target_key(original) = target_key(next)

validate_retry(pins, ip) == validate_ip(ip) /\ \E i \in DOMAIN pins : pins[i] = ip

check_request_size(n) == n <= MaxRequest
check_response_size(n) == n <= MaxResponse
check_buffered_bytes(n) == n <= MaxBuffered

---------------------------------------------------------------------------------
(* Opening a stream                                                              *)

AnyUrl == CHOOSE u \in Urls : TRUE

Fresh == [phase |-> "idle", kind |-> "tcp", auth |-> "None", url |-> AnyUrl, pins |-> <<>>,
          next |-> 1, redirects |-> 0, request_bytes |-> 0, response_bytes |-> 0,
          first |-> AnyUrl, wrote |-> 0, gave |-> 0]

Gone == [Fresh EXCEPT !.phase = "ended"]

ProxyInit ==
    /\ policy \in Policies
    /\ permits = MaxConcurrent
    /\ st = [s \in Streams |-> Fresh]

\* The future returned or was dropped: the owned permit goes with it.
Ended(s) ==
    /\ st' = [st EXCEPT ![s] = Gone]
    /\ permits' = permits + 1
    /\ UNCHANGED policy

\* A call whose arguments are refused before it first awaits returns its permit.
Refused(s) ==
    /\ st' = [st EXCEPT ![s] = Gone]
    /\ UNCHANGED <<policy, permits>>

\* The body of an HTTP request comes with the call, unlike the bytes of a stream.
request_fits(kind, body) == kind = "http" => check_request_size(body)

\* open_tcp, open_websocket and request_http up to the name lookup.  Every kind
\* takes a permit first; request_http also compares the body with its limit.
Open(s, kind, u, auth, body) ==
    /\ st[s].phase = "idle"
    /\ kind = "tcp" => u.scheme = "tcp"
    /\ IF permits > 0 /\ request_fits(kind, body) /\ validate_target(u, auth)
       THEN /\ permits' = permits - 1
            /\ st' = [st EXCEPT ![s].phase = "resolving", ![s].kind = kind, ![s].auth = auth,
                                ![s].url = u, ![s].first = u,
                                ![s].request_bytes = IF kind = "http" THEN body ELSE 0]
            /\ UNCHANGED policy
       ELSE Refused(s)

\* What lookup_host may answer: nothing, any answer, or the literal itself.
Lookups(u) ==
    LET literal == Literal[target_key(u).host]
    IN IF literal # {} THEN {<<ip>> : ip \in literal} ELSE AnswerSets \cup {<<>>}

\* The answer comes back: it is checked as a whole and kept for the connection.
\* An HTTP request is sent next, each round of the loop with the whole body.
Resolved(s, ips) ==
    /\ st[s].phase = "resolving"
    /\ IF /\ validate_resolved_target_for(ips)
          /\ st[s].kind = "websocket" => st[s].url.scheme = "ws"
       THEN /\ st' = [st EXCEPT ![s].phase = IF st[s].kind = "http" THEN "sending" ELSE "connecting",
                                ![s].pins = ips, ![s].next = 1,
                                ![s].wrote = IF st[s].kind = "http" THEN st[s].request_bytes
                                             ELSE 0]
            /\ UNCHANGED <<policy, permits>>
       ELSE Ended(s)

\* One round of the loop over the pinned addresses; TcpStream::connect worked.
Connected(s) ==
    /\ st[s].phase = "connecting"
    /\ st[s].next <= Len(st[s].pins)
    /\ validate_retry(st[s].pins, st[s].pins[st[s].next])
    /\ st' = [st EXCEPT ![s].phase = IF st[s].kind = "tcp" THEN "open" ELSE "upgrading"]
    /\ UNCHANGED <<policy, permits>>

\* The address refused, timed out, or failed the WebSocket handshake.
ConnectFails(s) ==
    /\ st[s].phase \in {"connecting", "upgrading"}
    /\ IF st[s].next < Len(st[s].pins)
       THEN /\ st' = [st EXCEPT ![s].phase = "connecting", ![s].next = @ + 1]
            /\ UNCHANGED <<policy, permits>>
       ELSE Ended(s)

Upgraded(s) ==
    /\ st[s].phase = "upgrading"
    /\ st' = [st EXCEPT ![s].phase = "open"]
    /\ UNCHANGED <<policy, permits>>

---------------------------------------------------------------------------------
(* TcpProxyStream and WebSocketProxyStream                                       *)

\* Frames the peer may send: of this stream or another, with flags, a payload
\* that decodes or not and, for a WebSocket, a known message type or not.
Frame == [own : BOOLEAN, flags : {{"FIN"}, {"DAT", "FIN"}, {"DAT", "MORE"}, {"SYN", "DAT"}},
          decodes : BOOLEAN, known : BOOLEAN, len : Lengths]

check_data_frame(f) == f.own /\ "DAT" \in f.flags /\ f.flags \cap {"SYN", "FIN"} = {}

\* FIN shuts the sending side down; the permit stays until the handle is dropped.
HandleFin(s, f) ==
    /\ st[s].phase = "open"
    /\ f.own /\ "FIN" \in f.flags
    /\ st' = [st EXCEPT ![s].phase = "shut"]
    /\ UNCHANGED <<policy, permits>>

tcp_accepts(total, f) == check_request_size(total) /\ check_buffered_bytes(f.len)
websocket_accepts(total, f) == tcp_accepts(total, f) /\ f.known

\* Defect used as a mutant: the limit is compared with the frame, not the total.
MutFrameNotTotal(s, f, written) ==
    /\ st[s].phase = "open"
    /\ check_data_frame(f) /\ f.decodes
    /\ st[s].request_bytes + f.len <= MaxCounted
    /\ written \in (IF check_request_size(f.len) /\ check_buffered_bytes(f.len) THEN 0..f.len ELSE {0})
    /\ st' = [st EXCEPT ![s].request_bytes = @ + f.len, ![s].wrote = @ + written]
    /\ UNCHANGED <<policy, permits>>

\* A data frame: counted first, then compared with both limits, then written.
\* A write that times out has written some of it.
HandleData(s, f, written) ==
    LET total == st[s].request_bytes + f.len
        accepted == IF st[s].kind = "tcp" THEN tcp_accepts(total, f)
                    ELSE websocket_accepts(total, f)
    IN /\ st[s].phase = "open"
       /\ check_data_frame(f) /\ f.decodes
       /\ total <= MaxCounted
       /\ written \in (IF accepted THEN 0..f.len ELSE {0})
       /\ st' = [st EXCEPT ![s].request_bytes = total, ![s].wrote = @ + written]
       /\ UNCHANGED <<policy, permits>>

\* The most one read takes from a TCP socket.
ChunkSize == Larger(1, Smaller(MaxBuffered, Smaller(MaxFrameData, MaxResponse)))

\* A TCP read cannot be larger than the buffer; a WebSocket message can.
returns(kind, total, n) ==
    check_response_size(total) /\ (kind = "websocket" => check_buffered_bytes(n))

\* read_frame got n bytes: counted first; over a limit they are dropped.
ReadFrame(s, n) ==
    LET total == st[s].response_bytes + n
    IN /\ st[s].phase \in {"open", "shut"}
       /\ n > 0 \/ st[s].kind = "websocket"
       /\ st[s].kind = "tcp" => n <= ChunkSize
       /\ total <= MaxCounted
       /\ st' = [st EXCEPT ![s].response_bytes = total,
                           ![s].gave = IF returns(st[s].kind, total, n) THEN @ + n ELSE @]
       /\ UNCHANGED <<policy, permits>>

---------------------------------------------------------------------------------
(* request_http                                                                  *)

\* Addresses the HTTP client may reach: it looks the pins up under the host as
\* the URL spells it and resolves by itself when it finds none.
Reachable(s) ==
    IF Normal[st[s].url.host] = st[s].url.host
    THEN {st[s].pins[i] : i \in DOMAIN st[s].pins}
    ELSE UNION {{ips[i] : i \in DOMAIN ips} : ips \in AnswerSets}

\* Defect used as a mutant: a refused redirect keeps the permit.
MutRedirectKeepsPermit(s, u) ==
    /\ st[s].phase = "sending"
    /\ st' = [st EXCEPT ![s] = IF validate_redirect(st[s].url, u, st[s].auth, st[s].redirects)
                               THEN [@ EXCEPT !.phase = "resolving", !.url = u, !.pins = <<>>,
                                              !.redirects = @ + 1]
                               ELSE Gone]
    /\ UNCHANGED <<policy, permits>>

\* A redirect: the absolute target is validated against the one just asked, then
\* the loop starts again with a new lookup.
Redirected(s, u) ==
    /\ st[s].phase = "sending"
    /\ IF validate_redirect(st[s].url, u, st[s].auth, st[s].redirects)
       THEN /\ st' = [st EXCEPT ![s].phase = "resolving", ![s].url = u, ![s].pins = <<>>,
                                ![s].redirects = @ + 1]
            /\ UNCHANGED <<policy, permits>>
       ELSE Ended(s)

\* The final answer's headers: a content length over the limit ends the request.
Answered(s, length) ==
    /\ st[s].phase = "sending"
    /\ IF check_response_size(length)
       THEN /\ st' = [st EXCEPT ![s].phase = "reading"]
            /\ UNCHANGED <<policy, permits>>
       ELSE Ended(s)

\* A chunk of the body, which need not keep to the announced length.
BodyChunk(s, n) ==
    /\ st[s].phase = "reading" /\ n > 0
    /\ IF check_response_size(st[s].gave + n)
       THEN /\ st' = [st EXCEPT ![s].gave = @ + n]
            /\ UNCHANGED <<policy, permits>>
       ELSE Ended(s)

\* The request returns, fails or times out, or the owner drops the future or the
\* handle: at any await.
Leave(s) == st[s].phase \notin {"idle", "ended"} /\ Ended(s)

ProxyNext ==
    \E s \in Streams :
        \/ \E kind \in Kinds, u \in Urls, auth \in Authorizations, body \in Lengths :
               Open(s, kind, u, auth, body)
        \/ st[s].phase = "resolving" /\ \E ips \in Lookups(st[s].url) : Resolved(s, ips)
        \/ Connected(s) \/ ConnectFails(s) \/ Upgraded(s)
        \/ \E f \in Frame : HandleFin(s, f) \/ \E w \in 0..f.len : HandleData(s, f, w)
        \/ \E n \in Lengths : ReadFrame(s, n)
        \/ \E u \in Urls : Redirected(s, u)
        \/ \E n \in Lengths : Answered(s, n) \/ BodyChunk(s, n)
        \/ Leave(s)

ProxySpec == ProxyInit /\ [][ProxyNext]_proxyVars

---------------------------------------------------------------------------------
(* Properties                                                                    *)

Holding == {s \in Streams : st[s].phase \notin {"idle", "ended"}}

\* Every way out of a request (refusal, failed lookup, last address failed, limit,
\* redirect refused, dropped future) gives back exactly the permit it took, so the
\* service neither runs out of permits nor exceeds its limit.
PermitsAccounted == permits + Cardinality(Holding) = MaxConcurrent

\* An address in no special block, or in a local one when the policy opted in.
Approved(ip) == ~Barred(ip) /\ (Local(ip) => policy.allow_local_targets)

\* Whatever the name servers answer, on the first lookup or on one made again for a
\* redirect, a TCP or WebSocket stream is connected only to addresses outside the
\* special blocks, and an HTTP client is pinned only to such, as an independent table
\* of prefixes lists them, IPv4-mapped addresses included.  To which addresses an HTTP
\* client then connects is another question: see OnlyPinnedConnections.
PinsApproved ==
    \A s \in Streams :
        /\ \A i \in DOMAIN st[s].pins : Approved(st[s].pins[i])
        /\ st[s].phase \in {"upgrading", "open", "shut"} => st[s].next \in DOMAIN st[s].pins

\* What proxy_handler.rs says of its connections, "resolved and checked once through
\* [`ProxyPolicy`]; retries use only that pinned answer set": an HTTP request reaches
\* no address but its checked ones.  The code does not keep it: it pins them under the
\* normalised host and sends the request to the host as the URL spells it.
OnlyPinnedConnections ==
    \A s \in Streams : st[s].phase \in {"sending", "reading"} =>
        \A ip \in Reachable(s) : \E i \in DOMAIN st[s].pins : ip = st[s].pins[i]

\* Each redirect is compared with the target before it only; still a chain that began
\* on a secure scheme stays on one, a chain confined to its origin stays on the first
\* target's, each target is authorised, and there are at most MaxRedirects of them.
RedirectsStaySafe ==
    \A s \in Holding :
        /\ ~policy.allow_insecure_redirects /\ is_secure(st[s].first.scheme)
           => is_secure(st[s].url.scheme)
        /\ ~policy.allow_cross_origin_redirects
           => target_key(st[s].url) = target_key(st[s].first)
        /\ st[s].auth = "Allowlisted" => target_key(st[s].url) \in policy.allowed_targets
        /\ st[s].redirects <= MaxRedirects

\* The owner may go on after a refused frame, and both counters then lie past their
\* limit; the far end has still received, and the peer been given, no more than the
\* limits allow.
BudgetsKept ==
    \A s \in Streams : st[s].wrote <= MaxRequest /\ st[s].gave <= MaxResponse
=================================================================================
