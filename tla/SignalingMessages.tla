---------------------------- MODULE SignalingMessages ----------------------------
(* The signaling messages (src/signaling/mod.rs) and their JSON form on the wire   *)
(* (src/signaling/transport.rs).  A text is a member of a small set, "" standing   *)
(* for every text that is empty after trimming; only the fields that a conversion  *)
(* changes or a check looks at are told apart.                                     *)
EXTENDS Integers, Sequences

PROTOCOL_VERSION == 3

\* The text fields of each message that must not be empty.
Texts ==
    [register |-> {"uid", "public_key"}, registered |-> {"pairing_code"},
     request |-> {"client_id"}, offer |-> {"client_id", "sdp"},
     answer |-> {"client_id", "sdp", "encrypted_request"}, candidate |-> {"client_id"},
     pair_request |-> {"client_id"}, pair_answer |-> {"client_id", "sdp"},
     pair_approved |-> {"client_id"}, pair_rejected |-> {"client_id", "reason"},
     error |-> {"message"}]

\* What some messages carry besides: protocol is the version of a register, servers
\* the urls of ICE servers, map the entries of streams (bytes) or of a candidate.
SignalingMessage(type, texts, protocol, servers, map) ==
    [type |-> type, texts |-> texts, protocol |-> protocol, servers |-> servers, map |-> map]

\* Six decimal digits.
validate_pairing_code(code) == code = "six digits"

validate(m) ==
    /\ \A field \in Texts[m.type] : m.texts[field] # ""
    /\ m.type = "register" => m.protocol = PROTOCOL_VERSION
    /\ m.type = "registered" => validate_pairing_code(m.texts["pairing_code"])
    /\ m.type \in {"request", "pair_request"} => \A i \in DOMAIN m.servers : m.servers[i] # ""
    /\ m.type = "candidate" => m.map # <<>>

---------------------------------------------------------------------------------
(* Conversions.  An entry of streams is bytes in the message and base64 text on   *)
(* the wire; pairing_code is called code there.                                   *)

Bytes(value) == [bytes |-> value]
Base64(entry) == [base64 |-> entry.bytes]
IsBase64(entry) == DOMAIN entry = {"base64"}

\* The values the program's message type has: the texts of its kind, and bytes for
\* the streams of an offer.
IsMessage(m) ==
    /\ m.type \in DOMAIN Texts
    /\ m = SignalingMessage(m.type, m.texts, m.protocol, m.servers, m.map)
    /\ m.texts = [f \in Texts[m.type] |-> m.texts[f]]
    /\ m.type = "offer" => m.map = [i \in DOMAIN m.map |-> Bytes(m.map[i].bytes)]

WireName(field) == IF field = "pairing_code" THEN "code" ELSE field

to_wire(m) ==
    [m EXCEPT !.texts = [w \in {WireName(f) : f \in Texts[m.type]} |->
                            m.texts[CHOOSE f \in Texts[m.type] : WireName(f) = w]],
              !.map = IF m.type = "offer" THEN [i \in DOMAIN @ |-> Base64(@[i])] ELSE @]

\* The message a wire form stands for: none if a field is missing, an entry of
\* streams is not base64, or the message is not valid.
try_from(w) ==
    LET decodes == /\ DOMAIN w.texts = {WireName(f) : f \in Texts[w.type]}
                   /\ w.type = "offer" => \A i \in DOMAIN w.map : IsBase64(w.map[i])
        m == [w EXCEPT !.texts = [f \in Texts[w.type] |-> w.texts[WireName(f)]],
                       !.map = IF w.type = "offer" THEN [i \in DOMAIN @ |-> Bytes(@[i].base64)] ELSE @]
    IN IF decodes THEN (IF validate(m) THEN {m} ELSE {}) ELSE {}

\* A payload is the wire form of a message, or text that is no JSON of one.
encode_message(m) == IF validate(m) THEN {[json |-> {to_wire(m)}]} ELSE {}

decode_message(payload) == UNION {try_from(w) : w \in payload.json}

Malformed == [json |-> {}]
=================================================================================
