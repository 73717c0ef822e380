----------------------------- MODULE SessionRuntime -----------------------------
(***************************************************************************)
(* The runtime that drives a session from the control messages of SWSP     *)
(* stream 0 (src/session/runtime.rs, struct SessionRuntime).               *)
(*                                                                         *)
(* A runtime is a record of the struct's fields; the peer handle is left   *)
(* to the module that composes two runtimes.  A method that sends is an    *)
(* operator with an argument k, the number of its sends that succeed, and  *)
(* returns a record                                                        *)
(*     [rt, out, shut, res]                                                *)
(* with the runtime it leaves, the frames that went out, whether it closed *)
(* the peer, and "More" for Ok(false), "Done" for Ok(true), "Err" for Err. *)
(* The first failed send ends a method through ?, with the state changes   *)
(* made so far in place: sends are the points where a handler can be cut.  *)
(***************************************************************************)
EXTENDS Session

(* A frame as the runtime tells frames apart: the control messages; "fin", *)
(* the empty control frame that ends a session; "junk", a control frame    *)
(* with no known message; "app" and "appfin", frames of other streams.     *)
(* ok is the field a handler looks at: a usable path and version in        *)
(* connect, success in auth_result, a routing that is not blank in ready.  *)
Frame(type, pin, ok) == [type |-> type, pin |-> pin, ok |-> ok]

ControlTypes == {"connect", "auth_required", "auth", "auth_result", "ready",
                 "error"}

FrameTypes == ControlTypes \cup {"fin", "junk", "app", "appfin"}

Frames == [type : FrameTypes, pin : Seq(Bytes), ok : BOOLEAN]

Plain(type) == Frame(type, NoPin, TRUE)

AuthFrame(pin) == Frame("auth", pin, TRUE)

AuthResult(success) == Frame("auth_result", NoPin, success)

(* decode_control_frame and ControlMessage::decode *)
Decodes(f) == f.type \in ControlTypes

IsFin(f) == f.type \in {"fin", "appfin"}

Runtimes == [role : {"Server", "Client"}, session : Sessions,
             auth_pins : Seq(Seq(Bytes)), handshake_started : BOOLEAN,
             connect_seen : BOOLEAN, auth_pending : BOOLEAN,
             last_auth_pin : Seq(Seq(Bytes)), ready_seen : BOOLEAN]

(* SessionRuntimeConfig::validate and SessionRuntime::new.  last_auth_pin, *)
(* an Option, is a sequence of at most one PIN.                            *)
NewRuntime(role, pin_required, expected_pin, auth_pins) ==
    LET new == NewSession(pin_required, expected_pin)
    IN  [ok |-> new.ok /\ (role = "Client" => auth_pins # <<>>),
         rt |-> [role |-> role, session |-> new.session,
                 auth_pins |-> auth_pins, handshake_started |-> FALSE,
                 connect_seen |-> FALSE, auth_pending |-> FALSE,
                 last_auth_pin |-> <<>>, ready_seen |-> FALSE]]

-----------------------------------------------------------------------------
(* A method that ends in Err(..) without any further effect.               *)
Abort(rt) == [rt |-> rt, out |-> <<>>, shut |-> FALSE, res |-> "Err"]

(* Sends of msgs one after the other, each with ?.                         *)
Sends(rt, msgs, k, res) ==
    IF k < Len(msgs)
    THEN [rt |-> rt, out |-> SubSeq(msgs, 1, k), shut |-> FALSE, res |-> "Err"]
    ELSE [rt |-> rt, out |-> msgs, shut |-> FALSE, res |-> res]

(* fail_session, after the frames before were sent: its own send may fail  *)
(* and nothing changes for that.                                           *)
FailSession(rt, before, k) ==
    [rt |-> [rt EXCEPT !.session = CloseSession(@)],
     out |-> IF k > Len(before) THEN Append(before, Plain("error")) ELSE before,
     shut |-> TRUE,
     res |-> "Err"]

(* Defect used as a mutant: the ready message is sent once more.           *)
MutSendReadyTwice(rt, before, k) ==
    Sends([rt EXCEPT !.ready_seen = TRUE],
          before \o <<Plain("ready"), Plain("ready")>>, k + 1, "Done")

(* send_ready, after the frames before were sent                           *)
SendReady(rt, before, k) ==
    LET msgs == Append(before, Plain("ready"))
        seen == [rt EXCEPT !.ready_seen = TRUE]
    IN  IF k < Len(before) THEN Sends(rt, before, k, "Err")
        ELSE IF rt.ready_seen THEN FailSession(rt, before, k)
        ELSE Sends(IF k < Len(msgs) THEN rt ELSE seen, msgs, k, "Done")

(* handle_server_message, Connect *)
ServerConnect(rt, f, k) ==
    LET seen  == [rt EXCEPT !.connect_seen = TRUE]
        begun == BeginAuthentication(rt.session)
        next  == [seen EXCEPT !.session = begun.session]
    IN  IF rt.connect_seen THEN FailSession(rt, <<>>, k)
        ELSE IF ~ f.ok THEN FailSession(seen, <<>>, k)
        ELSE IF ~ begun.ok THEN Abort(seen)
        ELSE IF rt.session.pin_required
             THEN Sends(next, <<Plain("auth_required")>>, k, "More")
             ELSE SendReady(next, <<>>, k)

(* What the server answers to a rejected PIN.                              *)
Rejection == <<AuthResult(FALSE), Plain("auth_required")>>

(* last_auth_pin = Some(pin) *)
KeepPin(rt, pin) == [rt EXCEPT !.last_auth_pin = <<pin>>]

(* handle_server_message, Auth *)
ServerAuth(rt, f, now, k) ==
    LET kept  == KeepPin(rt, f.pin)
        check == Authenticate(rt.session, f.pin, now)
        next  == [kept EXCEPT !.session = check.session]
    IN  IF rt.session.state # "Authenticating" \/ rt.last_auth_pin = <<f.pin>>
        THEN FailSession(rt, <<>>, k)
        ELSE CASE check.out = "Ready" ->
                      SendReady(next, <<AuthResult(TRUE)>>, k)
               [] check.out = "Rejected" -> Sends(next, Rejection, k, "More")
               [] check.out = "Closed" ->
                      IF k = 0 THEN Abort(next)
                      ELSE FailSession(next, <<AuthResult(FALSE)>>, k)
               [] check.out = "Err" -> Abort(next)

HandleServerMessage(rt, f, now, k) ==
    CASE f.type = "connect" -> ServerConnect(rt, f, k)
      [] f.type = "auth"    -> ServerAuth(rt, f, now, k)
      [] OTHER              -> FailSession(rt, <<>>, k)

-----------------------------------------------------------------------------
(* handle_client_message, AuthRequired.  ControlMessage::auth refuses a    *)
(* blank PIN, after the PIN was taken from the queue.                      *)
ClientAuthRequired(rt, f, k) ==
    LET asked == AcceptAuthRequired(rt.session)
        next  == [rt EXCEPT !.session = asked.session]
        taken == [next EXCEPT !.auth_pins = Tail(@), !.auth_pending = TRUE]
    IN  IF rt.auth_pending \/ rt.ready_seen THEN FailSession(rt, <<>>, k)
        ELSE IF ~ asked.ok \/ rt.auth_pins = <<>> THEN Abort(next)
        ELSE IF BlankPin(Head(rt.auth_pins)) THEN Abort(taken)
        ELSE Sends(taken, <<AuthFrame(Head(rt.auth_pins))>>, k, "More")

(* Defect used as a mutant: a successful auth_result already opens the     *)
(* session.                                                                *)
MutClientAuthResultOpens(rt, f, k) ==
    LET told == IF f.ok THEN MarkReady(rt.session)
                        ELSE AcceptAuthResult(rt.session, f.ok)
    IN  Sends([rt EXCEPT !.auth_pending = FALSE, !.session = told.session],
              <<>>, k, "More")

(* handle_client_message, AuthResult *)
ClientAuthResult(rt, f, k) ==
    LET told == AcceptAuthResult(rt.session, f.ok)
        next == [rt EXCEPT !.auth_pending = FALSE, !.session = told.session]
    IN  IF ~ rt.auth_pending THEN FailSession(rt, <<>>, k)
        ELSE IF ~ told.ok THEN Abort(next)
        ELSE Sends(next, <<>>, k, "More")

(* handle_client_message, Ready *)
ClientReady(rt, f, k) ==
    LET entered == MarkReady(rt.session)
        next == [rt EXCEPT !.session = entered.session, !.ready_seen = TRUE]
    IN  IF rt.ready_seen \/ rt.auth_pending \/ ~ f.ok
        THEN FailSession(rt, <<>>, k)
        ELSE IF ~ entered.ok THEN Abort(rt)
        ELSE Sends(next, <<>>, k, "Done")

HandleClientMessage(rt, f, k) ==
    CASE f.type = "auth_required" -> ClientAuthRequired(rt, f, k)
      [] f.type = "auth_result"   -> ClientAuthResult(rt, f, k)
      [] f.type = "ready"         -> ClientReady(rt, f, k)
      [] OTHER                    -> FailSession(rt, <<>>, k)

HandleControl(rt, f, now, k) ==
    IF rt.role = "Server" THEN HandleServerMessage(rt, f, now, k)
                          ELSE HandleClientMessage(rt, f, k)

-----------------------------------------------------------------------------
(* The session is closed and the method returns res; the peer is not.      *)
CloseAnd(rt, res) ==
    [rt |-> [rt EXCEPT !.session = CloseSession(@)], out |-> <<>>,
     shut |-> FALSE, res |-> res]

(* handshake, up to its loop: the client announces itself                  *)
StartHandshake(rt, k) ==
    LET started == [rt EXCEPT !.handshake_started = TRUE]
    IN  IF rt.handshake_started THEN Abort(rt)
        ELSE Sends(started, IF rt.role = "Client" THEN <<Plain("connect")>>
                                                  ELSE <<>>, k, "More")

(* One turn of the loop of handshake, for a frame that arrived: one that   *)
(* does not decode is an error of receive_control.                         *)
HandshakeTurn(rt, f, now, k) ==
    IF Decodes(f) THEN HandleControl(rt, f, now, k) ELSE CloseAnd(rt, "Err")

(* One turn of the loop of run_until_disconnect, for a frame that arrived. *)
(* Any FIN ends the loop; a frame that does not decode ends it with the    *)
(* session as it was.                                                      *)
LoopTurn(rt, f, now, k) ==
    IF IsFin(f) THEN CloseAnd(rt, "Done")
    ELSE IF ~ Decodes(f) THEN Abort(rt)
    ELSE LET turn == HandleControl(rt, f, now, k)
         IN  [rt |-> turn.rt, out |-> turn.out, shut |-> turn.shut,
              res |-> IF turn.res = "Err" THEN "Err" ELSE "More"]

(* SessionRuntime::close.  FIN goes out unless the session is closed.      *)
CloseRuntime(rt, k) ==
    [rt |-> [rt EXCEPT !.session = CloseSession(@)],
     out |-> IF rt.session.state # "Closed" /\ k > 0 THEN <<Plain("fin")>>
                                                     ELSE <<>>,
     shut |-> TRUE, res |-> "Done"]
=============================================================================
