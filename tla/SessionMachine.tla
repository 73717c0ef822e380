---------------------------- MODULE SessionMachine ----------------------------
(***************************************************************************)
(* One session under every sequence of calls its owner may make.  A server *)
(* begins the authentication and checks PINs; a client records what the    *)
(* server told it; either end opens, accepts and closes streams, and may   *)
(* close the session at any point.  Time passes between any two calls.     *)
(***************************************************************************)
EXTENDS Session

CONSTANTS
    ExpectedPins,   \* PINs a server may be configured with
    Guesses,        \* PINs a client may send
    MaxGuesses,     \* bound: wrong PINs looked at in a behaviour
    MaxStreams      \* bound: streams registered in a behaviour

ASSUME SessionMachineConstants ==
    /\ ExpectedPins \subseteq Seq(Bytes)
    /\ Guesses \subseteq Seq(Bytes)
    /\ MaxGuesses \in Nat
    /\ MaxStreams \in Nat

VARIABLES
    role,
    session,
    now,
    guesses,    \* history: wrong PINs that were compared with the right one
    opener,     \* history: the PIN that made the session ready
    total       \* history: how many streams were registered

vars == <<role, session, now, guesses, opener, total>>

Roles == {"Server", "Client"}

Init ==
    /\ role \in Roles
    /\ \E pin_required \in BOOLEAN, pin \in ExpectedPins \cup {NoPin} :
           /\ role = "Client" => ~ pin_required
           /\ NewSession(pin_required, pin).ok
           /\ session = NewSession(pin_required, pin).session
    /\ now = 0
    /\ guesses = 0
    /\ opener = NoPin
    /\ total = 0

(* A call that returns before the session can be used for anything else,   *)
(* whether it succeeded or not.                                            *)
Call(res) ==
    /\ session' = res.session
    /\ UNCHANGED <<role, now, guesses, opener, total>>

ServerBegins == role = "Server" /\ Call(BeginAuthentication(session))

ServerChecks(pin) ==
    /\ role = "Server"
    /\ LET res == Authenticate(session, pin, now)
           looked == session.state = "Authenticating"
                         /\ ~ RetryDelayed(session, now)
       IN  /\ session' = res.session
           /\ guesses' = IF looked /\ res.out # "Ready" THEN guesses + 1
                                                        ELSE guesses
           /\ opener' = IF res.out = "Ready" THEN pin ELSE opener
    /\ guesses < MaxGuesses
    /\ UNCHANGED <<role, now, total>>

ClientIsAsked == role = "Client" /\ Call(AcceptAuthRequired(session))

ClientIsTold(success) ==
    role = "Client" /\ Call(AcceptAuthResult(session, success))

ClientEnters == role = "Client" /\ Call(MarkReady(session))

StreamCall(res) ==
    /\ total < MaxStreams
    /\ session' = res.session
    /\ total' = IF res.ok THEN total + 1 ELSE total
    /\ UNCHANGED <<role, now, guesses, opener>>

Opens(kind, path) == StreamCall(OpenStream(session, kind, path))

Accepts(id, kind, path) == StreamCall(AcceptStream(session, id, kind, path))

ClosesStream(id) == Call(CloseStream(session, id))

Closes == Call(Ok(CloseSession(session)))

Tick ==
    /\ now < MaxInstant
    /\ now' = now + 1
    /\ UNCHANGED <<role, session, guesses, opener, total>>

Next ==
    \/ ServerBegins
    \/ \E pin \in Guesses : ServerChecks(pin)
    \/ ClientIsAsked
    \/ \E success \in BOOLEAN : ClientIsTold(success)
    \/ ClientEnters
    \/ \E kind \in Kinds, path \in Paths : Opens(kind, path)
    \/ \E id \in U32, kind \in Kinds, path \in Paths : Accepts(id, kind, path)
    \/ \E id \in U32 : ClosesStream(id)
    \/ Closes
    \/ Tick

Spec == Init /\ [][Next]_vars

-----------------------------------------------------------------------------
TypeOK ==
    /\ role \in Roles
    /\ session \in Sessions
    /\ now \in 0..MaxInstant
    /\ guesses \in Nat
    /\ opener \in Seq(Bytes)
    /\ total \in Nat

(* A server that asks for PINs is ready only if the PIN that opened it is  *)
(* byte for byte the configured one, whatever its length and whatever was  *)
(* tried before: the comparison in fixed buffers neither pads a short PIN  *)
(* nor cuts a long one into a match.                                       *)
OnlyTheRightPinOpens ==
    (role = "Server" /\ session.pin_required /\ session.state = "Ready")
        => opener = session.expected_pin /\ Len(opener) = PIN_LEN

(* Whatever the order of calls, a session survives fewer failed attempts   *)
(* than max_auth_fails: at the limit it is closed.                         *)
LimitClosesSession ==
    session.pin_required =>
        /\ session.auth_attempts <= MaxAuthFails
        /\ session.auth_attempts = MaxAuthFails => session.state = "Closed"

(* Two PINs are never compared closer together than pin_fail_delay: n      *)
(* failures take at least n - 1 delays.  Only instants near the end of the *)
(* clock, where the delay itself does not fit, are excepted (there the     *)
(* attempt is neither counted nor delayed).                                *)
GuessesAreThrottled ==
    /\ session.auth_attempts > 0 =>
           (session.auth_attempts - 1) * PinFailDelay <= now
    /\ now + PinFailDelay <= MaxInstant => guesses = session.auth_attempts

(* No stream outlives the ready state of its session, and none exists      *)
(* before it, although close_stream and close are legal in every state.    *)
StreamsOnlyWhenReady ==
    Live(session.registry) # {} => session.state = "Ready"

(* The session implements the lifecycle it promises.                       *)
Lifecycle ==
    INSTANCE SessionLifecycle
        WITH Ids <- U32, Limit <- MaxAuthFails, phase <- session.state,
             streams <- Live(session.registry),
             failures <- session.auth_attempts

ImplementsLifecycle == Lifecycle!LSpec
=============================================================================
