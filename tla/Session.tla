-------------------------------- MODULE Session --------------------------------
(***************************************************************************)
(* The session state machine and its PIN policy (src/session/mod.rs,       *)
(* struct Session).                                                        *)
(*                                                                         *)
(* A session is a record: the state, the part of SessionConfig that        *)
(* differs between the two ends (pin_required), the PIN a server expects,  *)
(* the failed attempts, the instant before which no PIN is looked at       *)
(* (0 for None) and the stream registry.  Each method of the struct is an  *)
(* operator that returns a record with the verdict ok of the call (FALSE   *)
(* for Err) and the session it leaves.  A PIN is the sequence of its       *)
(* bytes.                                                                  *)
(***************************************************************************)
EXTENDS StreamRegistry, Sequences

CONSTANTS
    PIN_LEN,
    Bytes,          \* the bytes PINs are made of
    MaxAuthFails,   \* SessionConfig.max_auth_fails
    PinFailDelay,   \* SessionConfig.pin_fail_delay
    MaxInstant      \* the last instant an Instant can represent

ASSUME SessionConstants ==
    /\ PIN_LEN \in Nat \ {0}
    /\ Bytes \subseteq Nat
    /\ MaxAuthFails \in Nat
    /\ PinFailDelay \in Nat
    /\ MaxInstant \in Nat

States == {"Connecting", "Authenticating", "Ready", "Closed"}

SPACE == 32

(* trim().is_empty(), for a PIN *)
BlankPin(pin) == \A i \in 1..Len(pin) : pin[i] = SPACE

(* expected_pin: None.  No PIN compares equal to it.                       *)
NoPin == <<>>

Sessions == [state : States, pin_required : BOOLEAN, expected_pin : Seq(Bytes),
             auth_attempts : Nat, next_auth_allowed_at : Nat,
             registry : Registry]

-----------------------------------------------------------------------------
(* SessionConfig::validate and Session::new                                *)
NewSession(pin_required, expected_pin) ==
    [ok |-> pin_required => /\ MaxAuthFails # 0
                            /\ ~ BlankPin(expected_pin)
                            /\ Len(expected_pin) = PIN_LEN,
     session |-> [state |-> "Connecting", pin_required |-> pin_required,
                  expected_pin |-> expected_pin, auth_attempts |-> 0,
                  next_auth_allowed_at |-> 0, registry |-> NewRegistry]]

Err(s) == [ok |-> FALSE, session |-> s]

Ok(s)  == [ok |-> TRUE, session |-> s]

(* The server asks for a PIN, or lets the client in when none is required. *)
BeginAuthentication(s) ==
    IF s.state # "Connecting"
    THEN Err(s)
    ELSE Ok([s EXCEPT !.state = IF s.pin_required THEN "Authenticating"
                                                  ELSE "Ready"])

AcceptAuthRequired(s) ==
    IF s.state \in {"Connecting", "Authenticating"}
    THEN Ok([s EXCEPT !.state = "Authenticating"])
    ELSE Err(s)

AcceptAuthResult(s, success) ==
    IF s.state # "Authenticating"
    THEN Err(s)
    ELSE Ok([s EXCEPT !.next_auth_allowed_at = IF success THEN 0 ELSE @])

(* Defect used as a mutant: any session can be marked ready.               *)
MutMarkReadyAnywhere(s) ==
    Ok([s EXCEPT !.state = "Ready", !.next_auth_allowed_at = 0])

MarkReady(s) ==
    IF s.state \in {"Connecting", "Authenticating"}
    THEN Ok([s EXCEPT !.state = "Ready", !.next_auth_allowed_at = 0])
    ELSE Err(s)

(* Session::close *)
CloseSession(s) ==
    [s EXCEPT !.registry = RegClear(@), !.state = "Closed",
              !.next_auth_allowed_at = 0]

-----------------------------------------------------------------------------
(* The fixed buffer a PIN is copied into: cut at PIN_LEN, padded with 0.   *)
Fixed(pin) ==
    [i \in 1..PIN_LEN |-> IF i <= Len(pin) THEN pin[i] ELSE 0]

(* Defect used as a mutant: the buffers alone are compared.                *)
MutConstantTimePinEqNoLength(expected, provided) ==
    Fixed(expected) = Fixed(provided)

ConstantTimePinEq(expected, provided) ==
    /\ Fixed(expected) = Fixed(provided)
    /\ Len(expected) = PIN_LEN
    /\ Len(provided) = PIN_LEN

(* Defect used as a mutant: the retry delay is never waited for.           *)
MutRetryDelayedNever(s, now) == FALSE

(* The guard on next_auth_allowed_at.                                      *)
RetryDelayed(s, now) == now < s.next_auth_allowed_at

(* auth_attempts.saturating_add(1).  The u32 cannot reach its saturation:  *)
(* it stays below max_auth_fails for as long as it can grow.               *)
CountFailure(s) == [s EXCEPT !.auth_attempts = @ + 1]

(* Defect used as a mutant: the limit is tested with > instead of >=.      *)
MutLimitReachedLate(attempts) == attempts > MaxAuthFails

LimitReached(attempts) == attempts >= MaxAuthFails

(* Session::authenticate.  The result names the AuthOutcome in out ("Err"  *)
(* for an Err).  A wrong PIN whose retry delay does not fit an Instant is  *)
(* an Err and is not counted.                                              *)
Authenticate(s, pin, now) ==
    LET Outcome(o, t) == [ok |-> o # "Err", out |-> o, session |-> t]
        failed == CountFailure(s)
    IN  IF s.state # "Authenticating" \/ RetryDelayed(s, now)
        THEN Outcome("Err", s)
        ELSE IF ConstantTimePinEq(s.expected_pin, pin)
        THEN Outcome("Ready", [s EXCEPT !.state = "Ready",
                                        !.next_auth_allowed_at = 0])
        ELSE IF LimitReached(failed.auth_attempts)
        THEN Outcome("Closed", CloseSession(failed))
        ELSE IF now + PinFailDelay > MaxInstant
        THEN Outcome("Err", s)
        ELSE Outcome("Rejected", [failed EXCEPT !.next_auth_allowed_at =
                                                    now + PinFailDelay])

-----------------------------------------------------------------------------
(* The result of a registry method, put back in the session.               *)
WithRegistry(s, res) ==
    [ok |-> res.ok, id |-> res.id, session |-> [s EXCEPT !.registry = res.reg]]

(* Session::open_stream *)
OpenStream(s, kind, path) ==
    WithRegistry(s, IF s.state # "Ready" THEN Refused(s.registry)
                    ELSE RegOpen(s.registry, kind, path))

(* Session::accept_stream *)
AcceptStream(s, id, kind, path) ==
    WithRegistry(s, IF s.state # "Ready" THEN Refused(s.registry)
                    ELSE RegAccept(s.registry, id, kind, path))

(* Session::close_stream, which does not ask for the state *)
CloseStream(s, id) == WithRegistry(s, RegClose(s.registry, id))
=============================================================================
