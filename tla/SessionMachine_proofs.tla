------------------------- MODULE SessionMachine_proofs -------------------------
(***************************************************************************)
(* The session's invariants, and the refinement of its lifecycle, for      *)
(* every PIN length, limit, delay, clock and id space.                     *)
(***************************************************************************)
EXTENDS SessionMachine, Session_proofs

(* Where the delay comes from: it was set by the last failure, which is    *)
(* why the failures cannot come faster.                                    *)
Throttle ==
    /\ session.auth_attempts > 0 =>
           /\ (session.auth_attempts - 1) * PinFailDelay <= now
           /\ session.state = "Authenticating" =>
                  session.auth_attempts * PinFailDelay
                      <= session.next_auth_allowed_at
    /\ now + PinFailDelay <= MaxInstant => guesses = session.auth_attempts

(* Attempts are counted by servers that ask for a PIN and by no one else,  *)
(* and none before the PIN is asked for.                                   *)
OnlyServersCount ==
    /\ session.state = "Connecting" => session.auth_attempts = 0
    /\ role = "Client" => ~ session.pin_required
    /\ session.auth_attempts > 0 => session.pin_required
    /\ (role = "Server" /\ session.state = "Authenticating")
           => session.pin_required

IInv ==
    /\ TypeOK
    /\ Sound(session)
    /\ Throttle
    /\ OnlyServersCount
    /\ OnlyTheRightPinOpens

-----------------------------------------------------------------------------
(* IInv holds of a new session.                                            *)
LEMMA InvInit == Init => IInv
<1> SUFFICES ASSUME Init PROVE IInv
  OBVIOUS
<1>1. PICK pin_required \in BOOLEAN, pin \in ExpectedPins \cup {NoPin} :
          /\ role = "Client" => ~ pin_required
          /\ NewSession(pin_required, pin).ok
          /\ session = NewSession(pin_required, pin).session
  BY DEF Init
<1>2. pin \in Seq(Bytes) /\ NoPin \in Seq(Bytes)
  <2>1. NoPin \in Seq(Bytes)
    BY DEF NoPin
  <2>2. ExpectedPins \subseteq Seq(Bytes)
    BY SessionMachineConstants
  <2> QED
    BY <1>1, <2>1, <2>2, Zenon
<1>3. /\ session.state = "Connecting" /\ session.pin_required = pin_required
      /\ session.auth_attempts = 0 /\ session.registry = NewRegistry
      /\ pin_required => MaxAuthFails # 0
  BY <1>1 DEF NewSession
<1>4. WellFormed(NewRegistry) /\ Live(NewRegistry) = {} /\ NewRegistry \in Registry
  BY NewRegistryKeeps DEF WellFormed
<1>5. session \in Sessions
  BY <1>1, <1>2, <1>4 DEF NewSession, Sessions, States
<1>6. Sound(session)
  BY <1>3, <1>4, <1>5, SessionConstants DEF Sound
<1>7. TypeOK
  BY <1>2, <1>5, SessionConstants DEF Init, TypeOK, Roles
<1> QED
  BY <1>1, <1>3, <1>6, <1>7
  DEF Init, IInv, Throttle, OnlyServersCount, OnlyTheRightPinOpens

(* What a call may do to a session without touching the history: IInv      *)
(* speaks of nothing else.                                                 *)
LEMMA CallKeeps ==
    ASSUME IInv, Sound(session'),
           UNCHANGED <<role, now, guesses, opener>>, total' \in Nat,
           session'.auth_attempts = session.auth_attempts,
           session'.pin_required = session.pin_required,
           session'.expected_pin = session.expected_pin,
           \/ session'.state = session.state /\
                  session'.next_auth_allowed_at = session.next_auth_allowed_at
           \/ session'.state = "Closed"
           \/ session'.state = "Authenticating" /\ session.auth_attempts = 0
                  /\ (role = "Server" => session.pin_required)
           \/ session'.state = "Ready" /\
                  (role = "Client" \/ ~ session.pin_required)
    PROVE  IInv'
<1>1. session' \in Sessions /\ session \in Sessions /\ Sound(session)
  BY DEF Sound, IInv
<1>2. TypeOK'
  BY <1>1 DEF IInv, TypeOK
<1>3. Throttle'
  BY <1>1, SessionConstants DEF IInv, Throttle, TypeOK, Sessions
<1>4. OnlyServersCount'
  <2>1. session.auth_attempts > 0 => session.pin_required
    BY DEF IInv, OnlyServersCount
  <2>2. session'.state = "Connecting" => session'.auth_attempts = 0
    BY DEF IInv, OnlyServersCount
  <2>3. (role = "Server" /\ session'.state = "Authenticating")
            => session.pin_required
    BY DEF IInv, OnlyServersCount
  <2> QED
    BY <2>1, <2>2, <2>3 DEF IInv, OnlyServersCount
<1>5. OnlyTheRightPinOpens'
  <2>1. CASE session'.state = session.state
    BY <2>1 DEF IInv, OnlyTheRightPinOpens
  <2>2. CASE session'.state # session.state
    BY <2>2 DEF IInv, OnlyTheRightPinOpens, OnlyServersCount
  <2> QED
    BY <2>1, <2>2
<1> QED
  BY <1>2, <1>3, <1>4, <1>5 DEF IInv

(* What a checked PIN does to the session and to the history: nothing when *)
(* no PIN is looked at, or one of four outcomes.                           *)
LEMMA ChecksStep ==
    ASSUME IInv, NEW pin \in Guesses, ServerChecks(pin)
    PROVE  /\ Sound(session')
           /\ session'.pin_required = session.pin_required
           /\ session'.expected_pin = session.expected_pin
           /\ \/ /\ session' = session /\ guesses' = guesses
                 /\ opener' = opener
              \/ /\ session.state = "Authenticating"
                 /\ ~ RetryDelayed(session, now)
                 /\ \/ /\ session'.state = "Ready"
                       /\ session'.auth_attempts = session.auth_attempts
                       /\ session'.registry = session.registry
                       /\ guesses' = guesses /\ opener' = pin
                       /\ pin = session.expected_pin /\ Len(pin) = PIN_LEN
                    \/ /\ session'.state = "Closed"
                       /\ session'.auth_attempts = session.auth_attempts + 1
                       /\ session'.auth_attempts = MaxAuthFails
                       /\ Live(session'.registry) = {}
                       /\ guesses' = guesses + 1 /\ opener' = opener
                    \/ /\ session' = session
                       /\ now + PinFailDelay > MaxInstant
                       /\ guesses' = guesses + 1 /\ opener' = opener
                    \/ /\ session'.state = "Authenticating"
                       /\ session'.auth_attempts = session.auth_attempts + 1
                       /\ session'.auth_attempts < MaxAuthFails
                       /\ session'.registry = session.registry
                       /\ session'.next_auth_allowed_at = now + PinFailDelay
                       /\ guesses' = guesses + 1 /\ opener' = opener
<1> DEFINE res == Authenticate(session, pin, now)
           looked == session.state = "Authenticating" /\ ~ RetryDelayed(session, now)
<1>1. /\ role = "Server" /\ session' = res.session
      /\ guesses' = IF looked /\ res.out # "Ready" THEN guesses + 1 ELSE guesses
      /\ opener' = IF res.out = "Ready" THEN pin ELSE opener
  BY DEF ServerChecks
<1>2. Sound(session) /\ now \in Nat /\ pin \in Seq(Bytes)
  BY SessionConstants, SessionMachineConstants DEF IInv, TypeOK
<1>3. session.state = "Authenticating" => session.pin_required
  BY <1>1 DEF IInv, OnlyServersCount
<1>4. res = Authenticate(session, pin, now)
  OBVIOUS
<1> HIDE DEF res
<1>5. /\ Sound(res.session)
      /\ res.session.pin_required = session.pin_required
      /\ res.session.expected_pin = session.expected_pin
      /\ \/ /\ ~ looked /\ res.out = "Err" /\ res.session = session
         \/ /\ looked
            /\ \/ /\ res.out = "Ready"
                  /\ res.session.state = "Ready"
                  /\ res.session.auth_attempts = session.auth_attempts
                  /\ res.session.registry = session.registry
                  /\ pin = session.expected_pin /\ Len(pin) = PIN_LEN
               \/ /\ res.out = "Closed"
                  /\ res.session.state = "Closed"
                  /\ res.session.auth_attempts = session.auth_attempts + 1
                  /\ res.session.auth_attempts = MaxAuthFails
                  /\ Live(res.session.registry) = {}
               \/ /\ res.out = "Err"
                  /\ res.session = session
                  /\ now + PinFailDelay > MaxInstant
               \/ /\ res.out = "Rejected"
                  /\ res.session.state = "Authenticating"
                  /\ res.session.auth_attempts = session.auth_attempts + 1
                  /\ res.session.auth_attempts < MaxAuthFails
                  /\ res.session.registry = session.registry
                  /\ res.session.next_auth_allowed_at = now + PinFailDelay
  <2>1. Checked(session, pin, now, res)
    BY <1>2, <1>3, <1>4, AuthenticateSound
  <2> QED
    BY <2>1 DEF Checked
<1> QED
  BY <1>1, <1>5

(* A checked PIN preserves IInv: the one step that moves the history.      *)
LEMMA ChecksKeep ==
    ASSUME IInv, NEW pin \in Guesses, ServerChecks(pin)
    PROVE  IInv'
<1>1. role = "Server" /\ role' = role /\ now' = now /\ total' = total
  BY DEF ServerChecks
<1>2. /\ session \in Sessions
      /\ now \in Nat /\ guesses \in Nat /\ opener \in Seq(Bytes)
      /\ pin \in Seq(Bytes) /\ session.auth_attempts \in Nat
      /\ session.next_auth_allowed_at \in Nat
  BY SessionConstants, SessionMachineConstants DEF IInv, TypeOK, Sessions
<1>3. session.state = "Authenticating" => session.pin_required
  BY <1>1 DEF IInv, OnlyServersCount
<1>4. /\ Sound(session') /\ session' \in Sessions
      /\ session'.pin_required = session.pin_required
      /\ session'.expected_pin = session.expected_pin
  BY ChecksStep DEF Sound
<1>5. TypeOK'
  BY <1>1, <1>2, <1>4, ChecksStep DEF IInv, TypeOK
<1>6. Throttle'
  <2>1. CASE session' = session /\ guesses' = guesses
    BY <1>1, <2>1 DEF IInv, Throttle
  <2>2. CASE session.state = "Authenticating" /\ ~ RetryDelayed(session, now)
    <3>1. session.next_auth_allowed_at <= now
      BY <1>2, <2>2 DEF RetryDelayed
    <3>2. session.auth_attempts * PinFailDelay \in Nat
      BY <1>2, SessionConstants
    <3>3. session.auth_attempts * PinFailDelay <= now
      <4>1. CASE session.auth_attempts = 0
        BY <1>2, <4>1, SessionConstants
      <4>2. CASE session.auth_attempts > 0
        <5>1. session.auth_attempts * PinFailDelay <= session.next_auth_allowed_at
          BY <2>2, <4>2 DEF IInv, Throttle
        <5> QED
          BY <1>2, <3>1, <3>2, <5>1
      <4> QED
        BY <1>2, <4>1, <4>2
    <3>4. /\ (session.auth_attempts + 1) * PinFailDelay
                 = session.auth_attempts * PinFailDelay + PinFailDelay
          /\ (session.auth_attempts + 1) - 1 = session.auth_attempts
      BY <1>2, SessionConstants
    <3>5. now + PinFailDelay <= MaxInstant => guesses = session.auth_attempts
      BY DEF IInv, Throttle
    <3>6. CASE session'.state = "Ready"
      BY <1>1, <2>2, <3>6, ChecksStep DEF IInv, Throttle
    <3>7. CASE session'.state = "Closed"
      BY <1>1, <1>2, <2>2, <3>3, <3>4, <3>5, <3>7, ChecksStep DEF Throttle
    <3>8. CASE session' = session
      BY <1>1, <1>2, <2>2, <3>8, ChecksStep, SessionConstants DEF IInv, Throttle
    <3>9. CASE session'.state = "Authenticating" /\ session' # session
      <4>1. /\ session'.auth_attempts = session.auth_attempts + 1
            /\ session'.next_auth_allowed_at = now + PinFailDelay
            /\ guesses' = guesses + 1
        BY <3>9, ChecksStep
      <4>2. session'.auth_attempts * PinFailDelay <= session'.next_auth_allowed_at
        BY <1>2, <3>2, <3>3, <3>4, <4>1, SessionConstants
      <4>3. (session'.auth_attempts - 1) * PinFailDelay <= now
        BY <3>3, <3>4, <4>1
      <4> QED
        BY <1>1, <3>5, <4>1, <4>2, <4>3 DEF Throttle
    <3> QED
      BY <2>2, <3>6, <3>7, <3>8, <3>9, ChecksStep
  <2> QED
    BY <2>1, <2>2, ChecksStep
<1>7. OnlyServersCount'
  BY <1>1, <1>2, <1>3, <1>4, ChecksStep DEF IInv, OnlyServersCount
<1>8. OnlyTheRightPinOpens'
  BY <1>1, <1>4, ChecksStep DEF IInv, OnlyTheRightPinOpens
<1> QED
  BY <1>4, <1>5, <1>6, <1>7, <1>8 DEF IInv

(* Every call preserves IInv, the refused ones and the passage of time     *)
(* included.                                                               *)
LEMMA InvNext == IInv /\ [Next]_vars => IInv'
<1> SUFFICES ASSUME IInv, [Next]_vars PROVE IInv'
  OBVIOUS
<1>0. /\ Sound(session) /\ session \in Sessions /\ total \in Nat
      /\ WellFormed(session.registry)
  BY DEF IInv, Sound, TypeOK
<1>1. CASE ServerBegins
  <2>1. session' = BeginAuthentication(session).session
    BY <1>1 DEF ServerBegins, Call
  <2>2. CASE session.state # "Connecting"
    <3>1. session' = session
      BY <2>1, <2>2 DEF BeginAuthentication, Err
    <3> QED
      BY <1>0, <1>1, <3>1, CallKeeps DEF ServerBegins, Call
  <2>3. CASE session.state = "Connecting"
    <3> DEFINE st == IF session.pin_required THEN "Authenticating" ELSE "Ready"
    <3>1. session' = [session EXCEPT !.state = st]
      BY <2>1, <2>3 DEF BeginAuthentication, Ok
    <3>2. st \in States
      BY DEF States
    <3> HIDE DEF st
    <3>3. /\ session' \in Sessions /\ session'.state = st
          /\ session'.auth_attempts = session.auth_attempts
          /\ session'.registry = session.registry
          /\ session'.pin_required = session.pin_required
          /\ session'.expected_pin = session.expected_pin
      BY <1>0, <3>1, <3>2 DEF Sessions
    <3>4. st \in {"Authenticating", "Ready"} /\ session.auth_attempts = 0
      BY <2>3 DEF st, IInv, OnlyServersCount
    <3>5. Sound(session')
      BY <1>0, <2>3, <3>3, <3>4 DEF Sound
    <3> QED
      BY <1>0, <1>1, <3>3, <3>4, <3>5, CallKeeps DEF ServerBegins, Call, st
  <2> QED
    BY <2>2, <2>3
<1>2. ASSUME NEW pin \in Guesses, ServerChecks(pin) PROVE IInv'
  BY <1>2, ChecksKeep
<1>3. CASE ClientIsAsked
  <2>1. /\ session' = AcceptAuthRequired(session).session /\ role = "Client"
        /\ UNCHANGED <<role, now, guesses, opener, total>>
    BY <1>3 DEF ClientIsAsked, Call
  <2>2. CASE session.state \notin {"Connecting", "Authenticating"}
    BY <1>0, <2>1, <2>2, CallKeeps DEF AcceptAuthRequired, Err
  <2>3. CASE session.state \in {"Connecting", "Authenticating"}
    <3>1. session' = [session EXCEPT !.state = "Authenticating"]
      BY <2>1, <2>3 DEF AcceptAuthRequired, Ok
    <3>2. /\ session' \in Sessions /\ session'.state = "Authenticating"
          /\ session'.auth_attempts = session.auth_attempts
          /\ session'.registry = session.registry
          /\ session'.pin_required = session.pin_required
          /\ session'.expected_pin = session.expected_pin
      BY <1>0, <3>1 DEF Sessions, States
    <3>3. ~ session.pin_required /\ session.auth_attempts = 0
      BY <1>0, <2>1 DEF IInv, OnlyServersCount, Sessions
    <3>4. Sound(session')
      BY <1>0, <2>3, <3>2, <3>3 DEF Sound
    <3> QED
      BY <1>0, <2>1, <3>2, <3>3, <3>4, CallKeeps
  <2> QED
    BY <2>2, <2>3
<1>4. ASSUME NEW success \in BOOLEAN, ClientIsTold(success) PROVE IInv'
  <2>1. /\ session' = AcceptAuthResult(session, success).session
        /\ role = "Client" /\ UNCHANGED <<role, now, guesses, opener, total>>
    BY <1>4 DEF ClientIsTold, Call
  <2>2. CASE session.state # "Authenticating"
    BY <1>0, <2>1, <2>2, CallKeeps DEF AcceptAuthResult, Err
  <2>3. CASE session.state = "Authenticating"
    <3> DEFINE n == IF success THEN 0 ELSE session.next_auth_allowed_at
    <3>1. session' = Moved(session, "Authenticating", n)
      <4>1. session' = [session EXCEPT !.next_auth_allowed_at = n]
        BY <2>1, <2>3 DEF AcceptAuthResult, Ok
      <4> QED
        BY <1>0, <2>3, <4>1 DEF Moved, Sessions
    <3>2. n \in Nat /\ "Authenticating" \in States
      BY <1>0 DEF Sessions, States
    <3> HIDE DEF n
    <3>3. ~ session.pin_required /\ session.auth_attempts = 0
      BY <1>0, <2>1 DEF IInv, OnlyServersCount, Sessions
    <3>4. /\ session' \in Sessions /\ session'.state = "Authenticating"
          /\ session'.auth_attempts = session.auth_attempts
          /\ session'.registry = session.registry
          /\ session'.pin_required = session.pin_required
          /\ session'.expected_pin = session.expected_pin
      BY <1>0, <3>1, <3>2, MovedSession
    <3>5. Sound(session')
      BY <1>0, <2>3, <3>3, <3>4 DEF Sound
    <3> QED
      BY <1>0, <2>1, <3>3, <3>4, <3>5, CallKeeps
  <2> QED
    BY <2>2, <2>3
<1>5. CASE ClientEnters
  <2>1. /\ session' = MarkReady(session).session /\ role = "Client"
        /\ UNCHANGED <<role, now, guesses, opener, total>>
    BY <1>5 DEF ClientEnters, Call
  <2>2. CASE session.state \notin {"Connecting", "Authenticating"}
    BY <1>0, <2>1, <2>2, CallKeeps DEF MarkReady, Err
  <2>3. CASE session.state \in {"Connecting", "Authenticating"}
    <3>1. session' = Moved(session, "Ready", 0)
      BY <2>1, <2>3 DEF MarkReady, Ok, Moved
    <3>2. "Ready" \in States /\ 0 \in Nat
      BY DEF States
    <3>3. /\ session' \in Sessions /\ session'.state = "Ready"
          /\ session'.auth_attempts = session.auth_attempts
          /\ session'.registry = session.registry
          /\ session'.pin_required = session.pin_required
          /\ session'.expected_pin = session.expected_pin
      BY <1>0, <3>1, <3>2, MovedSession
    <3>4. ~ session.pin_required
      BY <2>1 DEF IInv, OnlyServersCount
    <3>5. Sound(session')
      BY <1>0, <3>3, <3>4 DEF Sound
    <3> QED
      BY <1>0, <2>1, <3>3, <3>4, <3>5, CallKeeps
  <2> QED
    BY <2>2, <2>3
<1>6. ASSUME NEW kind \in Kinds, NEW path \in Paths, Opens(kind, path)
      PROVE  IInv'
  <2> DEFINE res == IF session.state # "Ready" THEN Refused(session.registry)
                    ELSE RegOpen(session.registry, kind, path)
  <2>1. /\ session' = [session EXCEPT !.registry = res.reg] /\ total' \in Nat
        /\ UNCHANGED <<role, now, guesses, opener>>
    BY <1>0, <1>6 DEF Opens, StreamCall, OpenStream, WithRegistry
  <2>2. /\ WellFormed(res.reg)
        /\ session.state = "Ready" \/ res.reg = session.registry
    BY <1>0, OpenKeeps DEF Refused
  <2> HIDE DEF res
  <2> QED
    BY <1>0, <2>1, <2>2, WithRegistrySound, CallKeeps
<1>7. ASSUME NEW id \in U32, NEW kind \in Kinds, NEW path \in Paths,
             Accepts(id, kind, path)
      PROVE  IInv'
  <2> DEFINE res == IF session.state # "Ready" THEN Refused(session.registry)
                    ELSE RegAccept(session.registry, id, kind, path)
  <2>1. /\ session' = [session EXCEPT !.registry = res.reg] /\ total' \in Nat
        /\ UNCHANGED <<role, now, guesses, opener>>
    BY <1>0, <1>7 DEF Accepts, StreamCall, AcceptStream, WithRegistry
  <2>2. /\ WellFormed(res.reg)
        /\ session.state = "Ready" \/ res.reg = session.registry
    BY <1>0, AcceptKeeps DEF Refused
  <2> HIDE DEF res
  <2> QED
    BY <1>0, <2>1, <2>2, WithRegistrySound, CallKeeps
<1>8. ASSUME NEW id \in U32, ClosesStream(id) PROVE IInv'
  <2> DEFINE res == RegClose(session.registry, id)
  <2>1. /\ session' = [session EXCEPT !.registry = res.reg]
        /\ UNCHANGED <<role, now, guesses, opener, total>>
    BY <1>8 DEF ClosesStream, Call, CloseStream, WithRegistry
  <2>2. res.ok \in BOOLEAN
    BY DEF RegClose, Refused
  <2>3. WellFormed(res.reg) /\ Live(res.reg) \subseteq Live(session.registry)
    BY <1>0, <2>2, CloseKeeps
  <2> HIDE DEF res
  <2> QED
    BY <1>0, <2>1, <2>3, WithRegistrySound, CallKeeps
<1>9. CASE Closes
  <2>1. /\ session' = CloseSession(session)
        /\ UNCHANGED <<role, now, guesses, opener, total>>
    BY <1>9 DEF Closes, Call, Ok
  <2> QED
    BY <1>0, <2>1, CloseSessionSound, CallKeeps DEF Sound
<1>10. CASE Tick
  <2>1. /\ now \in Nat /\ now < MaxInstant /\ now' = now + 1
        /\ UNCHANGED <<role, session, guesses, opener, total>>
    BY <1>10, SessionConstants DEF Tick, IInv, TypeOK
  <2>2. TypeOK' /\ Sound(session)' /\ OnlyServersCount' /\ OnlyTheRightPinOpens'
    BY <2>1, SessionConstants
    DEF IInv, TypeOK, OnlyServersCount, OnlyTheRightPinOpens
  <2>3. (session.auth_attempts - 1) * PinFailDelay \in Int
    BY <1>0, SessionConstants DEF Sessions
  <2>4. Throttle'
    BY <2>1, <2>3, SessionConstants DEF IInv, Throttle
  <2> QED
    BY <2>2, <2>4 DEF IInv
<1>11. CASE UNCHANGED vars
  BY <1>0, <1>11 DEF vars, IInv, TypeOK, Throttle, OnlyServersCount, OnlyTheRightPinOpens
<1> QED
  BY <1>1, <1>2, <1>3, <1>4, <1>5, <1>6, <1>7, <1>8, <1>9, <1>10, <1>11 DEF Next

(* The invariant of every reachable state.                                 *)
LEMMA Invariance == Spec => []IInv
<1> QED
  BY InvInit, InvNext, PTL DEF Spec

-----------------------------------------------------------------------------
(* Every reachable state of a session is well typed.                       *)
THEOREM TypeCorrect == Spec => []TypeOK
<1>1. IInv => TypeOK
  BY DEF IInv
<1> QED
  BY <1>1, Invariance, PTL

(* A server that asks for PINs becomes ready with the configured PIN and   *)
(* no other, for every PIN length and every sequence of guesses.           *)
THEOREM PinSafe == Spec => []OnlyTheRightPinOpens
<1>1. IInv => OnlyTheRightPinOpens
  BY DEF IInv
<1> QED
  BY <1>1, Invariance, PTL

(* A session is closed once max_auth_fails PINs were wrong.                *)
THEOREM LimitSafe == Spec => []LimitClosesSession
<1>1. IInv => LimitClosesSession
  BY DEF IInv, Sound, LimitClosesSession
<1> QED
  BY <1>1, Invariance, PTL

(* Wrong PINs are at least pin_fail_delay apart, and every one is counted  *)
(* for as long as the delay fits the clock.                                *)
THEOREM ThrottleSafe == Spec => []GuessesAreThrottled
<1>1. IInv => GuessesAreThrottled
  BY DEF IInv, Throttle, GuessesAreThrottled
<1> QED
  BY <1>1, Invariance, PTL

(* Streams exist in ready sessions only.                                   *)
THEOREM StreamsSafe == Spec => []StreamsOnlyWhenReady
<1>1. IInv => StreamsOnlyWhenReady
  BY DEF IInv, Sound, StreamsOnlyWhenReady
<1> QED
  BY <1>1, Invariance, PTL

-----------------------------------------------------------------------------
(* A call that refused to do anything, or changed nothing the lifecycle    *)
(* sees, is a stuttering step of it.                                       *)
LEMMA StutterRefines ==
    ASSUME session'.state = session.state,
           session'.registry = session.registry,
           session'.auth_attempts = session.auth_attempts
    PROVE  UNCHANGED Lifecycle!lvars
  BY DEF Lifecycle!lvars, Live

(* Each call is a step of the lifecycle or a stuttering one.               *)
LEMMA StepRefines ==
    ASSUME IInv, [Next]_vars PROVE [Lifecycle!LNext]_(Lifecycle!lvars)
<1>0. /\ Sound(session) /\ session \in Sessions /\ WellFormed(session.registry)
      /\ Live(session.registry) # {} => session.state = "Ready"
  BY DEF IInv, Sound
<1>1. CASE ServerBegins
  <2>1. session' = BeginAuthentication(session).session
    BY <1>1 DEF ServerBegins, Call
  <2>2. CASE session.state # "Connecting"
    BY <2>1, <2>2, StutterRefines DEF BeginAuthentication, Err
  <2>3. CASE session.state = "Connecting"
    <3>1. /\ session'.state \in {"Authenticating", "Ready"}
          /\ session'.registry = session.registry
          /\ session'.auth_attempts = session.auth_attempts
      BY <1>0, <2>1, <2>3 DEF BeginAuthentication, Ok, Sessions
    <3> QED
      BY <2>3, <3>1 DEF Lifecycle!LNext, Lifecycle!Ask, Lifecycle!Enter, Live
  <2> QED
    BY <2>2, <2>3
<1>2. ASSUME NEW pin \in Guesses, ServerChecks(pin)
      PROVE  [Lifecycle!LNext]_(Lifecycle!lvars)
  <2>1. session.auth_attempts \in Nat
    BY <1>0 DEF Sessions
  <2>2. \/ session' = session
        \/ /\ session.state = "Authenticating"
           /\ \/ /\ session'.state = "Ready"
                 /\ session'.auth_attempts = session.auth_attempts
                 /\ session'.registry = session.registry
              \/ /\ session'.state = "Closed"
                 /\ session'.auth_attempts = session.auth_attempts + 1
                 /\ session'.auth_attempts = MaxAuthFails
                 /\ Live(session'.registry) = {}
              \/ /\ session'.state = "Authenticating"
                 /\ session'.auth_attempts = session.auth_attempts + 1
                 /\ session'.auth_attempts < MaxAuthFails
                 /\ session'.registry = session.registry
    BY <1>2, ChecksStep
  <2>3. CASE session' = session
    BY <2>3, StutterRefines
  <2>4. CASE session'.state = "Ready" /\ session.state = "Authenticating"
    BY <2>2, <2>4 DEF Lifecycle!LNext, Lifecycle!Enter, Live, Lifecycle!lvars
  <2>5. CASE session'.state = "Closed" /\ session.state = "Authenticating"
    BY <1>0, <2>2, <2>5 DEF Lifecycle!LNext, Lifecycle!GiveUp, Live
  <2>6. CASE /\ session'.state = "Authenticating" /\ session.state = "Authenticating"
             /\ session' # session
    BY <2>1, <2>2, <2>6 DEF Lifecycle!LNext, Lifecycle!Reject, Live
  <2> QED
    BY <2>2, <2>3, <2>4, <2>5, <2>6
<1>3. CASE ClientIsAsked
  <2>1. session' = AcceptAuthRequired(session).session
    BY <1>3 DEF ClientIsAsked, Call
  <2>2. \/ session' = session
        \/ /\ session.state \in {"Connecting", "Authenticating"}
           /\ session'.state = "Authenticating"
           /\ session'.registry = session.registry
           /\ session'.auth_attempts = session.auth_attempts
    BY <1>0, <2>1 DEF AcceptAuthRequired, Ok, Err, Sessions
  <2>3. CASE session'.state = session.state
    BY <2>2, <2>3, StutterRefines
  <2>4. CASE session'.state # session.state
    BY <2>2, <2>4 DEF Lifecycle!LNext, Lifecycle!Ask, Live
  <2> QED
    BY <2>3, <2>4
<1>4. ASSUME NEW success \in BOOLEAN, ClientIsTold(success)
      PROVE  [Lifecycle!LNext]_(Lifecycle!lvars)
  <2>1. session' = AcceptAuthResult(session, success).session
    BY <1>4 DEF ClientIsTold, Call
  <2>2. /\ session'.state = session.state
        /\ session'.registry = session.registry
        /\ session'.auth_attempts = session.auth_attempts
    BY <1>0, <2>1 DEF AcceptAuthResult, Ok, Err, Sessions
  <2> QED
    BY <2>2, StutterRefines
<1>5. CASE ClientEnters
  <2>1. session' = MarkReady(session).session
    BY <1>5 DEF ClientEnters, Call
  <2>2. \/ session' = session
        \/ /\ session.state \in {"Connecting", "Authenticating"}
           /\ session'.state = "Ready"
           /\ session'.registry = session.registry
           /\ session'.auth_attempts = session.auth_attempts
    BY <1>0, <2>1 DEF MarkReady, Ok, Err, Sessions
  <2>3. CASE session'.state = session.state
    BY <2>2, <2>3, StutterRefines
  <2>4. CASE session'.state # session.state
    BY <2>2, <2>4 DEF Lifecycle!LNext, Lifecycle!Enter, Live
  <2> QED
    BY <2>3, <2>4
<1>6. ASSUME NEW r, session' = [session EXCEPT !.registry = r],
             Live(r) \subseteq U32, session.state = "Ready"
      PROVE  [Lifecycle!LNext]_(Lifecycle!lvars)
  <2>1. /\ session'.state = session.state
        /\ session'.registry = r
        /\ session'.auth_attempts = session.auth_attempts
    BY <1>0, <1>6 DEF Sessions
  <2>2. Live(session.registry)' \in SUBSET U32
    BY <1>6, <2>1 DEF Live
  <2> QED
    BY <1>6, <2>1, <2>2 DEF Lifecycle!LNext, Lifecycle!Use
<1>7. ASSUME NEW r, session' = [session EXCEPT !.registry = r],
             r = session.registry
      PROVE  [Lifecycle!LNext]_(Lifecycle!lvars)
  <2>1. /\ session'.state = session.state
        /\ session'.registry = session.registry
        /\ session'.auth_attempts = session.auth_attempts
    BY <1>0, <1>7 DEF Sessions
  <2> QED
    BY <2>1, StutterRefines
<1>8. ASSUME NEW kind \in Kinds, NEW path \in Paths, Opens(kind, path)
      PROVE  [Lifecycle!LNext]_(Lifecycle!lvars)
  <2>1. PICK r : /\ session' = [session EXCEPT !.registry = r]
                 /\ session.state # "Ready" => r = session.registry
    BY <1>8 DEF Opens, StreamCall, OpenStream, WithRegistry, Refused
  <2> QED
    BY <1>6, <1>7, <2>1 DEF Live
<1>9. ASSUME NEW id \in U32, NEW kind \in Kinds, NEW path \in Paths,
             Accepts(id, kind, path)
      PROVE  [Lifecycle!LNext]_(Lifecycle!lvars)
  <2>1. PICK r : /\ session' = [session EXCEPT !.registry = r]
                 /\ session.state # "Ready" => r = session.registry
    BY <1>9 DEF Accepts, StreamCall, AcceptStream, WithRegistry, Refused
  <2> QED
    BY <1>6, <1>7, <2>1 DEF Live
<1>10. ASSUME NEW id \in U32, ClosesStream(id)
       PROVE  [Lifecycle!LNext]_(Lifecycle!lvars)
  <2>1. session' = [session EXCEPT !.registry = RegClose(session.registry, id).reg]
    BY <1>10 DEF ClosesStream, Call, CloseStream, WithRegistry
  <2>2. CASE session.state = "Ready"
    BY <1>6, <2>1, <2>2 DEF Live
  <2>3. CASE session.state # "Ready"
    <3>1. RegClose(session.registry, id).reg = session.registry
      BY <1>0, <2>3 DEF RegClose, Refused
    <3> QED
      BY <1>7, <2>1, <3>1
  <2> QED
    BY <2>2, <2>3
<1>11. CASE Closes
  <2>1. session' = CloseSession(session)
    BY <1>11 DEF Closes, Call, Ok
  <2>2. /\ session'.state = "Closed" /\ Live(session'.registry) = {}
        /\ session'.auth_attempts = session.auth_attempts
    BY <1>0, <2>1, CloseSessionSound DEF Sound
  <2> QED
    BY <2>2 DEF Lifecycle!LNext, Lifecycle!Close, Live
<1>12. CASE Tick \/ UNCHANGED vars
  BY <1>12, StutterRefines DEF Tick, vars
<1> QED
  BY <1>1, <1>2, <1>3, <1>4, <1>5, <1>8, <1>9, <1>10, <1>11, <1>12 DEF Next

(* A session implements SessionLifecycle: it moves forward only, closed is *)
(* final, and streams and failures change in the phases they belong to.    *)
THEOREM LifecycleRefined == Spec => ImplementsLifecycle
<1>1. Init => Lifecycle!LInit
  <2> SUFFICES ASSUME Init PROVE Lifecycle!LInit
    OBVIOUS
  <2>1. /\ session.state = "Connecting" /\ session.auth_attempts = 0
        /\ session.registry = NewRegistry
    BY DEF Init, NewSession
  <2> QED
    BY <2>1, NewRegistryKeeps DEF Lifecycle!LInit
<1>2. IInv /\ [Next]_vars => [Lifecycle!LNext]_(Lifecycle!lvars)
  BY StepRefines
<1> QED
  BY <1>1, <1>2, Invariance, PTL DEF Spec, ImplementsLifecycle, Lifecycle!LSpec
=============================================================================
