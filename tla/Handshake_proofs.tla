---------------------------- MODULE Handshake_proofs ----------------------------
(***************************************************************************)
(* The handshake of two runtimes, for every PIN list, limit, delay, id     *)
(* space and number of faults.                                             *)
(***************************************************************************)
EXTENDS Handshake, Session_proofs, SequenceTheorems

(* A runtime between two calls.  Only a server that asks for a PIN waits   *)
(* for one.                                                                *)
SoundRuntime(r) ==
    /\ r \in Runtimes /\ Sound(r.session)
    /\ r.role = "Server" /\ r.session.state = "Authenticating" =>
           r.session.pin_required

Places == {"idle", "handshake", "up", "ended", "closed"}

HandshakeTypes ==
    /\ rt \in [Sides -> Runtimes]
    /\ \A x \in Sides : SoundRuntime(rt[x]) /\ rt[x].role = x
    /\ proc \in [Sides -> Places]
    /\ inbox \in [Sides -> Seq(Frames)]
    /\ closed \in SUBSET Sides
    /\ now \in Nat
    /\ faults \in Nat
    /\ strays \in SUBSET Sides

Carries(x, type) == \E i \in 1..Len(inbox[x]) : inbox[x][i].type = type

(* Nothing is under way to x but the end of the session.                   *)
OnlyFins(x) == \A i \in 1..Len(inbox[x]) : inbox[x][i].type = "fin"

(* A side that closed its peer is done.                                    *)
ClosedIsDone == \A x \in closed : proc[x] \in {"ended", "closed"}

(* Only a side that closed its peer has sent a FIN.                        *)
FinsFromClosed == \A x \in Sides : Carries(x, "fin") => Other(x) \in closed

(* To the server there is at most one message under way, and what the      *)
(* client remembers of its own part fits it.                               *)
ToServer ==
    \A i \in 1..Len(inbox[S]) :
        LET type == inbox[S][i].type
        IN  /\ type \in {"connect", "auth", "fin"}
            /\ type # "fin" => i = 1 /\ ~ rt[C].ready_seen /\ proc[C] # "idle"
            /\ type = "connect" => ~ rt[C].auth_pending
            /\ type = "auth" => rt[C].auth_pending

(* To the client there is at most one answer under way: perhaps the result *)
(* of a PIN, and then at most one of auth_required, ready and error.       *)
ToClient ==
    \A i \in 1..Len(inbox[C]) :
        LET type == inbox[C][i].type
        IN  /\ type \in {"auth_required", "auth_result", "ready", "error", "fin"}
            /\ type = "auth_result" => i = 1 /\ rt[C].auth_pending
            /\ type \in {"auth_required", "ready"} =>
                   /\ ~ rt[C].ready_seen
                   /\ i = 1 => ~ rt[C].auth_pending
                   /\ inbox[C][i].ok
            /\ type = "error" => S \in closed
            /\ type # "auth_result" =>
                   \A j \in i + 1..Len(inbox[C]) : inbox[C][j].type = "fin"

(* Before its connect nothing concerns a client.                           *)
ClientIdle ==
    proc[C] = "idle" =>
        /\ OnlyFins(S) /\ OnlyFins(C)
        /\ ~ rt[C].auth_pending /\ ~ rt[C].ready_seen

ClientUp == proc[C] = "up" => OnlyFins(C) /\ rt[C].ready_seen

ServerUp ==
    proc[S] = "up" =>
        OnlyFins(S) /\ ~ Carries(C, "auth_required") /\ proc[C] # "idle"

(* The two ends speak in turn: while one has something to read the other   *)
(* has not.                                                                *)
InTurn == OnlyFins(S) \/ OnlyFins(C)

Talk ==
    /\ FinsFromClosed /\ ToServer /\ ToClient /\ InTurn
    /\ ClientIdle /\ ClientUp /\ ServerUp

(* The server asks for a PIN only as long as it may count one more failure.*)
PinBudget ==
    /\ rt[S].session.pin_required
    /\ \/ Carries(C, "auth_required") \/ Carries(S, "connect")
       \/ Carries(S, "auth") \/ proc[C] = "idle"
    => rt[S].session.auth_attempts < MaxAuthFails

(* ready_seen of the server precedes every ready on its way and what the   *)
(* client makes of it.                                                     *)
ReadyFollows ==
    C \notin strays /\ (State(C) = "Ready" \/ Carries(C, "ready")) =>
        rt[S].ready_seen

(* What holds whatever reaches the two ends, and what holds as long as     *)
(* only the ends themselves speak.                                         *)
Base == HandshakeTypes /\ ClosedIsDone /\ ReadyFollows

HandshakeInv == Base /\ (strays = {} => Talk /\ PinBudget)

-----------------------------------------------------------------------------
(* What a call of begin_authentication, accept_auth_required,              *)
(* accept_auth_result or mark_ready leaves: a sound session that counted   *)
(* nothing.                                                                *)
Called(s, res) ==
    /\ Sound(res.session) /\ res.ok \in BOOLEAN
    /\ res.session.pin_required = s.pin_required
    /\ res.session.auth_attempts = s.auth_attempts

(* Moving a session on, from a state in which it holds no streams.         *)
LEMMA MovedSound ==
    ASSUME NEW s, Sound(s), s.state \in {"Connecting", "Authenticating"},
           NEW st \in States, NEW n \in Nat
    PROVE  /\ Called(s, [ok |-> TRUE, session |-> Moved(s, st, n)])
           /\ Moved(s, st, n).state = st
<1> DEFINE u == Moved(s, st, n)
<1>1. s \in Sessions
  BY DEF Sound
<1>2. /\ u \in Sessions /\ u.state = st
      /\ u.auth_attempts = s.auth_attempts
      /\ u.registry = s.registry
      /\ u.pin_required = s.pin_required
  BY <1>1, MovedSession
<1> HIDE DEF u
<1>3. Sound(u)
  BY <1>2 DEF Sound
<1> QED
  BY <1>2, <1>3 DEF Called, u

(* The server asks for a PIN or opens the session.                         *)
LEMMA BeginCalled ==
    ASSUME NEW s, Sound(s)
    PROVE  /\ Called(s, BeginAuthentication(s))
           /\ BeginAuthentication(s).ok =>
                  BeginAuthentication(s).session.state =
                      IF s.pin_required THEN "Authenticating" ELSE "Ready"
<1>1. CASE s.state # "Connecting"
  BY <1>1 DEF BeginAuthentication, Err, Called
<1>2. CASE s.state = "Connecting"
  <2> DEFINE st == IF s.pin_required THEN "Authenticating" ELSE "Ready"
             n  == s.next_auth_allowed_at
  <2>1. st \in States /\ n \in Nat /\ s \in Sessions
    BY DEF States, Sound, Sessions
  <2>2. BeginAuthentication(s) = [ok |-> TRUE, session |-> [s EXCEPT !.state = st]]
    BY <1>2 DEF BeginAuthentication, Ok
  <2>3. [s EXCEPT !.state = st] = Moved(s, st, n)
    BY <2>1 DEF Moved, Sessions
  <2> HIDE DEF st, n
  <2>4. /\ Called(s, [ok |-> TRUE, session |-> Moved(s, st, n)])
        /\ Moved(s, st, n).state = st
    BY <1>2, <2>1, MovedSound
  <2>5. BeginAuthentication(s) = [ok |-> TRUE, session |-> Moved(s, st, n)]
    BY <2>2, <2>3, Zenon
  <2>6. [ok |-> TRUE, session |-> Moved(s, st, n)].session = Moved(s, st, n)
    OBVIOUS
  <2> QED
    BY <2>4, <2>5, <2>6, Zenon DEF st
<1> QED
  BY <1>1, <1>2

(* The client is asked for a PIN, or told what became of one: neither      *)
(* opens its session.                                                      *)
LEMMA AskedCalled ==
    ASSUME NEW s, Sound(s)
    PROVE  /\ Called(s, AcceptAuthRequired(s))
           /\ AcceptAuthRequired(s).session.state = "Ready" => s.state = "Ready"
<1>1. CASE s.state \notin {"Connecting", "Authenticating"}
  BY <1>1 DEF AcceptAuthRequired, Err, Called
<1>2. CASE s.state \in {"Connecting", "Authenticating"}
  <2> DEFINE n  == s.next_auth_allowed_at
  <2>1. "Authenticating" \in States /\ n \in Nat /\ s \in Sessions
    BY DEF States, Sound, Sessions
  <2>2. AcceptAuthRequired(s) =
            [ok |-> TRUE, session |-> [s EXCEPT !.state = "Authenticating"]]
    BY <1>2 DEF AcceptAuthRequired, Ok
  <2>3. [s EXCEPT !.state = "Authenticating"] = Moved(s, "Authenticating", n)
    BY <2>1 DEF Moved, Sessions
  <2> HIDE DEF n
  <2>4. /\ Called(s, [ok |-> TRUE, session |-> Moved(s, "Authenticating", n)])
        /\ Moved(s, "Authenticating", n).state = "Authenticating"
    BY <1>2, <2>1, MovedSound
  <2>5. AcceptAuthRequired(s) = [ok |-> TRUE, session |-> Moved(s, "Authenticating", n)]
    BY <2>2, <2>3, Zenon
  <2>6. [ok |-> TRUE, session |-> Moved(s, "Authenticating", n)].session = Moved(s, "Authenticating", n)
    OBVIOUS
  <2> QED
    BY <2>4, <2>5, <2>6
<1> QED
  BY <1>1, <1>2

(* See AskedCalled.                                                        *)
LEMMA ToldCalled ==
    ASSUME NEW s, Sound(s), NEW success \in BOOLEAN
    PROVE  /\ Called(s, AcceptAuthResult(s, success))
           /\ AcceptAuthResult(s, success).session.state = s.state
<1>1. CASE s.state # "Authenticating"
  BY <1>1 DEF AcceptAuthResult, Err, Called
<1>2. CASE s.state = "Authenticating"
  <2> DEFINE n  == IF success THEN 0 ELSE s.next_auth_allowed_at
  <2>1. "Authenticating" \in States /\ n \in Nat /\ s \in Sessions
    BY DEF States, Sound, Sessions
  <2>2. AcceptAuthResult(s, success) =
            [ok |-> TRUE, session |-> [s EXCEPT !.next_auth_allowed_at = n]]
    BY <1>2 DEF AcceptAuthResult, Ok
  <2> HIDE DEF n
  <2>3. [s EXCEPT !.next_auth_allowed_at = n] = Moved(s, "Authenticating", n)
    BY <1>2, <2>1 DEF Moved, Sessions
  <2>4. /\ Called(s, [ok |-> TRUE, session |-> Moved(s, "Authenticating", n)])
        /\ Moved(s, "Authenticating", n).state = "Authenticating"
    BY <1>2, <2>1, MovedSound
  <2>5. AcceptAuthResult(s, success) = [ok |-> TRUE, session |-> Moved(s, "Authenticating", n)]
    BY <2>2, <2>3, Zenon
  <2>6. [ok |-> TRUE, session |-> Moved(s, "Authenticating", n)].session = Moved(s, "Authenticating", n)
    OBVIOUS
  <2> QED
    BY <1>2, <2>4, <2>5, <2>6
<1> QED
  BY <1>1, <1>2

(* The client takes its session for open.                                  *)
LEMMA EnteredCalled ==
    ASSUME NEW s, Sound(s)
    PROVE  Called(s, MarkReady(s))
<1>1. CASE s.state \notin {"Connecting", "Authenticating"}
  BY <1>1 DEF MarkReady, Err, Called
<1>2. CASE s.state \in {"Connecting", "Authenticating"}
  <2>1. "Ready" \in States /\ 0 \in Nat
    BY DEF States
  <2>2. MarkReady(s) = [ok |-> TRUE, session |-> Moved(s, "Ready", 0)]
    BY <1>2 DEF MarkReady, Ok, Moved
  <2> QED
    BY <1>2, <2>1, <2>2, MovedSound
<1> QED
  BY <1>1, <1>2

-----------------------------------------------------------------------------
(* What a method of the runtime r that returned t has left.                *)
SoundTurn(t, r) ==
    /\ SoundRuntime(t.rt) /\ t.rt.role = r.role
    /\ t.out \in Seq(Frames)
    /\ t.shut \in BOOLEAN /\ t.res \in {"More", "Done", "Err"}
    /\ t.shut => t.res = "Err"
    /\ r.ready_seen => t.rt.ready_seen
    /\ t.rt.session.pin_required = r.session.pin_required

(* The frames that the two ends make are frames.                           *)
LEMMA FramesMade ==
    /\ \A type \in FrameTypes : Plain(type) \in Frames
    /\ \A b \in BOOLEAN : AuthResult(b) \in Frames
    /\ \A pin \in Seq(Bytes) : AuthFrame(pin) \in Frames
<1>1. NoPin \in Seq(Bytes)
  BY DEF NoPin
<1> QED
  BY <1>1 DEF Plain, AuthResult, AuthFrame, Frame, Frames, FrameTypes, ControlTypes

(* A runtime with another session.                                         *)
LEMMA WithSession ==
    ASSUME NEW r, SoundRuntime(r), NEW s, Sound(s),
           s.pin_required = r.session.pin_required,
           r.role = "Server" /\ s.state = "Authenticating" => s.pin_required
    PROVE  LET u == [r EXCEPT !.session = s]
           IN  /\ SoundRuntime(u) /\ u.session = s /\ u.role = r.role
               /\ u.ready_seen = r.ready_seen /\ u.auth_pending = r.auth_pending
               /\ u.connect_seen = r.connect_seen /\ u.auth_pins = r.auth_pins
               /\ u.last_auth_pin = r.last_auth_pin
<1> DEFINE u == [r EXCEPT !.session = s]
<1>1. r \in Runtimes /\ s \in Sessions
  BY DEF SoundRuntime, Sound
<1>2. u \in Runtimes
  BY <1>1 DEF Runtimes
<1>3. /\ u.session = s /\ u.role = r.role
      /\ u.ready_seen = r.ready_seen /\ u.auth_pending = r.auth_pending
      /\ u.connect_seen = r.connect_seen /\ u.auth_pins = r.auth_pins
      /\ u.last_auth_pin = r.last_auth_pin
  BY <1>1 DEF Runtimes
<1> HIDE DEF u
<1>4. SoundRuntime(u)
  BY <1>2, <1>3 DEF SoundRuntime
<1> QED
  BY <1>3, <1>4 DEF u

(* The session of a runtime closed: nothing else of it changes, and no     *)
(* failure is counted.                                                     *)
LEMMA ClosedRuntime ==
    ASSUME NEW r, SoundRuntime(r)
    PROVE  LET u == [r EXCEPT !.session = CloseSession(@)]
           IN  /\ SoundRuntime(u) /\ u.role = r.role
               /\ u.session.state = "Closed"
               /\ u.session.pin_required = r.session.pin_required
               /\ u.session.auth_attempts = r.session.auth_attempts
               /\ u.ready_seen = r.ready_seen /\ u.auth_pending = r.auth_pending
<1> DEFINE s == CloseSession(r.session)
           u == [r EXCEPT !.session = s]
<1>1. /\ Sound(r.session) /\ r.session \in Sessions
      /\ WellFormed(r.session.registry)
      /\ r.session.pin_required =>
             MaxAuthFails # 0 /\ r.session.auth_attempts <= MaxAuthFails
  BY DEF SoundRuntime, Sound
<1>2. /\ Sound(s) /\ s.state = "Closed"
      /\ s.auth_attempts = r.session.auth_attempts
      /\ s.pin_required = r.session.pin_required
  BY <1>1, CloseSessionSound
<1>3. u = [r EXCEPT !.session = CloseSession(@)]
  OBVIOUS
<1> HIDE DEF s
<1>4. /\ SoundRuntime(u) /\ u.session = s /\ u.role = r.role
      /\ u.ready_seen = r.ready_seen /\ u.auth_pending = r.auth_pending
  BY <1>2, WithSession
<1> HIDE DEF u
<1> QED
  BY <1>2, <1>3, <1>4, Zenon

(* What may be sent before a session is failed: the result of a PIN.       *)
Results == {<<>>} \cup {<<AuthResult(b)>> : b \in BOOLEAN}

(* fail_session closes the session and the peer; it sends an error if that *)
(* can still be sent.                                                      *)
LEMMA FailTurn ==
    ASSUME NEW r, SoundRuntime(r), NEW before \in Results, NEW k \in Nat
    PROVE  LET t == FailSession(r, before, k)
           IN  /\ SoundTurn(t, r) /\ t.shut /\ t.res = "Err"
               /\ t.out \in {before, Append(before, Plain("error"))}
               /\ t.rt.session.state = "Closed"
               /\ t.rt.session.auth_attempts = r.session.auth_attempts
               /\ t.rt.ready_seen = r.ready_seen
               /\ t.rt.auth_pending = r.auth_pending
<1> DEFINE u == [r EXCEPT !.session = CloseSession(@)]
           o == IF k > Len(before) THEN Append(before, Plain("error")) ELSE before
           t == FailSession(r, before, k)
<1>1. t = [rt |-> u, out |-> o, shut |-> TRUE, res |-> "Err"]
  BY DEF FailSession
<1>2. /\ SoundRuntime(u) /\ u.role = r.role
      /\ u.session.state = "Closed"
      /\ u.session.pin_required = r.session.pin_required
      /\ u.session.auth_attempts = r.session.auth_attempts
      /\ u.ready_seen = r.ready_seen /\ u.auth_pending = r.auth_pending
  BY ClosedRuntime
<1>3. Plain("error") \in Frames
  BY FramesMade DEF FrameTypes, ControlTypes
<1>4. before \in Seq(Frames)
  <2>1. CASE before = <<>>
    BY <2>1
  <2>2. CASE before \in {<<AuthResult(b)>> : b \in BOOLEAN}
    <3>1. PICK b \in BOOLEAN : before = <<AuthResult(b)>>
      BY <2>2
    <3>2. AuthResult(b) \in Frames
      BY FramesMade
    <3> QED
      BY <3>1, <3>2
  <2> QED
    BY <2>1, <2>2 DEF Results
<1>5. o \in Seq(Frames) /\ o \in {before, Append(before, Plain("error"))}
  BY <1>3, <1>4
<1> HIDE DEF u, o
<1>6. t.rt = u /\ t.out = o /\ t.shut = TRUE /\ t.res = "Err"
  BY <1>1
<1> HIDE DEF t
<1>7. SoundTurn(t, r)
  BY <1>2, <1>5, <1>6 DEF SoundTurn
<1> QED
  BY <1>2, <1>5, <1>6, <1>7 DEF t

(* A method that returns an error and has no further effect.               *)
LEMMA AbortTurn ==
    ASSUME NEW r, NEW u, SoundRuntime(u), u.role = r.role,
           u.ready_seen = r.ready_seen,
           u.session.pin_required = r.session.pin_required
    PROVE  /\ SoundTurn(Abort(u), r)
           /\ Abort(u).rt = u /\ Abort(u).out = <<>>
           /\ Abort(u).shut = FALSE /\ Abort(u).res = "Err"
<1>1. /\ Abort(u).rt = u /\ Abort(u).out = <<>>
      /\ Abort(u).shut = FALSE /\ Abort(u).res = "Err"
  BY DEF Abort
<1>2. <<>> \in Seq(Frames)
  OBVIOUS
<1> QED
  BY <1>1, <1>2 DEF SoundTurn

(* The session closed and nothing sent.                                    *)
LEMMA CloseTurn ==
    ASSUME NEW r, SoundRuntime(r), NEW res \in {"Done", "Err"}
    PROVE  LET t == CloseAnd(r, res)
           IN  /\ SoundTurn(t, r) /\ t.shut = FALSE /\ t.res = res
               /\ t.out = <<>> /\ t.rt.session.state = "Closed"
               /\ t.rt.session.auth_attempts = r.session.auth_attempts
               /\ t.rt.ready_seen = r.ready_seen
               /\ t.rt.auth_pending = r.auth_pending
<1> DEFINE u == [r EXCEPT !.session = CloseSession(@)]
           t == CloseAnd(r, res)
<1>1. t = [rt |-> u, out |-> <<>>, shut |-> FALSE, res |-> res]
  BY DEF CloseAnd
<1>2. /\ SoundRuntime(u) /\ u.role = r.role
      /\ u.session.state = "Closed"
      /\ u.session.pin_required = r.session.pin_required
      /\ u.session.auth_attempts = r.session.auth_attempts
      /\ u.ready_seen = r.ready_seen /\ u.auth_pending = r.auth_pending
  BY ClosedRuntime
<1>3. <<>> \in Seq(Frames)
  OBVIOUS
<1> HIDE DEF u
<1>4. t.rt = u /\ t.out = <<>> /\ t.shut = FALSE /\ t.res = res
  BY <1>1
<1> HIDE DEF t
<1>5. SoundTurn(t, r)
  BY <1>2, <1>3, <1>4 DEF SoundTurn
<1> QED
  BY <1>2, <1>4, <1>5 DEF t

(* msgs begins with o.                                                     *)
Begins(o, msgs) ==
    Len(o) <= Len(msgs) /\ \A i \in 1..Len(o) : o[i] = msgs[i]

(* Sends one after the other: what went out is the beginning of msgs, all  *)
(* of it unless an error is returned.                                      *)
LEMMA SendsTurn ==
    ASSUME NEW u, NEW msgs \in Seq(Frames), NEW k \in Nat,
           NEW res \in {"More", "Done", "Err"}
    PROVE  LET t == Sends(u, msgs, k, res)
           IN  /\ t.rt = u /\ t.out \in Seq(Frames) /\ t.shut = FALSE
               /\ Begins(t.out, msgs) /\ Len(t.out) <= k
               /\ t.res \in {res, "Err"}
               /\ t.res # "Err" => t.out = msgs
<1> DEFINE t == Sends(u, msgs, k, res)
<1>1. CASE k < Len(msgs)
  <2> DEFINE o == SubSeq(msgs, 1, k)
  <2>1. t.rt = u /\ t.out = o /\ t.shut = FALSE /\ t.res = "Err"
    BY <1>1 DEF Sends
  <2>2. o \in Seq(Frames) /\ Len(o) = k /\ \A i \in 1..k : o[i] = msgs[i]
    BY <1>1
  <2> HIDE DEF t, o
  <2> QED
    BY <1>1, <2>1, <2>2 DEF t, Begins
<1>2. CASE ~ k < Len(msgs)
  <2>1. t.rt = u /\ t.out = msgs /\ t.shut = FALSE /\ t.res = res
    BY <1>2 DEF Sends
  <2> HIDE DEF t
  <2>2. Len(msgs) <= k
    BY <1>2
  <2> QED
    BY <2>1, <2>2 DEF t, Begins
<1> QED
  BY <1>1, <1>2

(* Sequences of one and two frames.                                        *)
LEMMA OneFrame ==
    ASSUME NEW a, NEW o, o = <<a>>
    PROVE  Len(o) = 1 /\ o[1] = a /\ \A i \in 1..Len(o) : i = 1
  OBVIOUS

(* A frame put at the end.                                                 *)
LEMMA Appended ==
    ASSUME NEW o \in Seq(Frames), NEW x \in Frames
    PROVE  /\ Append(o, x) \in Seq(Frames) /\ Len(Append(o, x)) = Len(o) + 1
           /\ \A i \in 1..Len(o) : Append(o, x)[i] = o[i]
           /\ Append(o, x)[Len(o) + 1] = x
  OBVIOUS

(* See OneFrame.                                                           *)
LEMMA TwoFrames ==
    ASSUME NEW a, NEW b, NEW o, o = <<a, b>>
    PROVE  /\ Len(o) = 2 /\ o[1] = a /\ o[2] = b
           /\ \A i \in 1..Len(o) : i = 1 \/ i = 2
  OBVIOUS

(* See OneFrame.                                                           *)
LEMMA TwoTyped ==
    ASSUME NEW a \in Frames, NEW b \in Frames, NEW o, o = <<a, b>>
    PROVE  o \in Seq(Frames)
  OBVIOUS

(* What a server answers to f: at most the result of a PIN and one of      *)
(* auth_required, ready and error, with the state that goes with each.     *)
ServerSays(t, f) ==
    /\ \A i \in 1..Len(t.out) :
           LET type == t.out[i].type
           IN  /\ type \in {"auth_required", "auth_result", "ready", "error"}
               /\ type = "auth_result" => i = 1 /\ f.type = "auth"
               /\ type \in {"auth_required", "ready"} =>
                      t.out[i].ok /\ (i = 1 => f.type = "connect")
               /\ type = "auth_required" =>
                      t.rt.session.state = "Authenticating" /\ t.res # "Done"
               /\ type = "ready" => t.rt.ready_seen
               /\ type = "error" => t.shut
               /\ type # "auth_result" => i = Len(t.out)
    /\ t.res = "Done" => f.type \in {"connect", "auth"}

(* The fields of the frames a server makes.                                *)
LEMMA ServerFrames ==
    /\ \A type \in FrameTypes : Plain(type).type = type /\ Plain(type).ok = TRUE
    /\ \A b \in BOOLEAN : AuthResult(b).type = "auth_result"
    /\ {"auth_required", "ready", "error", "fin", "connect"} \subseteq FrameTypes
  BY DEF Plain, AuthResult, Frame, FrameTypes, ControlTypes

(* fail_session, as an answer to f.                                        *)
LEMMA FailSays ==
    ASSUME NEW r, SoundRuntime(r), NEW before \in Results, NEW k \in Nat,
           NEW f, before # <<>> => f.type = "auth"
    PROVE  ServerSays(FailSession(r, before, k), f)
<1> DEFINE t == FailSession(r, before, k)
<1>1. /\ t.shut /\ t.res = "Err"
      /\ t.out \in {before, Append(before, Plain("error"))}
  BY FailTurn
<1> HIDE DEF t
<1>2. Plain("error").type = "error"
  BY ServerFrames
<1>3. CASE before = <<>>
  <2>1. t.out = <<>> \/ t.out = <<Plain("error")>>
    BY <1>1, <1>3
  <2>2. \A i \in 1..Len(t.out) : i = Len(t.out) /\ t.out[i].type = "error"
    <3>1. CASE t.out = <<>>
      BY <3>1
    <3>2. CASE t.out = <<Plain("error")>>
      <4>1. /\ Len(t.out) = 1 /\ t.out[1] = Plain("error")
            /\ \A i \in 1..Len(t.out) : i = 1
        BY <3>2, OneFrame
      <4> QED
        BY <1>2, <4>1
    <3> QED
      BY <2>1, <3>1, <3>2
  <2>3. ServerSays(t, f)
    BY <1>1, <2>2 DEF ServerSays
  <2> QED
    BY <2>3 DEF t
<1>4. CASE before # <<>>
  <2>1. PICK b \in BOOLEAN : before = <<AuthResult(b)>>
    BY <1>4 DEF Results
  <2>2. AuthResult(b).type = "auth_result" /\ f.type = "auth"
    BY <1>4, ServerFrames
  <2>3. t.out = <<AuthResult(b)>> \/ t.out = <<AuthResult(b), Plain("error")>>
    BY <1>1, <2>1
  <2>4. \A i \in 1..Len(t.out) :
            \/ i = 1 /\ t.out[i].type = "auth_result"
            \/ i = Len(t.out) /\ t.out[i].type = "error"
    <3>1. CASE t.out = <<AuthResult(b)>>
      <4>1. /\ t.out[1] = AuthResult(b) /\ \A i \in 1..Len(t.out) : i = 1
        BY <3>1, OneFrame
      <4> QED
        BY <2>2, <4>1
    <3>2. CASE t.out = <<AuthResult(b), Plain("error")>>
      <4>1. /\ Len(t.out) = 2 /\ t.out[1] = AuthResult(b)
            /\ t.out[2] = Plain("error")
            /\ \A i \in 1..Len(t.out) : i = 1 \/ i = 2
        BY <3>2, TwoFrames
      <4> QED
        BY <1>2, <2>2, <4>1
    <3> QED
      BY <2>3, <3>1, <3>2
  <2>5. ServerSays(t, f)
    BY <1>1, <2>2, <2>4 DEF ServerSays
  <2> QED
    BY <2>5 DEF t
<1> QED
  BY <1>3, <1>4

(* send_ready, as an answer to f.                                          *)
LEMMA ReadyTurn ==
    ASSUME NEW r, SoundRuntime(r), NEW before \in Results, NEW k \in Nat,
           NEW f, before = <<>> => f.type = "connect",
           before # <<>> => f.type = "auth"
    PROVE  /\ SoundTurn(SendReady(r, before, k), r)
           /\ ServerSays(SendReady(r, before, k), f)
<1> DEFINE t    == SendReady(r, before, k)
           msgs == Append(before, Plain("ready"))
           seen == [r EXCEPT !.ready_seen = TRUE]
           u    == IF k < Len(msgs) THEN r ELSE seen
<1>1. r \in Runtimes /\ Sound(r.session)
  BY DEF SoundRuntime
<1>2. /\ seen \in Runtimes /\ seen.session = r.session /\ seen.role = r.role
      /\ seen.ready_seen = TRUE
  BY <1>1 DEF Runtimes
<1> HIDE DEF seen
<1>3. SoundRuntime(seen)
  BY <1>1, <1>2 DEF SoundRuntime
<1>4. /\ Plain("ready") \in Frames /\ Plain("ready").type = "ready"
      /\ Plain("ready").ok = TRUE
  BY FramesMade, ServerFrames
<1>5. \/ before = <<>>
      \/ \E b \in BOOLEAN : /\ before = <<AuthResult(b)>>
                            /\ AuthResult(b).type = "auth_result"
                            /\ AuthResult(b) \in Frames
  BY ServerFrames, FramesMade DEF Results
<1>6. /\ before \in Seq(Frames) /\ msgs \in Seq(Frames)
      /\ Len(msgs) = Len(before) + 1 /\ Len(before) <= 1
      /\ msgs[Len(msgs)].type = "ready" /\ msgs[Len(msgs)].ok = TRUE
      /\ \A i \in 1..Len(before) : before[i].type = "auth_result"
      /\ \A i \in 1..Len(before) : msgs[i].type = "auth_result"
  <2>1. CASE before = <<>>
    <3>1. msgs = <<Plain("ready")>> /\ Len(before) = 0
      BY <2>1
    <3>2. Len(msgs) = 1 /\ msgs[1] = Plain("ready") /\ msgs \in Seq(Frames)
      BY <1>4, <3>1
    <3> HIDE DEF msgs
    <3> QED
      BY <1>4, <2>1, <3>1, <3>2
  <2>2. CASE before # <<>>
    <3>1. PICK b \in BOOLEAN : /\ before = <<AuthResult(b)>>
                               /\ AuthResult(b).type = "auth_result"
                               /\ AuthResult(b) \in Frames
      BY <1>5, <2>2
    <3>2. /\ Len(before) = 1 /\ before[1] = AuthResult(b)
          /\ before \in Seq(Frames)
      BY <3>1
    <3>3. /\ Len(msgs) = 2 /\ msgs[1] = AuthResult(b) /\ msgs[2] = Plain("ready")
          /\ msgs \in Seq(Frames)
      <4>1. /\ msgs \in Seq(Frames) /\ Len(msgs) = Len(before) + 1
            /\ \A i \in 1..Len(before) : msgs[i] = before[i]
            /\ msgs[Len(before) + 1] = Plain("ready")
        BY <1>4, <3>2, Appended
      <4> HIDE DEF msgs
      <4>2. 1 \in 1..Len(before) /\ Len(before) + 1 = 2
        BY <3>2
      <4> QED
        BY <3>2, <4>1, <4>2
    <3> HIDE DEF msgs
    <3>4. \A i \in 1..Len(before) : i = 1
      BY <3>2
    <3> QED
      BY <1>4, <3>1, <3>2, <3>3, <3>4
  <2> QED
    BY <2>1, <2>2
<1>7. Len(before) > 0 => f.type = "auth"
  BY <1>6
<1>8. Len(before) = 0 => f.type = "connect"
  BY <1>6
<1>9. /\ SoundRuntime(u) /\ u.role = r.role /\ (r.ready_seen => u.ready_seen)
      /\ u.session = r.session
      /\ k >= Len(msgs) => u.ready_seen
  BY <1>2, <1>3, <1>6
<1>10. t = IF k < Len(before) THEN Sends(r, before, k, "Err")
           ELSE IF r.ready_seen THEN FailSession(r, before, k)
           ELSE Sends(u, msgs, k, "Done")
  BY DEF SendReady, seen
<1> HIDE DEF u, msgs
<1>11. CASE k < Len(before)
  <2>1. t = Sends(r, before, k, "Err")
    BY <1>10, <1>11
  <2> HIDE DEF t
  <2>a. /\ t.rt = r /\ t.out \in Seq(Frames) /\ t.shut = FALSE
        /\ Len(t.out) <= Len(before) /\ Len(t.out) <= k
        /\ \A i \in 1..Len(t.out) : t.out[i] = before[i]
        /\ t.res = "Err"
    <3>1. before \in Seq(Frames)
      BY <1>6
    <3>2. /\ t.rt = r /\ t.out \in Seq(Frames) /\ t.shut = FALSE
          /\ Begins(t.out, before) /\ Len(t.out) <= k
          /\ t.res \in {"Err"}
      BY <2>1, <3>1, SendsTurn
    <3> QED
      BY <3>2 DEF Begins
  <2>2. SoundTurn(t, r)
    BY <2>a DEF SoundTurn
  <2>3. Len(t.out) \in Nat
    BY <2>a
  <2>4. ServerSays(t, f)
    BY <1>6, <1>7, <1>11, <2>a, <2>3 DEF ServerSays
  <2> QED
    BY <2>2, <2>4 DEF t
<1>12. CASE ~ (k < Len(before)) /\ r.ready_seen
  BY <1>10, <1>12, FailTurn, FailSays
<1>13. CASE ~ (k < Len(before)) /\ ~ r.ready_seen
  <2>1. t = Sends(u, msgs, k, "Done")
    BY <1>10, <1>13
  <2> HIDE DEF t
  <2>2. /\ t.rt = u /\ t.out \in Seq(Frames) /\ t.shut = FALSE
        /\ Len(t.out) <= Len(msgs) /\ Len(t.out) <= k
        /\ \A i \in 1..Len(t.out) : t.out[i] = msgs[i]
        /\ t.res \in {"Done", "Err"}
    <3>1. msgs \in Seq(Frames)
      BY <1>6
    <3>2. /\ t.rt = u /\ t.out \in Seq(Frames) /\ t.shut = FALSE
          /\ Begins(t.out, msgs) /\ Len(t.out) <= k
          /\ t.res \in {"Done", "Err"}
      BY <2>1, <3>1, SendsTurn
    <3> QED
      BY <3>2 DEF Begins
  <2>a. SoundTurn(t, r)
    BY <1>9, <2>2 DEF SoundTurn
  <2>3. Len(t.out) \in Nat /\ Len(msgs) \in Nat /\ Len(before) \in Nat
    BY <1>6, <2>2
  <2>4. \A i \in 1..Len(t.out) :
            \/ /\ i = 1 /\ f.type = "auth" /\ t.out[i].type = "auth_result"
            \/ /\ i = Len(t.out) /\ t.out[i].type = "ready" /\ t.out[i].ok
               /\ t.rt.ready_seen /\ (i = 1 => f.type = "connect")
    BY <1>6, <1>7, <1>8, <1>9, <2>2, <2>3
  <2>5. f.type \in {"connect", "auth"}
    OBVIOUS
  <2>6. ServerSays(t, f)
    BY <2>4, <2>5 DEF ServerSays
  <2> QED
    BY <2>a, <2>6 DEF t
<1> QED
  BY <1>11, <1>12, <1>13

(* A server takes note of a connect or of a PIN: nothing else changes.     *)
Noted(u, r) ==
    /\ SoundRuntime(u) /\ u.session = r.session /\ u.role = r.role
    /\ u.ready_seen = r.ready_seen /\ u.auth_pending = r.auth_pending

(* See Noted.                                                              *)
LEMMA ServerNotes ==
    ASSUME NEW r, SoundRuntime(r), NEW pin \in Seq(Bytes)
    PROVE  /\ Noted([r EXCEPT !.connect_seen = TRUE], r)
           /\ Noted(KeepPin(r, pin), r)
           /\ Noted([r EXCEPT !.handshake_started = TRUE], r)
<1> DEFINE u == [r EXCEPT !.connect_seen = TRUE]
           v == [r EXCEPT !.last_auth_pin = <<pin>>]
           w == [r EXCEPT !.handshake_started = TRUE]
<1>1. r \in Runtimes /\ <<pin>> \in Seq(Seq(Bytes))
  BY DEF SoundRuntime
<1>2. /\ u \in Runtimes /\ u.session = r.session /\ u.role = r.role
      /\ u.ready_seen = r.ready_seen /\ u.auth_pending = r.auth_pending
  BY <1>1 DEF Runtimes
<1>3. /\ v \in Runtimes /\ v.session = r.session /\ v.role = r.role
      /\ v.ready_seen = r.ready_seen /\ v.auth_pending = r.auth_pending
  BY <1>1 DEF Runtimes
<1>4. /\ w \in Runtimes /\ w.session = r.session /\ w.role = r.role
      /\ w.ready_seen = r.ready_seen /\ w.auth_pending = r.auth_pending
  BY <1>1 DEF Runtimes
<1> HIDE DEF u, v, w
<1>5. SoundRuntime(u) /\ SoundRuntime(v) /\ SoundRuntime(w)
  BY <1>2, <1>3, <1>4 DEF SoundRuntime
<1>6. Noted(u, r) /\ Noted(v, r) /\ Noted(w, r)
  BY <1>2, <1>3, <1>4, <1>5 DEF Noted
<1> QED
  BY <1>6 DEF u, v, w, KeepPin

(* u is what r became within a method that has not sent yet.               *)
Became(u, r) ==
    /\ SoundRuntime(u) /\ u.role = r.role /\ u.ready_seen = r.ready_seen
    /\ u.session.pin_required = r.session.pin_required

(* A method that goes on from what another left.                           *)
LEMMA TurnOf ==
    ASSUME NEW r, NEW u, Became(u, r), NEW t, SoundTurn(t, u)
    PROVE  SoundTurn(t, r)
  BY DEF Became, SoundTurn

(* The server's answer to f is sound and in order.                         *)
Answers(t, r, f) == SoundTurn(t, r) /\ ServerSays(t, f)

(* Each way a server's method ends.                                        *)
LEMMA AnswerEnds ==
    ASSUME NEW r, NEW u, Became(u, r), NEW f, NEW k \in Nat
    PROVE  /\ Answers(FailSession(u, <<>>, k), r, f)
           /\ Answers(Abort(u), r, f)
           /\ f.type = "connect" => Answers(SendReady(u, <<>>, k), r, f)
           /\ f.type = "auth" => \A b \in BOOLEAN :
                  /\ Answers(FailSession(u, <<AuthResult(b)>>, k), r, f)
                  /\ Answers(SendReady(u, <<AuthResult(b)>>, k), r, f)
<1>1. SoundRuntime(u)
  BY DEF Became
<1>2. <<>> \in Results
  BY DEF Results
<1>3. \A b \in BOOLEAN : <<AuthResult(b)>> \in Results /\ <<AuthResult(b)>> # <<>>
  BY DEF Results
<1>4. Answers(FailSession(u, <<>>, k), r, f)
  BY <1>1, <1>2, FailTurn, FailSays, TurnOf DEF Answers
<1>5. Answers(Abort(u), r, f)
  <2> DEFINE t == Abort(u)
  <2>1. SoundTurn(t, r) /\ t.out = <<>> /\ t.res = "Err"
    BY <1>1, AbortTurn DEF Became
  <2> HIDE DEF t
  <2>2. ServerSays(t, f)
    BY <2>1 DEF ServerSays
  <2> QED
    BY <2>1, <2>2 DEF Answers, t
<1>6. ASSUME f.type = "connect" PROVE Answers(SendReady(u, <<>>, k), r, f)
  BY <1>1, <1>2, <1>6, ReadyTurn, TurnOf DEF Answers
<1>7. ASSUME f.type = "auth", NEW b \in BOOLEAN
      PROVE  /\ Answers(FailSession(u, <<AuthResult(b)>>, k), r, f)
             /\ Answers(SendReady(u, <<AuthResult(b)>>, k), r, f)
  <2> DEFINE o == <<AuthResult(b)>>
  <2>1. o \in Results /\ o # <<>>
    BY <1>3
  <2> HIDE DEF o
  <2>2. Answers(FailSession(u, o, k), r, f)
    BY <1>1, <1>7, <2>1, FailTurn, FailSays, TurnOf DEF Answers
  <2>3. Answers(SendReady(u, o, k), r, f)
    BY <1>1, <1>7, <2>1, ReadyTurn, TurnOf DEF Answers
  <2> QED
    BY <2>2, <2>3 DEF o
<1> QED
  BY <1>4, <1>5, <1>6, <1>7

(* The server asks for a PIN, for the first time or after a rejected one.  *)
LEMMA AsksTurn ==
    ASSUME NEW r, NEW u, Became(u, r), NEW f, NEW k \in Nat,
           u.session.state = "Authenticating"
    PROVE  /\ f.type = "connect" =>
                  Answers(Sends(u, <<Plain("auth_required")>>, k, "More"), r, f)
           /\ f.type = "auth" => Answers(Sends(u, Rejection, k, "More"), r, f)
<1>1. /\ Plain("auth_required") \in Frames
      /\ Plain("auth_required").type = "auth_required"
      /\ Plain("auth_required").ok = TRUE
      /\ AuthResult(FALSE) \in Frames /\ AuthResult(FALSE).type = "auth_result"
  BY FramesMade, ServerFrames
<1>2. ASSUME f.type = "connect"
      PROVE  Answers(Sends(u, <<Plain("auth_required")>>, k, "More"), r, f)
  <2> DEFINE msgs == <<Plain("auth_required")>>
             t    == Sends(u, msgs, k, "More")
  <2>1. msgs \in Seq(Frames)
    BY <1>1
  <2>2. /\ Len(msgs) = 1 /\ msgs[1] = Plain("auth_required")
        /\ \A i \in 1..Len(msgs) : i = 1
    BY OneFrame
  <2> HIDE DEF msgs
  <2>3. /\ t.rt = u /\ t.out \in Seq(Frames) /\ t.shut = FALSE
        /\ Begins(t.out, msgs) /\ t.res \in {"More", "Err"}
    BY <2>1, SendsTurn
  <2> HIDE DEF t
  <2>4. SoundTurn(t, r)
    BY <2>3 DEF SoundTurn, Became
  <2>5. \A i \in 1..Len(t.out) :
            i = Len(t.out) /\ t.out[i] = Plain("auth_required")
    <3>1. Len(t.out) \in Nat /\ Len(t.out) <= 1
      BY <2>2, <2>3 DEF Begins
    <3> QED
      BY <2>2, <2>3, <3>1 DEF Begins
  <2>6. ServerSays(t, f)
    BY <1>1, <1>2, <2>3, <2>5 DEF ServerSays
  <2> QED
    BY <2>4, <2>6 DEF Answers, t, msgs
<1>3. ASSUME f.type = "auth" PROVE Answers(Sends(u, Rejection, k, "More"), r, f)
  <2> DEFINE t == Sends(u, Rejection, k, "More")
  <2>1. Rejection \in Seq(Frames)
    BY <1>1, TwoTyped DEF Rejection
  <2>2. /\ Len(Rejection) = 2 /\ Rejection[1] = AuthResult(FALSE)
        /\ Rejection[2] = Plain("auth_required")
        /\ \A i \in 1..Len(Rejection) : i = 1 \/ i = 2
    BY TwoFrames DEF Rejection
  <2>3. /\ t.rt = u /\ t.out \in Seq(Frames) /\ t.shut = FALSE
        /\ Begins(t.out, Rejection) /\ t.res \in {"More", "Err"}
    BY <2>1, SendsTurn
  <2> HIDE DEF t
  <2>4. SoundTurn(t, r)
    BY <2>3 DEF SoundTurn, Became
  <2>5. \A i \in 1..Len(t.out) :
            \/ i = 1 /\ t.out[i] = AuthResult(FALSE)
            \/ i # 1 /\ i = Len(t.out) /\ t.out[i] = Plain("auth_required")
    <3>1. Len(t.out) \in Nat /\ Len(t.out) <= 2
      BY <2>2, <2>3 DEF Begins
    <3>2. \A i \in 1..Len(t.out) : t.out[i] = Rejection[i] /\ (i = 1 \/ i = 2)
      BY <2>2, <2>3, <3>1 DEF Begins
    <3>3. \A i \in 1..Len(t.out) : i # 1 => i = 2 /\ i = Len(t.out)
      BY <3>1, <3>2
    <3> QED
      BY <2>2, <3>2, <3>3
  <2>6. ServerSays(t, f)
    BY <1>1, <1>3, <2>3, <2>5 DEF ServerSays
  <2> QED
    BY <2>4, <2>6 DEF Answers, t
<1> QED
  BY <1>2, <1>3

(* handle_server_message, Connect.                                         *)
LEMMA ConnectAnswers ==
    ASSUME NEW r, SoundRuntime(r), NEW f \in Frames, f.type = "connect",
           NEW k \in Nat
    PROVE  Answers(ServerConnect(r, f, k), r, f)
<1> DEFINE seen  == [r EXCEPT !.connect_seen = TRUE]
           begun == BeginAuthentication(r.session)
           next  == [seen EXCEPT !.session = begun.session]
<1>1. Became(r, r)
  BY DEF Became
<1>2. Noted(seen, r)
  <2>1. NoPin \in Seq(Bytes)
    BY DEF NoPin
  <2> QED
    BY <2>1, ServerNotes
<1>3. Sound(r.session)
  BY DEF SoundRuntime
<1>4. /\ Called(r.session, begun)
      /\ begun.ok => begun.session.state =
                         IF r.session.pin_required THEN "Authenticating" ELSE "Ready"
  BY <1>3, BeginCalled
<1>5. ServerConnect(r, f, k) =
          IF r.connect_seen THEN FailSession(r, <<>>, k)
          ELSE IF ~ f.ok THEN FailSession(seen, <<>>, k)
          ELSE IF ~ begun.ok THEN Abort(seen)
          ELSE IF r.session.pin_required
               THEN Sends(next, <<Plain("auth_required")>>, k, "More")
               ELSE SendReady(next, <<>>, k)
  BY DEF ServerConnect
<1> HIDE DEF seen, begun
<1>6. Became(seen, r)
  BY <1>2 DEF Noted, Became
<1>7. ASSUME begun.ok
      PROVE  /\ Became(next, r)
             /\ next.session.state =
                    IF r.session.pin_required THEN "Authenticating" ELSE "Ready"
  <2>1. SoundRuntime(seen) /\ seen.session = r.session
    BY <1>2 DEF Noted
  <2> DEFINE s == begun.session
  <2>2. /\ Sound(s) /\ s.pin_required = seen.session.pin_required
        /\ s.state = "Authenticating" => s.pin_required
    BY <1>4, <1>7, <2>1 DEF Called
  <2> HIDE DEF s
  <2>3. LET u == [seen EXCEPT !.session = s]
        IN  /\ SoundRuntime(u) /\ u.session = s /\ u.role = seen.role
            /\ u.ready_seen = seen.ready_seen
    BY <2>1, <2>2, WithSession
  <2>4. /\ SoundRuntime(next) /\ next.session = s /\ next.role = seen.role
        /\ next.ready_seen = seen.ready_seen
    BY <2>3 DEF s
  <2> HIDE DEF next
  <2> QED
    BY <1>2, <1>4, <1>7, <2>2, <2>4 DEF Became, Noted, s
<1> HIDE DEF next
<1>8. CASE r.connect_seen
  BY <1>1, <1>5, <1>8, AnswerEnds
<1>9. CASE ~ r.connect_seen /\ (~ f.ok \/ ~ begun.ok)
  BY <1>5, <1>6, <1>9, AnswerEnds
<1>10. CASE ~ r.connect_seen /\ f.ok /\ begun.ok /\ r.session.pin_required
  BY <1>5, <1>7, <1>10, AsksTurn
<1>11. CASE ~ r.connect_seen /\ f.ok /\ begun.ok /\ ~ r.session.pin_required
  BY <1>5, <1>7, <1>11, AnswerEnds
<1> QED
  BY <1>8, <1>9, <1>10, <1>11

(* handle_server_message, Auth.                                            *)
LEMMA AuthAnswers ==
    ASSUME NEW r, SoundRuntime(r), r.role = "Server",
           NEW f \in Frames, f.type = "auth", NEW n \in Nat, NEW k \in Nat
    PROVE  Answers(ServerAuth(r, f, n, k), r, f)
<1> DEFINE kept  == KeepPin(r, f.pin)
           check == Authenticate(r.session, f.pin, n)
           next  == [kept EXCEPT !.session = check.session]
<1>1. Became(r, r)
  BY DEF Became
<1>2. f.pin \in Seq(Bytes)
  BY DEF Frames
<1>3. Noted(kept, r)
  BY <1>2, ServerNotes
<1>4. Sound(r.session) /\ (r.session.state = "Authenticating" => r.session.pin_required)
  BY DEF SoundRuntime
<1>5. /\ Sound(check.session)
      /\ check.session.pin_required = r.session.pin_required
      /\ check.out \in {"Ready", "Closed", "Err", "Rejected"}
      /\ check.out = "Rejected" => check.session.state = "Authenticating"
      /\ check.session.state = "Authenticating" =>
             r.session.state = "Authenticating"
  <2>1. Checked(r.session, f.pin, n, check)
    BY <1>2, <1>4, AuthenticateSound
  <2> HIDE DEF check
  <2> QED
    BY <2>1 DEF Checked
<1>6. ServerAuth(r, f, n, k) =
          IF r.session.state # "Authenticating" \/ r.last_auth_pin = <<f.pin>>
          THEN FailSession(r, <<>>, k)
          ELSE CASE check.out = "Ready" ->
                        SendReady(next, <<AuthResult(TRUE)>>, k)
                 [] check.out = "Rejected" -> Sends(next, Rejection, k, "More")
                 [] check.out = "Closed" ->
                        IF k = 0 THEN Abort(next)
                        ELSE FailSession(next, <<AuthResult(FALSE)>>, k)
                 [] check.out = "Err" -> Abort(next)
  BY DEF ServerAuth
<1> HIDE DEF kept, check
<1>7. Became(next, r) /\ next.session = check.session
  <2>1. SoundRuntime(kept) /\ kept.session = r.session
    BY <1>3 DEF Noted
  <2> DEFINE s == check.session
  <2>2. /\ Sound(s) /\ s.pin_required = kept.session.pin_required
        /\ s.state = "Authenticating" => s.pin_required
    BY <1>4, <1>5, <2>1
  <2> HIDE DEF s
  <2>3. LET u == [kept EXCEPT !.session = s]
        IN  /\ SoundRuntime(u) /\ u.session = s /\ u.role = kept.role
            /\ u.ready_seen = kept.ready_seen
    BY <2>1, <2>2, WithSession
  <2>4. /\ SoundRuntime(next) /\ next.session = s /\ next.role = kept.role
        /\ next.ready_seen = kept.ready_seen
    BY <2>3 DEF s
  <2> HIDE DEF next
  <2> QED
    BY <1>3, <1>5, <2>4 DEF Became, Noted, s
<1> HIDE DEF next
<1>8. CASE r.session.state # "Authenticating" \/ r.last_auth_pin = <<f.pin>>
  BY <1>1, <1>6, <1>8, AnswerEnds
<1>9. CASE ~ (r.session.state # "Authenticating" \/ r.last_auth_pin = <<f.pin>>)
  <2>1. CASE check.out = "Ready"
    BY <1>6, <1>7, <1>9, <2>1, AnswerEnds
  <2>2. CASE check.out = "Rejected"
    BY <1>5, <1>6, <1>7, <1>9, <2>2, AsksTurn
  <2>3. CASE check.out = "Closed"
    <3>1. ServerAuth(r, f, n, k) = IF k = 0 THEN Abort(next)
                                   ELSE FailSession(next, <<AuthResult(FALSE)>>, k)
      BY <1>6, <1>9, <2>3
    <3> QED
      BY <1>7, <3>1, AnswerEnds
  <2>4. CASE check.out = "Err"
    BY <1>6, <1>7, <1>9, <2>4, AnswerEnds
  <2> QED
    BY <1>5, <2>1, <2>2, <2>3, <2>4
<1> QED
  BY <1>8, <1>9

(* Whatever frame a server handles, its answer is in order.                *)
LEMMA ServerAnswers ==
    ASSUME NEW r, SoundRuntime(r), r.role = "Server",
           NEW f \in Frames, NEW n \in Nat, NEW k \in Nat
    PROVE  Answers(HandleControl(r, f, n, k), r, f)
<1>1. HandleControl(r, f, n, k) = HandleServerMessage(r, f, n, k)
  BY DEF HandleControl
<1>2. CASE f.type = "connect"
  BY <1>1, <1>2, ConnectAnswers DEF HandleServerMessage
<1>3. CASE f.type = "auth"
  BY <1>1, <1>3, AuthAnswers DEF HandleServerMessage
<1>4. CASE f.type \notin {"connect", "auth"}
  <2>1. HandleServerMessage(r, f, n, k) = FailSession(r, <<>>, k)
    BY <1>4 DEF HandleServerMessage
  <2>2. Became(r, r)
    BY DEF Became
  <2> QED
    BY <1>1, <2>1, <2>2, AnswerEnds
<1> QED
  BY <1>2, <1>3, <1>4

-----------------------------------------------------------------------------
(* What is left when one frame was to be sent.                             *)
OneSent(t, u, a) ==
    /\ t.rt = u /\ t.out \in Seq(Frames) /\ t.shut = FALSE
    /\ t.res \in {"More", "Err"} /\ Len(t.out) <= 1
    /\ \A i \in 1..Len(t.out) : t.out[i] = a

(* See OneSent.                                                            *)
LEMMA SendsOne ==
    ASSUME NEW u, NEW a \in Frames, NEW k \in Nat,
           NEW t, t = Sends(u, <<a>>, k, "More")
    PROVE  OneSent(t, u, a)
<1> DEFINE msgs == <<a>>
           v    == Sends(u, msgs, k, "More")
<1>1. msgs \in Seq(Frames) /\ Len(msgs) = 1 /\ msgs[1] = a
  OBVIOUS
<1>2. v = t
  OBVIOUS
<1> HIDE DEF msgs
<1>3. /\ v.rt = u /\ v.out \in Seq(Frames) /\ v.shut = FALSE
      /\ Begins(v.out, msgs) /\ v.res \in {"More", "Err"}
  BY <1>1, SendsTurn
<1> HIDE DEF v
<1>4. Len(t.out) \in Nat /\ Len(t.out) <= 1
  BY <1>1, <1>2, <1>3 DEF Begins
<1> QED
  BY <1>1, <1>2, <1>3, <1>4 DEF Begins, OneSent

(* The messages that a client r waits for.                                 *)
Expected(r, f) ==
    \/ f.type = "auth_result" /\ r.auth_pending
    \/ /\ f.type \in {"auth_required", "ready"}
       /\ ~ r.auth_pending /\ ~ r.ready_seen
       /\ f.type = "ready" => f.ok

(* What a client answers to f: a PIN to auth_required, nothing to another  *)
(* expected message, and an error to what it does not expect.  Only ready  *)
(* opens its session.                                                      *)
ClientSays(t, r, f) ==
    /\ Len(t.out) <= 1
    /\ \A i \in 1..Len(t.out) :
           /\ t.out[i].type \in {"auth", "error"}
           /\ t.out[i].type = "auth" =>
                  /\ f.type = "auth_required"
                  /\ t.rt.auth_pending /\ ~ t.rt.ready_seen
           /\ t.out[i].type = "error" => ~ Expected(r, f)
    /\ t.rt.session.state = "Ready" =>
           r.session.state = "Ready" \/ f.type = "ready"
    /\ t.rt.ready_seen => r.ready_seen \/ f.type = "ready"
    /\ f.type = "auth_result" => ~ t.rt.auth_pending
    /\ t.res = "Done" => f.type = "ready" /\ t.rt.ready_seen

(* The client's answer to f is sound and in order.                         *)
Replies(t, r, f) == SoundTurn(t, r) /\ ClientSays(t, r, f)

(* fail_session, as an answer to a message that is not expected.           *)
LEMMA FailReplies ==
    ASSUME NEW r, SoundRuntime(r), NEW f, ~ Expected(r, f), NEW k \in Nat
    PROVE  Replies(FailSession(r, <<>>, k), r, f)
<1> DEFINE t == FailSession(r, <<>>, k)
<1>2. /\ SoundTurn(t, r) /\ t.res = "Err"
      /\ t.out \in {<<>>, Append(<<>>, Plain("error"))}
      /\ t.rt.session.state = "Closed"
      /\ t.rt.ready_seen = r.ready_seen /\ t.rt.auth_pending = r.auth_pending
  <2> DEFINE o == <<>>
             v == FailSession(r, o, k)
  <2>1. o \in Results
    BY DEF Results
  <2> HIDE DEF o
  <2>2. /\ SoundTurn(v, r) /\ v.res = "Err"
        /\ v.out \in {o, Append(o, Plain("error"))}
        /\ v.rt.session.state = "Closed"
        /\ v.rt.ready_seen = r.ready_seen /\ v.rt.auth_pending = r.auth_pending
    BY <2>1, FailTurn
  <2> QED
    BY <2>2 DEF o
<1> HIDE DEF t
<1>3. Plain("error").type = "error"
  BY ServerFrames
<1>4. t.out = <<>> \/ t.out = <<Plain("error")>>
  BY <1>2
<1>5. Len(t.out) <= 1 /\ \A i \in 1..Len(t.out) : t.out[i].type = "error"
  <2>1. CASE t.out = <<>>
    BY <2>1
  <2>2. CASE t.out = <<Plain("error")>>
    BY <1>3, <2>2, OneFrame
  <2> QED
    BY <1>4, <2>1, <2>2
<1>6. r \in Runtimes /\ r.auth_pending \in BOOLEAN
  BY DEF SoundRuntime, Runtimes
<1>7. f.type = "auth_result" => ~ r.auth_pending
  BY DEF Expected
<1>8. ClientSays(t, r, f)
  BY <1>2, <1>5, <1>7 DEF ClientSays
<1> QED
  BY <1>2, <1>8 DEF Replies, t

(* A reply that sends nothing.                                             *)
LEMMA SilentReplies ==
    ASSUME NEW r, NEW f, NEW t, SoundTurn(t, r), t.out = <<>>,
           t.rt.session.state = "Ready" =>
               r.session.state = "Ready" \/ f.type = "ready",
           t.rt.ready_seen => r.ready_seen \/ f.type = "ready",
           f.type = "auth_result" => ~ t.rt.auth_pending,
           t.res = "Done" => f.type = "ready" /\ t.rt.ready_seen
    PROVE  Replies(t, r, f)
  BY DEF Replies, ClientSays

(* handle_client_message, AuthRequired.                                    *)
LEMMA RequiredReplies ==
    ASSUME NEW r, SoundRuntime(r), r.role = "Client",
           NEW f \in Frames, f.type = "auth_required", NEW k \in Nat
    PROVE  Replies(ClientAuthRequired(r, f, k), r, f)
<1> DEFINE asked == AcceptAuthRequired(r.session)
           next  == [r EXCEPT !.session = asked.session]
           taken == [next EXCEPT !.auth_pins = Tail(@), !.auth_pending = TRUE]
           t     == ClientAuthRequired(r, f, k)
<1>1. r \in Runtimes /\ Sound(r.session)
  BY DEF SoundRuntime
<1>2. /\ Called(r.session, asked)
      /\ asked.session.state = "Ready" => r.session.state = "Ready"
  BY <1>1, AskedCalled
<1>3. t = IF r.auth_pending \/ r.ready_seen THEN FailSession(r, <<>>, k)
          ELSE IF ~ asked.ok \/ r.auth_pins = <<>> THEN Abort(next)
          ELSE IF BlankPin(Head(r.auth_pins)) THEN Abort(taken)
          ELSE Sends(taken, <<AuthFrame(Head(r.auth_pins))>>, k, "More")
  BY DEF ClientAuthRequired
<1> HIDE DEF asked, t
<1>4. /\ SoundRuntime(next) /\ next.session = asked.session
      /\ next.role = r.role /\ next.ready_seen = r.ready_seen
      /\ next.auth_pending = r.auth_pending /\ next.auth_pins = r.auth_pins
  <2> DEFINE s == asked.session
  <2>1. Sound(s) /\ s.pin_required = r.session.pin_required
    BY <1>2 DEF Called
  <2> HIDE DEF s
  <2>2. LET u == [r EXCEPT !.session = s]
        IN  /\ SoundRuntime(u) /\ u.session = s /\ u.role = r.role
            /\ u.ready_seen = r.ready_seen /\ u.auth_pending = r.auth_pending
            /\ u.auth_pins = r.auth_pins
    BY <2>1, WithSession
  <2> QED
    BY <2>2 DEF s
<1> HIDE DEF next
<1>5. next.session.pin_required = r.session.pin_required
  BY <1>2, <1>4 DEF Called
<1>6. ASSUME r.auth_pins # <<>>
      PROVE  /\ SoundRuntime(taken) /\ taken.session = next.session
             /\ taken.role = r.role /\ taken.ready_seen = r.ready_seen
             /\ taken.auth_pending = TRUE
             /\ Head(r.auth_pins) \in Seq(Bytes)
  <2>1. next \in Runtimes
    BY <1>4 DEF SoundRuntime
  <2>2. r.auth_pins \in Seq(Seq(Bytes))
    BY <1>1 DEF Runtimes
  <2>3. Head(r.auth_pins) \in Seq(Bytes) /\ Tail(r.auth_pins) \in Seq(Seq(Bytes))
    BY <1>6, <2>2
  <2>4. taken = [next EXCEPT !.auth_pins = Tail(r.auth_pins), !.auth_pending = TRUE]
    BY <1>4
  <2> DEFINE rest == Tail(r.auth_pins)
             mid  == [next EXCEPT !.auth_pins = rest]
  <2>a. rest \in Seq(Seq(Bytes))
    BY <2>3
  <2> HIDE DEF rest
  <2>b. /\ mid \in Runtimes /\ mid.session = next.session
        /\ mid.role = next.role /\ mid.ready_seen = next.ready_seen
    BY <2>1, <2>a DEF Runtimes
  <2>c. taken = [mid EXCEPT !.auth_pending = TRUE]
    BY <2>4 DEF rest
  <2> HIDE DEF taken, mid
  <2>5. /\ taken \in Runtimes /\ taken.session = next.session
        /\ taken.role = r.role /\ taken.ready_seen = r.ready_seen
        /\ taken.auth_pending = TRUE
    BY <1>4, <2>b, <2>c DEF Runtimes
  <2>6. SoundRuntime(taken)
    BY <1>4, <2>5 DEF SoundRuntime
  <2> QED
    BY <2>3, <2>5, <2>6
<1> HIDE DEF taken
<1>7. CASE r.auth_pending \/ r.ready_seen
  <2>1. ~ Expected(r, f)
    BY <1>7 DEF Expected
  <2> QED
    BY <1>3, <1>7, <2>1, FailReplies DEF t
<1>8. CASE ~ (r.auth_pending \/ r.ready_seen)
  <2>1. CASE ~ asked.ok \/ r.auth_pins = <<>>
    <3>1. t = Abort(next)
      BY <1>3, <1>8, <2>1
    <3>2. /\ SoundTurn(t, r) /\ t.rt = next /\ t.out = <<>> /\ t.res = "Err"
      BY <1>4, <1>5, <3>1, AbortTurn
    <3>3. Replies(t, r, f)
      BY <1>2, <1>4, <3>2, SilentReplies
    <3> QED
      BY <3>3 DEF t
  <2>2. CASE asked.ok /\ r.auth_pins # <<>> /\ BlankPin(Head(r.auth_pins))
    <3>1. t = Abort(taken)
      BY <1>3, <1>8, <2>2
    <3>2. /\ SoundTurn(t, r) /\ t.rt = taken /\ t.out = <<>> /\ t.res = "Err"
      BY <1>5, <1>6, <2>2, <3>1, AbortTurn
    <3>3. Replies(t, r, f)
      BY <1>2, <1>4, <1>6, <2>2, <3>2, SilentReplies
    <3> QED
      BY <3>3 DEF t
  <2>3. CASE asked.ok /\ r.auth_pins # <<>> /\ ~ BlankPin(Head(r.auth_pins))
    <3> DEFINE pin == AuthFrame(Head(r.auth_pins))
    <3>1. t = Sends(taken, <<pin>>, k, "More")
      BY <1>3, <1>8, <2>3
    <3>2. pin \in Frames /\ pin.type = "auth"
      BY <1>6, <2>3, FramesMade DEF AuthFrame, Frame
    <3> HIDE DEF pin
    <3>3. OneSent(t, taken, pin)
      BY <3>1, <3>2, SendsOne
    <3>4. /\ t.rt = taken /\ t.out \in Seq(Frames) /\ t.shut = FALSE
          /\ t.res \in {"More", "Err"} /\ Len(t.out) <= 1
      BY <3>3 DEF OneSent
    <3>5. SoundTurn(t, r)
      BY <1>5, <1>6, <2>3, <3>4 DEF SoundTurn
    <3>7. \A i \in 1..Len(t.out) : t.out[i].type = "auth"
      BY <3>2, <3>3 DEF OneSent
    <3>8. ~ taken.ready_seen /\ taken.auth_pending
      BY <1>6, <1>8, <2>3
    <3>9. taken.session.state = "Ready" => r.session.state = "Ready"
      BY <1>2, <1>4, <1>6, <2>3
    <3>10. ClientSays(t, r, f)
      BY <3>4, <3>7, <3>8, <3>9 DEF ClientSays
    <3> QED
      BY <3>5, <3>10 DEF Replies, t
  <2> QED
    BY <2>1, <2>2, <2>3
<1> QED
  BY <1>7, <1>8

(* handle_client_message, AuthResult.                                      *)
LEMMA ResultReplies ==
    ASSUME NEW r, SoundRuntime(r), r.role = "Client",
           NEW f \in Frames, f.type = "auth_result", NEW k \in Nat
    PROVE  Replies(ClientAuthResult(r, f, k), r, f)
<1> DEFINE told == AcceptAuthResult(r.session, f.ok)
           mid  == [r EXCEPT !.session = told.session]
           next == [r EXCEPT !.auth_pending = FALSE, !.session = told.session]
           t    == ClientAuthResult(r, f, k)
<1>1. r \in Runtimes /\ Sound(r.session) /\ f.ok \in BOOLEAN
  BY DEF SoundRuntime, Frames
<1>2. Called(r.session, told) /\ told.session.state = r.session.state
  BY <1>1, ToldCalled
<1>3. t = IF ~ r.auth_pending THEN FailSession(r, <<>>, k)
          ELSE IF ~ told.ok THEN Abort(next)
          ELSE Sends(next, <<>>, k, "More")
  BY DEF ClientAuthResult
<1> HIDE DEF told, t
<1>4. /\ SoundRuntime(mid) /\ mid.session = told.session
      /\ mid.role = r.role /\ mid.ready_seen = r.ready_seen
  <2> DEFINE s == told.session
  <2>1. Sound(s) /\ s.pin_required = r.session.pin_required
    BY <1>2 DEF Called
  <2> HIDE DEF s
  <2>2. LET u == [r EXCEPT !.session = s]
        IN  /\ SoundRuntime(u) /\ u.session = s /\ u.role = r.role
            /\ u.ready_seen = r.ready_seen
    BY <2>1, WithSession
  <2> QED
    BY <2>2 DEF s
<1>5. next = [mid EXCEPT !.auth_pending = FALSE]
  BY <1>1 DEF Runtimes
<1> HIDE DEF mid, next
<1>6. /\ next \in Runtimes /\ next.session = told.session
      /\ next.role = r.role /\ next.ready_seen = r.ready_seen
      /\ next.auth_pending = FALSE
  BY <1>4, <1>5 DEF SoundRuntime, Runtimes
<1>7. SoundRuntime(next) /\ next.session.pin_required = r.session.pin_required
  BY <1>2, <1>4, <1>6 DEF SoundRuntime, Called
<1>8. CASE ~ r.auth_pending
  <2>1. ~ Expected(r, f)
    BY <1>8 DEF Expected
  <2> QED
    BY <1>3, <1>8, <2>1, FailReplies DEF t
<1>9. CASE r.auth_pending
  <2>1. /\ SoundTurn(t, r) /\ t.rt = next /\ t.out = <<>>
        /\ t.res \in {"More", "Err"}
    <3>1. CASE ~ told.ok
      BY <1>3, <1>6, <1>7, <1>9, <3>1, AbortTurn
    <3>2. CASE told.ok
      <4>1. t.rt = next /\ t.out = <<>> /\ t.shut = FALSE /\ t.res = "More"
        BY <1>3, <1>9, <3>2 DEF Sends
      <4>2. t.out \in Seq(Frames)
        BY <4>1
      <4> QED
        BY <1>6, <1>7, <4>1, <4>2 DEF SoundTurn
    <3> QED
      BY <3>1, <3>2
  <2>2. Replies(t, r, f)
    BY <1>2, <1>6, <2>1, SilentReplies
  <2> QED
    BY <2>2 DEF t
<1> QED
  BY <1>8, <1>9

(* handle_client_message, Ready.                                           *)
LEMMA ReadyReplies ==
    ASSUME NEW r, SoundRuntime(r), r.role = "Client",
           NEW f \in Frames, f.type = "ready", NEW k \in Nat
    PROVE  Replies(ClientReady(r, f, k), r, f)
<1> DEFINE entered == MarkReady(r.session)
           mid  == [r EXCEPT !.session = entered.session]
           next == [r EXCEPT !.session = entered.session, !.ready_seen = TRUE]
           t    == ClientReady(r, f, k)
<1>1. r \in Runtimes /\ Sound(r.session)
  BY DEF SoundRuntime
<1>2. Called(r.session, entered)
  BY <1>1, EnteredCalled
<1>3. t = IF r.ready_seen \/ r.auth_pending \/ ~ f.ok
          THEN FailSession(r, <<>>, k)
          ELSE IF ~ entered.ok THEN Abort(r)
          ELSE Sends(next, <<>>, k, "Done")
  BY DEF ClientReady
<1> HIDE DEF entered, t
<1>4. /\ SoundRuntime(mid) /\ mid.session = entered.session /\ mid.role = r.role
  <2> DEFINE s == entered.session
  <2>1. Sound(s) /\ s.pin_required = r.session.pin_required
    BY <1>2 DEF Called
  <2> HIDE DEF s
  <2>2. LET u == [r EXCEPT !.session = s]
        IN  SoundRuntime(u) /\ u.session = s /\ u.role = r.role
    BY <2>1, WithSession
  <2> QED
    BY <2>2 DEF s
<1>5. next = [mid EXCEPT !.ready_seen = TRUE]
  BY <1>1 DEF Runtimes
<1> HIDE DEF mid, next
<1>6. /\ next \in Runtimes /\ next.session = entered.session
      /\ next.role = r.role /\ next.ready_seen = TRUE
  BY <1>4, <1>5 DEF SoundRuntime, Runtimes
<1>7. SoundRuntime(next) /\ next.session.pin_required = r.session.pin_required
  BY <1>2, <1>4, <1>6 DEF SoundRuntime, Called
<1>8. CASE r.ready_seen \/ r.auth_pending \/ ~ f.ok
  <2>1. ~ Expected(r, f)
    BY <1>8 DEF Expected
  <2> QED
    BY <1>3, <1>8, <2>1, FailReplies DEF t
<1>9. CASE ~ (r.ready_seen \/ r.auth_pending \/ ~ f.ok)
  <2>1. CASE ~ entered.ok
    <3>1. /\ SoundTurn(t, r) /\ t.rt = r /\ t.out = <<>> /\ t.res = "Err"
      BY <1>3, <1>9, <2>1, AbortTurn
    <3>2. Replies(t, r, f)
      BY <3>1, SilentReplies
    <3> QED
      BY <3>2 DEF t
  <2>2. CASE entered.ok
    <3>1. t.rt = next /\ t.out = <<>> /\ t.shut = FALSE /\ t.res = "Done"
      BY <1>3, <1>9, <2>2 DEF Sends
    <3>2. t.out \in Seq(Frames)
      BY <3>1
    <3>3. SoundTurn(t, r)
      BY <1>6, <1>7, <3>1, <3>2 DEF SoundTurn
    <3>4. Replies(t, r, f)
      BY <1>6, <3>1, <3>3, SilentReplies
    <3> QED
      BY <3>4 DEF t
  <2> QED
    BY <2>1, <2>2
<1> QED
  BY <1>8, <1>9

(* Whatever frame a client handles, its reply is in order.                 *)
LEMMA ClientReplies ==
    ASSUME NEW r, SoundRuntime(r), r.role = "Client",
           NEW f \in Frames, NEW n \in Nat, NEW k \in Nat
    PROVE  Replies(HandleControl(r, f, n, k), r, f)
<1>1. HandleControl(r, f, n, k) = HandleClientMessage(r, f, k)
  BY DEF HandleControl
<1>2. CASE f.type = "auth_required"
  BY <1>1, <1>2, RequiredReplies DEF HandleClientMessage
<1>3. CASE f.type = "auth_result"
  BY <1>1, <1>3, ResultReplies DEF HandleClientMessage
<1>4. CASE f.type = "ready"
  BY <1>1, <1>4, ReadyReplies DEF HandleClientMessage
<1>5. CASE f.type \notin {"auth_required", "auth_result", "ready"}
  <2>1. HandleClientMessage(r, f, k) = FailSession(r, <<>>, k)
    BY <1>5 DEF HandleClientMessage
  <2>2. ~ Expected(r, f)
    BY <1>5 DEF Expected
  <2> QED
    BY <1>1, <2>1, <2>2, FailReplies
<1> QED
  BY <1>2, <1>3, <1>4, <1>5

-----------------------------------------------------------------------------
(* The frames left after the first was taken.                              *)
LEMMA TailOf ==
    ASSUME NEW q \in Seq(Frames), q # <<>>
    PROVE  /\ Head(q) = q[1] /\ Head(q) \in Frames /\ 1 \in 1..Len(q)
           /\ Tail(q) \in Seq(Frames) /\ Len(Tail(q)) = Len(q) - 1
           /\ \A i \in 1..Len(Tail(q)) :
                  i + 1 \in 1..Len(q) /\ Tail(q)[i] = q[i + 1]
  OBVIOUS

(* p is q with the frames o put after it.                                  *)
Joins(p, q, o) ==
    /\ p \in Seq(Frames) /\ Len(p) = Len(q) + Len(o)
    /\ \A i \in 1..Len(p) :
           \/ i \in 1..Len(q) /\ p[i] = q[i]
           \/ i - Len(q) \in 1..Len(o) /\ p[i] = o[i - Len(q)]

(* See Joins.                                                              *)
LEMMA Joined ==
    ASSUME NEW q \in Seq(Frames), NEW o \in Seq(Frames), NEW p, p = q \o o
    PROVE  Joins(p, q, o)
  BY DEF Joins

(* Every frame of p is one of q.                                           *)
From(p, q) == \A i \in 1..Len(p) : \E j \in 1..Len(q) : p[i] = q[j]

(* What Returns assigns, side by side.                                     *)
Arrives(x, y, t, rest, next) ==
    /\ rt' \in [Sides -> Runtimes] /\ rt'[x] = t.rt /\ rt'[y] = rt[y]
    /\ proc' \in [Sides -> Places] /\ proc'[x] = next /\ proc'[y] = proc[y]
    /\ inbox' \in [Sides -> Seq(Frames)] /\ inbox'[x] = rest
    /\ inbox'[y] = IF y \in closed THEN inbox[y] ELSE inbox[y] \o t.out
    /\ closed' = IF t.shut THEN closed \cup {x} ELSE closed
    /\ now' = now /\ strays' = strays

(* The two sides.                                                          *)
LEMMA TwoSides ==
    /\ Sides = {S, C} /\ S # C /\ Other(S) = C /\ Other(C) = S
    /\ S = "Server" /\ C = "Client"
  BY DEF Sides, S, C, Other

(* See Arrives.                                                            *)
LEMMA ReturnsAt ==
    ASSUME HandshakeTypes, NEW x \in Sides, NEW t, SoundTurn(t, rt[x]),
           NEW rest \in Seq(Frames), NEW next \in Places,
           Returns(x, t, rest, next)
    PROVE  Arrives(x, Other(x), t, rest, next)
<1> DEFINE y == Other(x)
<1>1. y \in Sides /\ x # y
  BY TwoSides
<1>2. t.rt \in Runtimes /\ t.out \in Seq(Frames)
  BY DEF SoundTurn, SoundRuntime
<1>3. inbox[y] \in Seq(Frames) /\ inbox[y] \o t.out \in Seq(Frames)
  BY <1>1, <1>2 DEF HandshakeTypes
<1> HIDE DEF y
<1>4. inbox' = [inbox EXCEPT ![x] = rest,
                    ![y] = IF y \in closed THEN @ ELSE @ \o t.out]
  BY DEF Returns, y
<1>5. /\ inbox' \in [Sides -> Seq(Frames)] /\ inbox'[x] = rest
      /\ inbox'[y] = IF y \in closed THEN inbox[y] ELSE inbox[y] \o t.out
  BY <1>1, <1>3, <1>4 DEF HandshakeTypes
<1>6. /\ rt' = [rt EXCEPT ![x] = t.rt] /\ proc' = [proc EXCEPT ![x] = next]
      /\ closed' = IF t.shut THEN closed \cup {x} ELSE closed
      /\ now' = now /\ strays' = strays
  BY DEF Returns
<1>7. /\ rt' \in [Sides -> Runtimes] /\ rt'[x] = t.rt /\ rt'[y] = rt[y]
      /\ proc' \in [Sides -> Places] /\ proc'[x] = next /\ proc'[y] = proc[y]
  BY <1>1, <1>2, <1>6 DEF HandshakeTypes
<1> QED
  BY <1>5, <1>6, <1>7 DEF Arrives, y

(* What a method of x has to say of ready: a server sends it only when it  *)
(* has seen to it, and a client is ready only because of it.               *)
ReadyInOrder(x, t) ==
    /\ x = S => \A i \in 1..Len(t.out) :
                    t.out[i].type = "ready" => t.rt.ready_seen
    /\ x = C /\ t.rt.session.state = "Ready" =>
           State(C) = "Ready" \/ Carries(C, "ready")
    /\ x = C => \A i \in 1..Len(t.out) : t.out[i].type # "ready"

(* Any method keeps the base, whatever the frame it was called for.        *)
LEMMA BaseReturns ==
    ASSUME Base, NEW x \in Sides, NEW t, SoundTurn(t, rt[x]),
           ReadyInOrder(x, t), NEW rest \in Seq(Frames), From(rest, inbox[x]),
           NEW next \in Places, faults' \in Nat,
           x \in closed \/ t.shut => next \in {"ended", "closed"},
           Arrives(x, Other(x), t, rest, next)
    PROVE  Base'
<1> DEFINE y == Other(x)
<1>1. y \in Sides /\ x # y /\ Sides = {x, y}
  BY TwoSides
<1>2. HandshakeTypes /\ ClosedIsDone /\ ReadyFollows
  BY DEF Base
<1>3. t.out \in Seq(Frames) /\ t.shut \in BOOLEAN
  BY DEF SoundTurn
<1>4. Arrives(x, y, t, rest, next)
  OBVIOUS
<1>5. (x = S /\ y = C) \/ (x = C /\ y = S)
  BY TwoSides
<1> HIDE DEF y
<1>6. HandshakeTypes'
  <2>1. SoundRuntime(rt'[x]) /\ rt'[x].role = x
    BY <1>2, <1>4 DEF Arrives, HandshakeTypes, SoundTurn
  <2>2. SoundRuntime(rt'[y]) /\ rt'[y].role = y
    BY <1>1, <1>2, <1>4 DEF Arrives, HandshakeTypes
  <2>3. closed' \in SUBSET Sides
    BY <1>2, <1>4 DEF Arrives, HandshakeTypes
  <2> QED
    BY <1>1, <1>2, <1>4, <2>1, <2>2, <2>3 DEF Arrives, HandshakeTypes
<1>7. ClosedIsDone'
  <2> SUFFICES ASSUME NEW z \in closed' PROVE proc'[z] \in {"ended", "closed"}
    BY DEF ClosedIsDone
  <2>1. z \in closed \/ (t.shut /\ z = x)
    BY <1>4 DEF Arrives
  <2>2. z = x \/ z = y
    BY <1>1, <1>2, <2>1 DEF HandshakeTypes
  <2> QED
    BY <1>2, <1>4, <2>1, <2>2 DEF ClosedIsDone, Arrives
<1>8. ReadyFollows'
  <2> SUFFICES ASSUME C \notin strays,
                      rt'[C].session.state = "Ready" \/ Carries(C, "ready")'
               PROVE  rt'[S].ready_seen
    BY <1>4 DEF ReadyFollows, Arrives, State
  <2>1. CASE x = S
    <3>1. y = C /\ rt'[C] = rt[C] /\ rt'[S] = t.rt
      BY <1>4, <1>5, <2>1, TwoSides DEF Arrives
    <3>2. rt[S].ready_seen => t.rt.ready_seen
      BY <2>1 DEF SoundTurn
    <3>3. CASE State(C) = "Ready" \/ Carries(C, "ready")
      BY <1>2, <3>1, <3>2, <3>3 DEF ReadyFollows
    <3>4. CASE ~ (State(C) = "Ready" \/ Carries(C, "ready"))
      <4>1. PICK i \in 1..Len(inbox'[C]) : inbox'[C][i].type = "ready"
        BY <3>1, <3>4 DEF State, Carries
      <4>2. C \notin closed /\ inbox'[C] = inbox[C] \o t.out
        BY <1>4, <3>1, <3>4, <4>1 DEF Arrives, Carries
      <4>3. inbox[C] \in Seq(Frames)
        BY <1>1, <1>2, <3>1 DEF HandshakeTypes
      <4>4. \E j \in 1..Len(t.out) : t.out[j].type = "ready"
        <5>1. Joins(inbox'[C], inbox[C], t.out)
          BY <1>3, <4>2, <4>3, Joined
        <5> QED
          BY <3>4, <4>1, <5>1 DEF Carries, Joins
      <4> QED
        BY <2>1, <3>1, <4>4 DEF ReadyInOrder
    <3> QED
      BY <3>3, <3>4
  <2>2. CASE x = C
    <3>1. y = S /\ rt'[S] = rt[S] /\ rt'[C] = t.rt /\ inbox'[C] = rest
      BY <1>4, <1>5, <2>2, TwoSides DEF Arrives
    <3>2. Carries(C, "ready")' => Carries(C, "ready")
      BY <2>2, <3>1 DEF Carries, From
    <3>3. State(C) = "Ready" \/ Carries(C, "ready")
      BY <2>2, <3>1, <3>2 DEF ReadyInOrder
    <3> QED
      BY <1>2, <3>1, <3>3 DEF ReadyFollows
  <2> QED
    BY <1>5, <2>1, <2>2
<1> QED
  BY <1>6, <1>7, <1>8 DEF Base

-----------------------------------------------------------------------------
(* p is the beginning of q, and after it nothing but FINs.                 *)
Keeps(p, q) ==
    \A i \in 1..Len(p) :
        \/ i \in 1..Len(q) /\ p[i] = q[i]
        \/ \A j \in i..Len(p) : p[j].type = "fin"

(* A step in which nobody says anything but that it closes.                *)
Still ==
    /\ strays' = strays /\ closed \subseteq closed'
    /\ \A x \in Sides :
           /\ rt'[x].ready_seen = rt[x].ready_seen
           /\ rt'[x].auth_pending = rt[x].auth_pending
           /\ rt'[x].session.pin_required = rt[x].session.pin_required
           /\ rt'[x].session.auth_attempts = rt[x].session.auth_attempts
           /\ \/ proc'[x] \in {proc[x], "ended", "closed"}
              \/ x = S /\ proc'[x] = "handshake"
           /\ Keeps(inbox'[x], inbox[x])
           /\ Carries(x, "fin")' => Carries(x, "fin") \/ Other(x) \in closed'

(* Such a step keeps the order of the conversation.                        *)
LEMMA StillTalks ==
    ASSUME Base, Base', Talk, PinBudget, Still
    PROVE  Talk' /\ PinBudget'
<1>1. \A x \in Sides : inbox[x] \in Seq(Frames) /\ inbox'[x] \in Seq(Frames)
  BY DEF Base, HandshakeTypes
<1>2. S \in Sides /\ C \in Sides
  BY TwoSides
<1>3. \A x \in Sides : Len(inbox[x]) \in Nat /\ Len(inbox'[x]) \in Nat
  BY <1>1
<1>4. ASSUME NEW x \in Sides
      PROVE  /\ OnlyFins(x) => OnlyFins(x)'
             /\ \A type : type # "fin" => (Carries(x, type)' => Carries(x, type))
             /\ \A i \in 1..Len(inbox'[x]) : inbox'[x][i].type # "fin" =>
                    i \in 1..Len(inbox[x]) /\ inbox'[x][i] = inbox[x][i]
  <2>1. Keeps(inbox'[x], inbox[x]) /\ Len(inbox'[x]) \in Nat
    BY <1>3 DEF Still
  <2>2. \A i \in 1..Len(inbox'[x]) : inbox'[x][i].type # "fin" =>
            i \in 1..Len(inbox[x]) /\ inbox'[x][i] = inbox[x][i]
    <3> SUFFICES ASSUME NEW i \in 1..Len(inbox'[x]), inbox'[x][i].type # "fin"
                 PROVE  i \in 1..Len(inbox[x]) /\ inbox'[x][i] = inbox[x][i]
      OBVIOUS
    <3>1. i \in i..Len(inbox'[x])
      BY <2>1
    <3> QED
      BY <2>1, <3>1 DEF Keeps
  <2>3. OnlyFins(x) => OnlyFins(x)'
    BY <2>2 DEF OnlyFins
  <2>4. \A type : type # "fin" => (Carries(x, type)' => Carries(x, type))
    BY <2>2 DEF Carries
  <2> QED
    BY <2>2, <2>3, <2>4
<1>5. /\ proc'[C] = "idle" => proc[C] = "idle"
      /\ proc'[C] = "up" => proc[C] = "up"
      /\ proc'[S] = "up" => proc[S] = "up"
      /\ rt'[C].ready_seen = rt[C].ready_seen
      /\ rt'[C].auth_pending = rt[C].auth_pending
      /\ closed \subseteq closed'
      /\ S \in Sides /\ C \in Sides
  BY <1>2, TwoSides DEF Still
<1>6. FinsFromClosed'
  BY DEF Talk, Still, FinsFromClosed
<1>7. ToServer'
  <2> SUFFICES ASSUME NEW i \in 1..Len(inbox'[S])
               PROVE  LET type == inbox'[S][i].type
                      IN  /\ type \in {"connect", "auth", "fin"}
                          /\ type # "fin" =>
                                 i = 1 /\ ~ rt'[C].ready_seen /\ proc'[C] # "idle"
                          /\ type = "connect" => ~ rt'[C].auth_pending
                          /\ type = "auth" => rt'[C].auth_pending
    BY DEF ToServer
  <2>1. CASE inbox'[S][i].type = "fin"
    BY <2>1
  <2>2. CASE inbox'[S][i].type # "fin"
    <3>1. i \in 1..Len(inbox[S]) /\ inbox'[S][i] = inbox[S][i]
      BY <1>4, <1>5, <2>2
    <3> QED
      BY <1>5, <2>2, <3>1 DEF Talk, ToServer
  <2> QED
    BY <2>1, <2>2
<1>8. ToClient'
  <2> SUFFICES ASSUME NEW i \in 1..Len(inbox'[C])
               PROVE  LET type == inbox'[C][i].type
                      IN  /\ type \in {"auth_required", "auth_result", "ready",
                                       "error", "fin"}
                          /\ type = "auth_result" => i = 1 /\ rt'[C].auth_pending
                          /\ type \in {"auth_required", "ready"} =>
                                 /\ ~ rt'[C].ready_seen
                                 /\ i = 1 => ~ rt'[C].auth_pending
                                 /\ inbox'[C][i].ok
                          /\ type = "error" => S \in closed'
                          /\ type # "auth_result" =>
                                 \A j \in i + 1..Len(inbox'[C]) :
                                     inbox'[C][j].type = "fin"
    BY DEF ToClient
  <2>1. Keeps(inbox'[C], inbox[C]) /\ Len(inbox'[C]) \in Nat
    BY <1>3, <1>5 DEF Still
  <2>2. CASE \A j \in i..Len(inbox'[C]) : inbox'[C][j].type = "fin"
    <3>1. inbox'[C][i].type = "fin"
      BY <2>1, <2>2
    <3>2. \A j \in i + 1..Len(inbox'[C]) : inbox'[C][j].type = "fin"
      BY <2>1, <2>2
    <3> QED
      BY <3>1, <3>2
  <2>3. CASE i \in 1..Len(inbox[C]) /\ inbox'[C][i] = inbox[C][i]
    <3>1. ASSUME inbox[C][i].type # "auth_result",
                 NEW j \in i + 1..Len(inbox'[C])
          PROVE  inbox'[C][j].type = "fin"
      <4>1. \A m \in i + 1..Len(inbox[C]) : inbox[C][m].type = "fin"
        BY <2>3, <3>1 DEF Talk, ToClient
      <4>2. j \in 1..Len(inbox'[C]) /\ j > i
        BY <2>1
      <4>3. inbox'[C][j].type # "fin" =>
                j \in 1..Len(inbox[C]) /\ inbox'[C][j] = inbox[C][j]
        BY <1>4, <1>5, <4>2
      <4>4. j \in 1..Len(inbox[C]) => j \in i + 1..Len(inbox[C])
        BY <1>3, <1>5, <4>2
      <4> QED
        BY <4>1, <4>3, <4>4
    <3> QED
      BY <1>5, <2>3, <3>1 DEF Talk, ToClient
  <2> QED
    BY <2>1, <2>2, <2>3 DEF Keeps
<1>9. InTurn' /\ ClientIdle' /\ ClientUp' /\ ServerUp'
  <2>1. /\ OnlyFins(S) => OnlyFins(S)'
        /\ OnlyFins(C) => OnlyFins(C)'
        /\ Carries(C, "auth_required")' => Carries(C, "auth_required")
    BY <1>4, <1>5
  <2> QED
    BY <1>5, <2>1 DEF Talk, InTurn, ClientIdle, ClientUp, ServerUp
<1>10. PinBudget'
  <2>1. /\ Carries(C, "auth_required")' => Carries(C, "auth_required")
        /\ Carries(S, "connect")' => Carries(S, "connect")
        /\ Carries(S, "auth")' => Carries(S, "auth")
    BY <1>4, <1>5
  <2>2. /\ rt'[S].session.pin_required = rt[S].session.pin_required
        /\ rt'[S].session.auth_attempts = rt[S].session.auth_attempts
    BY <1>5 DEF Still
  <2> QED
    BY <1>5, <2>1, <2>2 DEF PinBudget
<1> QED
  BY <1>6, <1>7, <1>8, <1>9, <1>10 DEF Talk

-----------------------------------------------------------------------------
(* A method that sent nothing and left what matters to the other side.     *)
SaysNothing(t, r) ==
    /\ SoundTurn(t, r) /\ t.out = <<>> /\ t.shut = FALSE
    /\ t.rt.ready_seen = r.ready_seen /\ t.rt.auth_pending = r.auth_pending
    /\ t.rt.session.auth_attempts = r.session.auth_attempts
    /\ t.rt.session.state = "Ready" => r.session.state = "Ready"

(* Such a method keeps the invariant.                                      *)
LEMMA QuietReturns ==
    ASSUME HandshakeInv, NEW x \in Sides, NEW t, SaysNothing(t, rt[x]),
           NEW rest \in Seq(Frames), From(rest, inbox[x]),
           strays = {} => Keeps(rest, inbox[x]),
           NEW next \in Places, faults' \in Nat,
           next = "ended" \/ (x = S /\ next = "handshake" /\ x \notin closed),
           Returns(x, t, rest, next)
    PROVE  HandshakeInv'
<1> DEFINE y == Other(x)
<1>1. y \in Sides /\ x # y /\ Sides = {x, y}
  BY TwoSides
<1>2. Base /\ HandshakeTypes
  BY DEF HandshakeInv, Base
<1>3. SoundTurn(t, rt[x]) /\ t.out = <<>> /\ t.shut = FALSE
  BY DEF SaysNothing
<1>4. Arrives(x, y, t, rest, next)
  BY <1>2, <1>3, ReturnsAt
<1>5. ReadyInOrder(x, t)
  <2>1. t.rt.session.state = "Ready" => rt[x].session.state = "Ready"
    BY DEF SaysNothing
  <2> QED
    BY <1>3, <2>1 DEF ReadyInOrder, State
<1>6. Base'
  BY <1>2, <1>3, <1>4, <1>5, BaseReturns
<1> HIDE DEF y
<1>7. inbox'[y] = inbox[y]
  <2>1. inbox[y] \in Seq(Frames)
    BY <1>1, <1>2 DEF HandshakeTypes
  <2>2. inbox[y] \o <<>> = inbox[y]
    BY <2>1
  <2> QED
    BY <1>3, <1>4, <2>2 DEF Arrives
<1>8. ASSUME strays = {} PROVE Talk' /\ PinBudget'
  <2>1. Talk /\ PinBudget
    BY <1>8 DEF HandshakeInv
  <2>2. /\ rt'[x].ready_seen = rt[x].ready_seen
        /\ rt'[x].auth_pending = rt[x].auth_pending
        /\ rt'[x].session.pin_required = rt[x].session.pin_required
        /\ rt'[x].session.auth_attempts = rt[x].session.auth_attempts
        /\ \/ proc'[x] \in {proc[x], "ended", "closed"}
           \/ x = S /\ proc'[x] = "handshake"
    BY <1>4 DEF Arrives, SaysNothing, SoundTurn
  <2>3. Keeps(inbox'[x], inbox[x]) /\ (Carries(x, "fin")' => Carries(x, "fin"))
    BY <1>4, <1>8 DEF Arrives, Carries, From
  <2>4. /\ rt'[y] = rt[y] /\ proc'[y] = proc[y]
        /\ Keeps(inbox'[y], inbox[y]) /\ (Carries(y, "fin")' => Carries(y, "fin"))
    BY <1>4, <1>7 DEF Arrives, Keeps, Carries
  <2>5. strays' = strays /\ closed' = closed
    BY <1>3, <1>4 DEF Arrives
  <2>6. Still
    BY <1>1, <2>2, <2>3, <2>4, <2>5 DEF Still
  <2> QED
    BY <1>2, <1>6, <2>1, <2>6, StillTalks
<1>9. strays' = strays
  BY <1>4 DEF Arrives
<1> QED
  BY <1>6, <1>8, <1>9 DEF HandshakeInv

(* The end of a call closes the session quietly.                           *)
LEMMA CloseIsQuiet ==
    ASSUME NEW r, SoundRuntime(r), NEW res \in {"Done", "Err"}
    PROVE  SaysNothing(CloseAnd(r, res), r)
<1> DEFINE t == CloseAnd(r, res)
<1>1. /\ SoundTurn(t, r) /\ t.shut = FALSE
      /\ t.out = <<>> /\ t.rt.session.state = "Closed"
      /\ t.rt.session.auth_attempts = r.session.auth_attempts
      /\ t.rt.ready_seen = r.ready_seen
      /\ t.rt.auth_pending = r.auth_pending
  BY CloseTurn
<1> HIDE DEF t
<1>2. SaysNothing(t, r)
  BY <1>1 DEF SaysNothing
<1> QED
  BY <1>2 DEF t

(* Nothing was taken from the inbox.                                       *)
LEMMA NothingTaken ==
    ASSUME HandshakeInv, NEW x \in Sides
    PROVE  /\ inbox[x] \in Seq(Frames) /\ From(inbox[x], inbox[x])
           /\ Keeps(inbox[x], inbox[x]) /\ SoundRuntime(rt[x])
<1>1. inbox[x] \in Seq(Frames) /\ SoundRuntime(rt[x])
  BY DEF HandshakeInv, Base, HandshakeTypes
<1> QED
  BY <1>1 DEF From, Keeps

(* Faults are counted.                                                     *)
LEMMA FaultsCounted ==
    ASSUME HandshakeInv
    PROVE  /\ \A n \in Nat : Fault(n) => faults' \in Nat
           /\ \A x, k : Succeed(x, k) => k \in Nat /\ faults' \in Nat
<1>1. faults \in Nat
  BY DEF HandshakeInv, Base, HandshakeTypes
<1>2. \A n \in Nat : Fault(n) => faults' \in Nat
  BY <1>1 DEF Fault
<1>3. ASSUME NEW x, NEW k, Succeed(x, k) PROVE k \in Nat /\ faults' \in Nat
  <2> DEFINE n == IF k < 2 /\ Other(x) \notin closed THEN 1 ELSE 0
  <2>1. n \in Nat /\ Fault(n) /\ k \in Nat
    BY <1>3 DEF Succeed
  <2> HIDE DEF n
  <2> QED
    BY <1>2, <2>1
<1> QED
  BY <1>2, <1>3

(* A timer, a lost connection or a drained channel ends a call.            *)
LEMMA EndSteps ==
    ASSUME HandshakeInv, NEW x \in Sides,
           \/ HandshakeDisconnected(x) \/ HandshakeTimeout(x)
           \/ LoopDisconnected(x) \/ LoopTimeout(x)
    PROVE  HandshakeInv'
<1>1. /\ inbox[x] \in Seq(Frames) /\ From(inbox[x], inbox[x])
      /\ Keeps(inbox[x], inbox[x]) /\ SoundRuntime(rt[x])
  BY NothingTaken
<1>2. faults' \in Nat
  <2>1. \/ faults' = faults
        \/ Fault(IF Quiet(x) THEN 0 ELSE 1)
    BY DEF HandshakeDisconnected, HandshakeTimeout, LoopDisconnected, LoopTimeout
  <2>2. faults \in Nat
    BY DEF HandshakeInv, Base, HandshakeTypes
  <2> QED
    BY <2>1, <2>2, FaultsCounted
<1>3. PICK res \in {"Done", "Err"} :
          Returns(x, CloseAnd(rt[x], res), inbox[x], "ended")
  BY DEF HandshakeDisconnected, HandshakeTimeout, LoopDisconnected, LoopTimeout
<1>4. SaysNothing(CloseAnd(rt[x], res), rt[x])
  BY <1>1, CloseIsQuiet
<1>5. "ended" \in Places
  BY DEF Places
<1> QED
  BY <1>1, <1>2, <1>3, <1>4, <1>5, QuietReturns

(* A step that changes neither a runtime nor the channel.                  *)
LEMMA RestSteps ==
    ASSUME HandshakeInv, rt' = rt, inbox' = inbox, closed' = closed,
           strays' = strays, proc' \in [Sides -> Places],
           \A x \in Sides : proc'[x] \in {proc[x], "ended"},
           now' \in Nat, faults' \in Nat
    PROVE  HandshakeInv'
<1>1. Base /\ HandshakeTypes /\ ClosedIsDone /\ ReadyFollows
  BY DEF HandshakeInv, Base
<1>2. HandshakeTypes'
  BY <1>1 DEF HandshakeTypes
<1>3. ClosedIsDone'
  BY <1>1 DEF ClosedIsDone, HandshakeTypes
<1>4. ReadyFollows'
  BY <1>1 DEF ReadyFollows, State, Carries
<1>5. Base'
  BY <1>2, <1>3, <1>4 DEF Base
<1>6. Still
  <2>1. \A x \in Sides : /\ Keeps(inbox[x], inbox[x])
                         /\ Carries(x, "fin")' => Carries(x, "fin")
    BY DEF Keeps, Carries
  <2> QED
    BY <2>1 DEF Still
<1>7. strays = {} => Talk' /\ PinBudget'
  BY <1>1, <1>5, <1>6, StillTalks DEF HandshakeInv
<1> QED
  BY <1>5, <1>7 DEF HandshakeInv

(* A frame that the protocol does not call for: from here on the order of  *)
(* the conversation is lost.                                               *)
LEMMA StrayStep ==
    ASSUME HandshakeInv, NEW x \in Sides, NEW f \in StrayFrames, Stray(x, f)
    PROVE  HandshakeInv'
<1>1. HandshakeTypes /\ ClosedIsDone /\ ReadyFollows
  BY DEF HandshakeInv, Base
<1>2. /\ rt' = rt /\ proc' = proc /\ closed' = closed /\ now' = now
      /\ inbox' = [inbox EXCEPT ![x] = Append(@, f)]
      /\ strays' = strays \cup {x} /\ Fault(1)
  BY DEF Stray
<1>3. f \in Frames
  BY HandshakeConstants
<1>4. faults' \in Nat
  BY <1>2, FaultsCounted
<1>5. Append(inbox[x], f) \in Seq(Frames)
  BY <1>1, <1>3 DEF HandshakeTypes
<1>6. inbox' \in [Sides -> Seq(Frames)] /\ (x # C => inbox'[C] = inbox[C])
  BY <1>1, <1>2, <1>5, TwoSides DEF HandshakeTypes
<1>7. HandshakeTypes'
  BY <1>1, <1>2, <1>4, <1>6 DEF HandshakeTypes
<1>8. ClosedIsDone'
  BY <1>1, <1>2 DEF ClosedIsDone
<1>9. ReadyFollows'
  <2>1. CASE x = C
    BY <1>2, <2>1 DEF ReadyFollows
  <2>2. CASE x # C
    BY <1>1, <1>2, <1>6, <2>2 DEF ReadyFollows, State, Carries
  <2> QED
    BY <2>1, <2>2
<1>10. strays' # {}
  BY <1>2
<1> QED
  BY <1>7, <1>8, <1>9, <1>10 DEF HandshakeInv, Base

(* What a close leaves on the channel: the beginning of what was sent.     *)
LEMMA CutShort ==
    ASSUME NEW q \in Seq(Frames), NEW fin \in Frames, fin.type = "fin",
           NEW o, o = <<>> \/ o = <<fin>>,
           NEW lost \in Nat, lost <= Len(q \o o),
           NEW p, p = SubSeq(q \o o, 1, Len(q \o o) - lost)
    PROVE  p \in Seq(Frames) /\ Keeps(p, q)
<1> DEFINE w == q \o o
<1>1. o \in Seq(Frames) /\ Len(o) <= 1 /\ \A i \in 1..Len(o) : o[i].type = "fin"
  <2>1. CASE o = <<>>
    BY <2>1
  <2>2. CASE o = <<fin>>
    BY <2>2
  <2> QED
    BY <2>1, <2>2
<1>2. Joins(w, q, o)
  BY <1>1, Joined
<1> HIDE DEF w
<1>3. p = SubSeq(w, 1, Len(w) - lost) /\ lost <= Len(w)
  BY DEF w
<1>4. w \in Seq(Frames) /\ Len(w) = Len(q) + Len(o) /\ Len(q) \in Nat /\ Len(o) \in Nat
  BY <1>1, <1>2 DEF Joins
<1> DEFINE n == Len(w) - lost
<1>5. n \in 0..Len(w)
  BY <1>3, <1>4
<1>6. p = SubSeq(w, 1, n)
  BY <1>3
<1> HIDE DEF n
<1>7. p \in Seq(Frames) /\ Len(p) = n /\ \A i \in 1..n : p[i] = w[i]
  <2>1. n \in Nat /\ n <= Len(w)
    BY <1>4, <1>5
  <2> DEFINE v == SubSeq(w, 1, n)
  <2>2. v \in Seq(Frames) /\ Len(v) = n /\ \A i \in 1..n : v[i] = w[i]
    BY <1>4, <2>1
  <2> QED
    BY <1>6, <2>2
<1>8. Keeps(p, q)
  <2> SUFFICES ASSUME NEW i \in 1..Len(p)
               PROVE  \/ i \in 1..Len(q) /\ p[i] = q[i]
                      \/ \A j \in i..Len(p) : p[j].type = "fin"
    BY DEF Keeps
  <2>1. i \in 1..Len(w) /\ p[i] = w[i]
    BY <1>4, <1>5, <1>7
  <2>2. CASE i \in 1..Len(q) /\ w[i] = q[i]
    BY <2>1, <2>2
  <2>3. CASE i - Len(q) \in 1..Len(o) /\ w[i] = o[i - Len(q)]
    <3>1. i = Len(w) /\ \A j \in i..Len(p) : j = i
      BY <1>1, <1>4, <1>5, <1>7, <2>1, <2>3
    <3>2. p[i].type = "fin"
      BY <1>1, <2>1, <2>3
    <3> QED
      BY <3>1, <3>2
  <2> QED
    BY <1>2, <2>1, <2>2, <2>3 DEF Joins
<1> QED
  BY <1>7, <1>8

(* The owner closes the runtime.                                           *)
LEMMA CloseSteps ==
    ASSUME HandshakeInv, NEW x \in Sides, CloseAt(x)
    PROVE  HandshakeInv'
<1> DEFINE y == Other(x)
<1>1. y \in Sides /\ x # y /\ Sides = {x, y} /\ Other(y) = x
  BY TwoSides
<1>2. Base /\ HandshakeTypes /\ ClosedIsDone /\ ReadyFollows
  BY DEF HandshakeInv, Base
<1>3. PICK k \in 0..1, lost \in 0..Len(inbox[y]) + 1 :
          LET turn == CloseRuntime(rt[x], k)
              sent == inbox[y] \o IF y \in closed THEN <<>> ELSE turn.out
          IN  /\ lost <= Len(sent)
              /\ Fault((IF k = 0 /\ y \notin closed THEN 1 ELSE 0)
                           + (IF lost > 0 THEN 1 ELSE 0))
              /\ rt' = [rt EXCEPT ![x] = turn.rt]
              /\ proc' = [proc EXCEPT ![x] = "closed"]
              /\ inbox' = [inbox EXCEPT
                              ![x] = <<>>,
                              ![y] = SubSeq(sent, 1, Len(sent) - lost)]
              /\ closed' = closed \cup {x}
              /\ UNCHANGED <<now, strays>>
  BY DEF CloseAt
<1> DEFINE turn == CloseRuntime(rt[x], k)
           o    == IF y \in closed THEN <<>> ELSE turn.out
           sent == inbox[y] \o o
           p    == SubSeq(sent, 1, Len(sent) - lost)
           u    == [rt[x] EXCEPT !.session = CloseSession(@)]
<1> HIDE DEF y
<1>4. inbox[y] \in Seq(Frames) /\ SoundRuntime(rt[x]) /\ rt[x].role = x
  BY <1>1, <1>2 DEF HandshakeTypes
<1>5. turn.rt = u /\ (turn.out = <<>> \/ turn.out = <<Plain("fin")>>)
  BY DEF CloseRuntime
<1>6. /\ lost <= Len(sent) /\ rt' = [rt EXCEPT ![x] = u]
      /\ proc' = [proc EXCEPT ![x] = "closed"]
      /\ inbox' = [inbox EXCEPT ![x] = <<>>, ![y] = p]
      /\ closed' = closed \cup {x} /\ now' = now /\ strays' = strays
  BY <1>3, <1>5
<1>7. faults' \in Nat
  <2> DEFINE n == (IF k = 0 /\ y \notin closed THEN 1 ELSE 0)
                      + (IF lost > 0 THEN 1 ELSE 0)
  <2>1. n \in Nat /\ Fault(n)
    BY <1>3
  <2> HIDE DEF n
  <2> QED
    BY <2>1, FaultsCounted
<1>8. p \in Seq(Frames) /\ Keeps(p, inbox[y])
  <2>1. Plain("fin") \in Frames /\ Plain("fin").type = "fin"
    BY FramesMade, ServerFrames
  <2>2. o = <<>> \/ o = <<Plain("fin")>>
    BY <1>5
  <2>3. lost \in Nat
    BY <1>3, <1>4
  <2> HIDE DEF o
  <2> QED
    BY <1>4, <1>6, <2>1, <2>2, <2>3, CutShort
<1>9. /\ SoundRuntime(u) /\ u.role = rt[x].role /\ u.session.state = "Closed"
      /\ u.session.pin_required = rt[x].session.pin_required
      /\ u.session.auth_attempts = rt[x].session.auth_attempts
      /\ u.ready_seen = rt[x].ready_seen /\ u.auth_pending = rt[x].auth_pending
  BY <1>4, ClosedRuntime
<1> HIDE DEF u, p, turn, sent, o
<1>10. /\ inbox' \in [Sides -> Seq(Frames)] /\ inbox'[x] = <<>> /\ inbox'[y] = p
       /\ rt' \in [Sides -> Runtimes] /\ rt'[x] = u /\ rt'[y] = rt[y]
       /\ proc' \in [Sides -> Places] /\ proc'[x] = "closed" /\ proc'[y] = proc[y]
       /\ closed' \in SUBSET Sides
  <2>1. u \in Runtimes
    BY <1>9 DEF SoundRuntime
  <2>2. <<>> \in Seq(Frames)
    OBVIOUS
  <2> QED
    BY <1>1, <1>2, <1>6, <1>8, <2>1, <2>2 DEF HandshakeTypes, Places
<1>11. HandshakeTypes'
  BY <1>1, <1>2, <1>4, <1>6, <1>7, <1>9, <1>10 DEF HandshakeTypes
<1>12. ClosedIsDone'
  BY <1>1, <1>2, <1>6, <1>10 DEF ClosedIsDone, HandshakeTypes
<1>13. Len(inbox'[y]) \in Nat /\ Keeps(inbox'[y], inbox[y])
  BY <1>8, <1>10
<1>14. Keeps(inbox'[x], inbox[x]) /\ \A type : ~ Carries(x, type)'
  BY <1>10 DEF Keeps, Carries
<1>15. Carries(y, "ready")' => Carries(y, "ready")
  BY <1>13 DEF Keeps, Carries
<1>16. ReadyFollows'
  <2>1. (x = S /\ y = C) \/ (x = C /\ y = S)
    BY <1>1, TwoSides
  <2>2. CASE x = S /\ y = C
    BY <1>2, <1>6, <1>9, <1>10, <1>15, <2>2 DEF ReadyFollows, State
  <2>3. CASE x = C /\ y = S
    BY <1>6, <1>9, <1>10, <1>14, <2>3 DEF ReadyFollows, State
  <2> QED
    BY <2>1, <2>2, <2>3
<1>17. Base'
  BY <1>11, <1>12, <1>16 DEF Base
<1>18. Still
  BY <1>1, <1>6, <1>9, <1>10, <1>13, <1>14 DEF Still
<1>19. strays = {} => Talk' /\ PinBudget'
  BY <1>2, <1>17, <1>18, StillTalks DEF HandshakeInv
<1> QED
  BY <1>6, <1>17, <1>19 DEF HandshakeInv

-----------------------------------------------------------------------------
(* While the other end is open, nothing but FINs is nothing at all.        *)
LEMMA NoFins ==
    ASSUME Base, Talk, NEW x \in Sides, OnlyFins(x), Other(x) \notin closed
    PROVE  inbox[x] = <<>>
<1>1. inbox[x] \in Seq(Frames)
  BY DEF Base, HandshakeTypes
<1>2. ~ Carries(x, "fin")
  BY DEF Talk, FinsFromClosed
<1>3. \A i \in 1..Len(inbox[x]) : FALSE
  BY <1>2 DEF OnlyFins, Carries
<1>4. Len(inbox[x]) \in Nat
  BY <1>1
<1>5. Len(inbox[x]) = 0
  <2>1. Len(inbox[x]) # 0 => 1 \in 1..Len(inbox[x])
    BY <1>4
  <2> QED
    BY <1>3, <2>1
<1> QED
  BY <1>1, <1>5

(* What is said over an empty channel is all there is.                     *)
LEMMA OnEmpty ==
    ASSUME NEW o \in Seq(Frames), NEW q, q = <<>>, NEW p, NEW b \in BOOLEAN,
           p = IF b THEN q ELSE q \o o
    PROVE  p = <<>> \/ p = o
  OBVIOUS

(* An owner that has not called handshake holds its peer.                  *)
LEMMA AtWork ==
    ASSUME Base, NEW x \in Sides, proc[x] \in {"idle", "handshake", "up"}
    PROVE  x \notin closed
  BY DEF Base, ClosedIsDone

(* handshake is called: a server listens, a client announces itself.       *)
LEMMA StartTurn ==
    ASSUME NEW r, SoundRuntime(r), NEW k \in Nat
    PROVE  LET t == StartHandshake(r, k)
           IN  /\ SoundTurn(t, r) /\ t.shut = FALSE /\ t.res \in {"More", "Err"}
               /\ t.rt.ready_seen = r.ready_seen
               /\ t.rt.auth_pending = r.auth_pending
               /\ t.rt.session = r.session
               /\ Len(t.out) <= 1
               /\ \A i \in 1..Len(t.out) : t.out[i].type = "connect"
               /\ r.role = "Server" => t.out = <<>>
<1> DEFINE started == [r EXCEPT !.handshake_started = TRUE]
           t       == StartHandshake(r, k)
<1>1. Noted(started, r)
  <2>1. NoPin \in Seq(Bytes)
    BY DEF NoPin
  <2> QED
    BY <2>1, ServerNotes
<1>2. t = IF r.handshake_started THEN Abort(r)
          ELSE Sends(started, IF r.role = "Client" THEN <<Plain("connect")>>
                                                   ELSE <<>>, k, "More")
  BY DEF StartHandshake
<1>3. Plain("connect") \in Frames /\ Plain("connect").type = "connect"
  BY FramesMade, ServerFrames
<1> HIDE DEF started, t
<1>4. CASE r.handshake_started
  <2>1. /\ SoundTurn(t, r) /\ t.rt = r /\ t.out = <<>>
        /\ t.shut = FALSE /\ t.res = "Err"
    BY <1>2, <1>4, AbortTurn
  <2> QED
    BY <2>1 DEF t
<1>5. CASE ~ r.handshake_started /\ r.role = "Client"
  <2>1. t = Sends(started, <<Plain("connect")>>, k, "More")
    BY <1>2, <1>5
  <2>2. OneSent(t, started, Plain("connect"))
    BY <1>3, <2>1, SendsOne
  <2>3. SoundTurn(t, r)
    BY <1>1, <2>2 DEF SoundTurn, Noted, OneSent
  <2>4. \A i \in 1..Len(t.out) : t.out[i].type = "connect"
    BY <1>3, <2>2 DEF OneSent
  <2> QED
    BY <1>1, <1>5, <2>2, <2>3, <2>4 DEF OneSent, Noted, t
<1>6. CASE ~ r.handshake_started /\ r.role # "Client"
  <2>1. t.rt = started /\ t.out = <<>> /\ t.shut = FALSE /\ t.res = "More"
    BY <1>2, <1>6 DEF Sends
  <2>2. t.out \in Seq(Frames)
    BY <2>1
  <2>3. SoundTurn(t, r)
    BY <1>1, <2>1, <2>2 DEF SoundTurn, Noted
  <2> QED
    BY <1>1, <2>1, <2>3 DEF Noted, t
<1> QED
  BY <1>4, <1>5, <1>6

(* See StartTurn.                                                          *)
LEMMA StartStep ==
    ASSUME HandshakeInv, NEW x \in Sides, Start(x)
    PROVE  HandshakeInv'
<1>1. PICK k \in 0..2 :
          LET turn == StartHandshake(rt[x], k)
          IN  /\ Succeed(x, k)
              /\ Returns(x, turn, inbox[x],
                         IF turn.res = "Err" THEN "ended" ELSE "handshake")
  BY DEF Start
<1> DEFINE t    == StartHandshake(rt[x], k)
           next == IF t.res = "Err" THEN "ended" ELSE "handshake"
<1>2. k \in Nat /\ faults' \in Nat
  BY <1>1, FaultsCounted
<1>3. /\ inbox[x] \in Seq(Frames) /\ From(inbox[x], inbox[x])
      /\ Keeps(inbox[x], inbox[x]) /\ SoundRuntime(rt[x])
  BY NothingTaken
<1>4. /\ SoundTurn(t, rt[x]) /\ t.shut = FALSE /\ t.res \in {"More", "Err"}
      /\ t.rt.ready_seen = rt[x].ready_seen
      /\ t.rt.auth_pending = rt[x].auth_pending
      /\ t.rt.session = rt[x].session
      /\ Len(t.out) <= 1
      /\ \A i \in 1..Len(t.out) : t.out[i].type = "connect"
      /\ rt[x].role = "Server" => t.out = <<>>
  BY <1>2, <1>3, StartTurn
<1>5. Returns(x, t, inbox[x], next)
  BY <1>1
<1> HIDE DEF t
<1>6. next \in Places /\ next \in {"ended", "handshake"}
  BY DEF Places
<1> HIDE DEF next
<1>7. Base /\ HandshakeTypes /\ rt[x].role = x /\ proc[x] = "idle"
  BY DEF HandshakeInv, Base, HandshakeTypes, Start
<1>8. x \notin closed
  BY <1>7, AtWork
<1>9. CASE x = S
  <2>1. SaysNothing(t, rt[x])
    BY <1>4, <1>7, <1>9, TwoSides DEF SaysNothing
  <2> QED
    BY <1>2, <1>3, <1>5, <1>6, <1>8, <1>9, <2>1, QuietReturns
<1>10. CASE x = C
  <2>1. Arrives(C, S, t, inbox[C], next)
    BY <1>3, <1>4, <1>5, <1>6, <1>7, <1>10, ReturnsAt, TwoSides
  <2>2. ReadyInOrder(C, t)
    BY <1>4, <1>10, TwoSides DEF ReadyInOrder, State
  <2>3. C \in Sides /\ S \in Sides /\ Other(C) = S /\ Other(S) = C /\ S # C
    BY TwoSides
  <2>4. Base'
    <3>1. Arrives(C, Other(C), t, inbox[C], next)
      BY <2>1, <2>3
    <3> QED
      BY <1>2, <1>3, <1>4, <1>6, <1>7, <1>8, <1>10, <2>2, <2>3, <3>1, BaseReturns
  <2>5. ASSUME strays = {} PROVE Talk' /\ PinBudget'
    <3>1. Talk /\ PinBudget
      BY <2>5 DEF HandshakeInv
    <3>2. /\ OnlyFins(S) /\ OnlyFins(C)
          /\ ~ rt[C].auth_pending /\ ~ rt[C].ready_seen /\ proc[S] # "up"
      BY <1>7, <1>10, <3>1 DEF Talk, ClientIdle, ServerUp
    <3>3. inbox[S] = <<>>
      BY <1>7, <1>8, <1>10, <2>3, <3>1, <3>2, NoFins
    <3>4. /\ ~ rt'[C].auth_pending /\ ~ rt'[C].ready_seen
          /\ rt'[S] = rt[S] /\ proc'[S] = proc[S] /\ proc'[C] = next
          /\ inbox'[C] = inbox[C] /\ closed' = closed
      BY <1>4, <1>10, <2>1, <3>2 DEF Arrives
    <3>5. inbox'[S] = <<>> \/ inbox'[S] = t.out
      <4>1. inbox'[S] = IF S \in closed THEN inbox[S] ELSE inbox[S] \o t.out
        BY <2>1 DEF Arrives
      <4>2. t.out \in Seq(Frames)
        BY <1>4 DEF SoundTurn
      <4> QED
        BY <3>3, <4>1, <4>2, OnEmpty
    <3>6. \A i \in 1..Len(inbox'[S]) : i = 1 /\ inbox'[S][i].type = "connect"
      <4>1. CASE inbox'[S] = <<>>
        BY <4>1
      <4>2. CASE inbox'[S] = t.out
        <5>1. Len(t.out) \in Nat
          BY <1>4 DEF SoundTurn
        <5> QED
          BY <1>4, <4>2, <5>1
      <4> QED
        BY <3>5, <4>1, <4>2
    <3>7. OnlyFins(C)'
      BY <3>2, <3>4 DEF OnlyFins
    <3>8. FinsFromClosed'
      <4>1. ~ Carries(S, "fin")'
        BY <3>6 DEF Carries
      <4>2. Carries(C, "fin")' => S \in closed'
        BY <2>3, <3>1, <3>4 DEF Carries, Talk, FinsFromClosed
      <4> QED
        BY <2>3, <4>1, <4>2, TwoSides DEF FinsFromClosed
    <3>9. ToServer'
      BY <1>6, <3>4, <3>6 DEF ToServer
    <3>10. ToClient'
      <4>1. inbox'[C] \in Seq(Frames)
        BY <2>3, <2>4 DEF Base, HandshakeTypes
      <4>2. Len(inbox'[C]) \in Nat
        BY <4>1
      <4>3. \A i \in 1..Len(inbox'[C]) :
                \A j \in i + 1..Len(inbox'[C]) : j \in 1..Len(inbox'[C])
        BY <4>2
      <4> QED
        BY <3>7, <4>3 DEF ToClient, OnlyFins
    <3>11. InTurn' /\ ClientIdle' /\ ClientUp' /\ ServerUp'
      BY <1>6, <3>2, <3>4, <3>7 DEF InTurn, ClientIdle, ClientUp, ServerUp
    <3>12. PinBudget'
      BY <1>7, <1>10, <3>1, <3>4 DEF PinBudget
    <3> QED
      BY <3>8, <3>9, <3>10, <3>11, <3>12 DEF Talk
  <2>6. strays' = strays
    BY <2>1 DEF Arrives
  <2> QED
    BY <2>4, <2>5, <2>6 DEF HandshakeInv
<1> QED
  BY <1>9, <1>10, TwoSides

-----------------------------------------------------------------------------
(* A frame was taken from the inbox of x.                                  *)
LEMMA TookOne ==
    ASSUME HandshakeInv, NEW x \in Sides, inbox[x] # <<>>
    PROVE  /\ Head(inbox[x]) \in Frames /\ Tail(inbox[x]) \in Seq(Frames)
           /\ From(Tail(inbox[x]), inbox[x])
           /\ \A type : Head(inbox[x]).type = type => Carries(x, type)
           /\ OnlyFins(x) => Head(inbox[x]).type = "fin"
           /\ (\A i \in 1..Len(inbox[x]) : i # 1 => inbox[x][i].type = "fin") =>
                  Keeps(Tail(inbox[x]), inbox[x])
           /\ SoundRuntime(rt[x]) /\ rt[x].role = x
<1> DEFINE q == inbox[x]
<1>1. q \in Seq(Frames) /\ SoundRuntime(rt[x]) /\ rt[x].role = x
  BY DEF HandshakeInv, Base, HandshakeTypes
<1> HIDE DEF q
<1>2. /\ Head(q) = q[1] /\ Head(q) \in Frames /\ 1 \in 1..Len(q)
      /\ Tail(q) \in Seq(Frames) /\ Len(Tail(q)) = Len(q) - 1
      /\ \A i \in 1..Len(Tail(q)) :
             i + 1 \in 1..Len(q) /\ Tail(q)[i] = q[i + 1]
  BY <1>1, TailOf DEF q
<1>3. From(Tail(q), q)
  BY <1>2 DEF From
<1>4. \A type : Head(q).type = type => Carries(x, type)
  BY <1>2 DEF Carries, q
<1>5. OnlyFins(x) => Head(q).type = "fin"
  BY <1>2 DEF OnlyFins, q
<1>6. ASSUME \A i \in 1..Len(q) : i # 1 => q[i].type = "fin"
      PROVE  Keeps(Tail(q), q)
  <2>1. \A i \in 1..Len(Tail(q)) : i + 1 # 1 /\ Tail(q)[i].type = "fin"
    BY <1>2, <1>6
  <2>2. Len(Tail(q)) \in Nat
    BY <1>2
  <2>3. \A i \in 1..Len(Tail(q)) : \A j \in i..Len(Tail(q)) : j \in 1..Len(Tail(q))
    BY <2>2
  <2> QED
    BY <2>1, <2>3 DEF Keeps
<1> QED
  BY <1>1, <1>2, <1>3, <1>4, <1>5, <1>6 DEF q

(* What handling a control message leaves, on either side.                 *)
LEMMA HandledBase ==
    ASSUME HandshakeInv, NEW x \in Sides, inbox[x] # <<>>, NEW k \in Nat,
           NEW t, t = HandleControl(rt[x], Head(inbox[x]), now, k)
    PROVE  /\ SoundTurn(t, rt[x]) /\ ReadyInOrder(x, t)
           /\ x = S => ServerSays(t, Head(inbox[x]))
           /\ x = C => ClientSays(t, rt[x], Head(inbox[x]))
<1> DEFINE f == Head(inbox[x])
<1>1. /\ f \in Frames /\ SoundRuntime(rt[x]) /\ rt[x].role = x
      /\ \A type : f.type = type => Carries(x, type)
  BY TookOne
<1>2. now \in Nat
  BY DEF HandshakeInv, Base, HandshakeTypes
<1> HIDE DEF f
<1>3. t = HandleControl(rt[x], f, now, k)
  BY DEF f
<1>4. CASE x = S
  <2>1. Answers(t, rt[x], f)
    BY <1>1, <1>2, <1>3, <1>4, ServerAnswers, TwoSides
  <2>2. SoundTurn(t, rt[x]) /\ ServerSays(t, f)
    BY <2>1 DEF Answers
  <2>3. ReadyInOrder(x, t)
    BY <1>4, <2>2, TwoSides DEF ReadyInOrder, ServerSays
  <2> QED
    BY <1>4, <2>2, <2>3, TwoSides DEF f
<1>5. CASE x = C
  <2>1. Replies(t, rt[x], f)
    BY <1>1, <1>2, <1>3, <1>5, ClientReplies, TwoSides
  <2>2. SoundTurn(t, rt[x]) /\ ClientSays(t, rt[x], f)
    BY <2>1 DEF Replies
  <2>3. ReadyInOrder(x, t)
    <3>1. \A i \in 1..Len(t.out) : t.out[i].type # "ready"
      BY <2>2 DEF ClientSays
    <3>2. f.type = "ready" => Carries(x, "ready")
      BY <1>1
    <3>3. t.rt.session.state = "Ready" =>
              rt[x].session.state = "Ready" \/ f.type = "ready"
      BY <2>2 DEF ClientSays
    <3> QED
      BY <1>5, <3>1, <3>2, <3>3, TwoSides DEF ReadyInOrder, State
  <2> QED
    BY <1>5, <2>2, <2>3, TwoSides DEF f
<1> QED
  BY <1>4, <1>5, TwoSides

(* run_until_disconnect takes a frame.  As long as only the two ends       *)
(* speak, that frame is a FIN.                                             *)
LEMMA LoopStep ==
    ASSUME HandshakeInv, NEW x \in Sides, LoopReceive(x)
    PROVE  HandshakeInv'
<1> DEFINE f    == Head(inbox[x])
           rest == Tail(inbox[x])
<1>1. proc[x] = "up" /\ inbox[x] # <<>>
  BY DEF LoopReceive
<1>2. PICK k \in 0..2 :
          LET turn == LoopTurn(rt[x], f, now, k)
          IN  /\ Succeed(x, k)
              /\ Returns(x, turn, rest, Goes(x, turn.res, "ended"))
  BY DEF LoopReceive
<1>3. k \in Nat /\ faults' \in Nat
  BY <1>2, FaultsCounted
<1>4. /\ rest \in Seq(Frames) /\ From(rest, inbox[x]) /\ SoundRuntime(rt[x])
      /\ OnlyFins(x) => f.type = "fin"
      /\ OnlyFins(x) => Keeps(rest, inbox[x])
  <2>1. OnlyFins(x) =>
            \A i \in 1..Len(inbox[x]) : i # 1 => inbox[x][i].type = "fin"
    BY DEF OnlyFins
  <2> QED
    BY <1>1, <2>1, TookOne
<1>5. strays = {} => OnlyFins(x)
  BY <1>1, TwoSides DEF HandshakeInv, Talk, ClientUp, ServerUp
<1>6. Base /\ HandshakeTypes
  BY DEF HandshakeInv, Base
<1>7. x \notin closed
  BY <1>1, <1>6, AtWork
<1> DEFINE t == LoopTurn(rt[x], f, now, k)
<1>8. Returns(x, t, rest, Goes(x, t.res, "ended"))
  BY <1>2
<1>9. /\ Goes(x, "Done", "ended") = "ended" /\ Goes(x, "Err", "ended") = "ended"
      /\ Goes(x, "More", "ended") = proc[x]
  BY DEF Goes
<1>10. "ended" \in Places /\ "up" \in Places
  BY DEF Places
<1>11. CASE IsFin(f)
  <2>1. t = CloseAnd(rt[x], "Done")
    BY <1>11 DEF LoopTurn
  <2>2. SaysNothing(t, rt[x]) /\ t.res = "Done"
    <3> DEFINE v == CloseAnd(rt[x], "Done")
    <3>1. SaysNothing(v, rt[x])
      BY <1>4, CloseIsQuiet
    <3>2. v.res = "Done"
      BY <1>4, CloseTurn
    <3> HIDE DEF v
    <3> QED
      BY <2>1, <3>1, <3>2 DEF v
  <2> HIDE DEF t
  <2>3. Returns(x, t, rest, "ended")
    BY <1>8, <1>9, <2>2
  <2> QED
    BY <1>3, <1>4, <1>5, <1>10, <2>2, <2>3, QuietReturns
<1>12. CASE ~ IsFin(f) /\ ~ Decodes(f)
  <2>1. t = Abort(rt[x])
    BY <1>12 DEF LoopTurn
  <2>2. SaysNothing(t, rt[x]) /\ t.res = "Err"
    <3> DEFINE v == Abort(rt[x])
    <3>1. /\ SoundTurn(v, rt[x]) /\ v.rt = rt[x] /\ v.out = <<>>
          /\ v.shut = FALSE /\ v.res = "Err"
      BY <1>4, AbortTurn
    <3> HIDE DEF v
    <3>2. SaysNothing(v, rt[x])
      BY <3>1 DEF SaysNothing
    <3> QED
      BY <2>1, <3>1, <3>2 DEF v
  <2> HIDE DEF t
  <2>3. Returns(x, t, rest, "ended")
    BY <1>8, <1>9, <2>2
  <2> QED
    BY <1>3, <1>4, <1>5, <1>10, <2>2, <2>3, QuietReturns
<1>13. CASE ~ IsFin(f) /\ Decodes(f)
  <2>1. strays # {}
    BY <1>4, <1>5, <1>13 DEF IsFin
  <2> DEFINE turn == HandleControl(rt[x], f, now, k)
  <2>2. SoundTurn(turn, rt[x]) /\ ReadyInOrder(x, turn)
    BY <1>1, <1>3, HandledBase
  <2>3. /\ t.rt = turn.rt /\ t.out = turn.out /\ t.shut = turn.shut
        /\ t.res = IF turn.res = "Err" THEN "Err" ELSE "More"
    BY <1>13 DEF LoopTurn
  <2> HIDE DEF t, turn
  <2>4. SoundTurn(t, rt[x]) /\ ReadyInOrder(x, t)
    BY <2>2, <2>3 DEF SoundTurn, ReadyInOrder
  <2> DEFINE next == Goes(x, t.res, "ended")
  <2>5. next \in Places /\ (t.shut => next \in {"ended", "closed"})
    <3>1. t.shut => t.res = "Err"
      BY <2>4 DEF SoundTurn
    <3> QED
      BY <1>1, <1>9, <1>10, <2>3, <3>1
  <2> HIDE DEF next
  <2>6. Arrives(x, Other(x), t, rest, next)
    BY <1>4, <1>6, <1>8, <2>4, <2>5, ReturnsAt DEF next
  <2>7. Base'
    BY <1>3, <1>4, <1>6, <1>7, <2>4, <2>5, <2>6, BaseReturns
  <2>8. strays' # {}
    BY <2>1, <2>6 DEF Arrives
  <2> QED
    BY <2>7, <2>8 DEF HandshakeInv
<1> QED
  BY <1>11, <1>12, <1>13

(* The server answers a connect or a PIN: the client was silent, and what  *)
(* it hears next is this answer.                                           *)
LEMMA ServerHears ==
    ASSUME Base, Base', Talk, PinBudget, proc[S] = "handshake",
           inbox[S] # <<>>, Head(inbox[S]).type \in {"connect", "auth"},
           NEW t, SoundTurn(t, rt[S]), ServerSays(t, Head(inbox[S])),
           NEW next, next \in {"handshake", "ended"} \/ t.res = "Done",
           Arrives(S, C, t, Tail(inbox[S]), next)
    PROVE  Talk' /\ PinBudget'
<1> DEFINE f == Head(inbox[S])
           q == inbox[S]
<1>1. S \in Sides /\ C \in Sides /\ Other(C) = S /\ Other(S) = C /\ S # C
  BY TwoSides
<1>2. q \in Seq(Frames) /\ t.out \in Seq(Frames) /\ Len(t.out) \in Nat
  BY <1>1 DEF Base, HandshakeTypes, SoundTurn
<1>3. /\ f = q[1] /\ 1 \in 1..Len(q)
      /\ \A i \in 1..Len(Tail(q)) :
             i + 1 \in 1..Len(q) /\ Tail(q)[i] = q[i + 1]
  BY <1>2, TailOf
<1>4. /\ f.type # "fin" /\ ~ rt[C].ready_seen /\ proc[C] # "idle"
      /\ f.type = "connect" => ~ rt[C].auth_pending
      /\ f.type = "auth" => rt[C].auth_pending
  BY <1>3 DEF Talk, ToServer
<1>5. OnlyFins(C)
  BY <1>3, <1>4 DEF Talk, InTurn, OnlyFins
<1>6. inbox[C] = <<>>
  BY <1>1, <1>5, AtWork, NoFins
<1>7. /\ inbox'[S] = Tail(q) /\ rt'[C] = rt[C] /\ proc'[C] = proc[C]
      /\ rt'[S] = t.rt /\ proc'[S] = next /\ closed \subseteq closed'
      /\ t.shut => S \in closed'
      /\ inbox'[C] = IF C \in closed THEN inbox[C] ELSE inbox[C] \o t.out
  BY DEF Arrives
<1>8. inbox'[C] = <<>> \/ inbox'[C] = t.out
  BY <1>2, <1>6, <1>7, OnEmpty
<1>9. OnlyFins(S)'
  <2>1. \A i \in 1..Len(q) : i # 1 => q[i].type = "fin"
    BY DEF Talk, ToServer
  <2>2. \A i \in 1..Len(Tail(q)) : i + 1 # 1 /\ Tail(q)[i].type = "fin"
    BY <1>3, <2>1
  <2> QED
    BY <1>7, <2>2 DEF OnlyFins
<1>10. ~ Carries(S, "connect")' /\ ~ Carries(S, "auth")'
  BY <1>9 DEF OnlyFins, Carries
<1> HIDE DEF f, q
<1>11. ServerSays(t, f)
  BY DEF f
<1>12. FinsFromClosed'
  <2>1. ~ Carries(C, "fin")'
    <3>1. CASE inbox'[C] = <<>>
      BY <3>1 DEF Carries
    <3>2. CASE inbox'[C] = t.out
      BY <1>11, <3>2 DEF Carries, ServerSays
    <3> QED
      BY <1>8, <3>1, <3>2
  <2>2. Carries(S, "fin")' => C \in closed
    <3>1. Carries(S, "fin")' => Carries(S, "fin")
      BY <1>3, <1>7 DEF Carries, q
    <3> QED
      BY <1>1, <3>1 DEF Talk, FinsFromClosed
  <2> QED
    BY <1>1, <1>7, <2>1, <2>2, TwoSides DEF FinsFromClosed
<1>13. ToServer'
  BY <1>9 DEF ToServer, OnlyFins
<1>14. ToClient'
  <2>1. CASE inbox'[C] = <<>>
    BY <2>1 DEF ToClient
  <2>2. CASE inbox'[C] = t.out
    <3> SUFFICES ASSUME NEW i \in 1..Len(t.out)
                 PROVE  LET type == t.out[i].type
                        IN  /\ type \in {"auth_required", "auth_result", "ready",
                                         "error", "fin"}
                            /\ type = "auth_result" => i = 1 /\ rt'[C].auth_pending
                            /\ type \in {"auth_required", "ready"} =>
                                   /\ ~ rt'[C].ready_seen
                                   /\ i = 1 => ~ rt'[C].auth_pending
                                   /\ t.out[i].ok
                            /\ type = "error" => S \in closed'
                            /\ type # "auth_result" =>
                                   \A j \in i + 1..Len(t.out) :
                                       t.out[j].type = "fin"
      BY <2>2 DEF ToClient
    <3>1. t.out[i].type # "auth_result" => \A j \in i + 1..Len(t.out) : FALSE
      BY <1>2, <1>11 DEF ServerSays
    <3>2. /\ t.out[i].type \in {"auth_required", "auth_result", "ready", "error"}
          /\ t.out[i].type = "auth_result" => i = 1 /\ rt'[C].auth_pending
          /\ t.out[i].type = "error" => S \in closed'
      BY <1>4, <1>7, <1>11 DEF ServerSays
    <3>3. t.out[i].type \in {"auth_required", "ready"} =>
              /\ ~ rt'[C].ready_seen
              /\ i = 1 => ~ rt'[C].auth_pending
              /\ t.out[i].ok
      BY <1>4, <1>7, <1>11 DEF ServerSays
    <3> QED
      BY <3>1, <3>2, <3>3
  <2> QED
    BY <1>8, <2>1, <2>2
<1>15. t.res = "Done" => ~ Carries(C, "auth_required")'
  <2>1. CASE inbox'[C] = <<>>
    BY <2>1 DEF Carries
  <2>2. CASE inbox'[C] = t.out
    BY <1>11, <2>2 DEF Carries, ServerSays
  <2> QED
    BY <1>8, <2>1, <2>2
<1>16. InTurn' /\ ClientIdle' /\ ClientUp' /\ ServerUp'
  <2>1. proc[C] # "up"
    BY <1>4 DEF Talk, ClientUp
  <2> QED
    BY <1>4, <1>7, <1>9, <1>15, <2>1 DEF InTurn, ClientIdle, ClientUp, ServerUp
<1>17. PinBudget'
  <2> SUFFICES ASSUME rt'[S].session.pin_required,
                      Carries(C, "auth_required")' \/ proc'[C] = "idle"
               PROVE  rt'[S].session.auth_attempts < MaxAuthFails
    BY <1>10 DEF PinBudget
  <2>1. Carries(C, "auth_required")'
    BY <1>4, <1>7
  <2>2. t.rt.session.state = "Authenticating"
    <3>1. inbox'[C] = t.out
      BY <1>8, <2>1 DEF Carries
    <3> QED
      BY <1>11, <2>1, <3>1 DEF Carries, ServerSays
  <2>3. Sound(t.rt.session) /\ t.rt.session \in Sessions
    BY DEF SoundTurn, SoundRuntime, Sound
  <2>4. t.rt.session.auth_attempts \in Nat
    BY <2>3 DEF Sessions
  <2> QED
    BY <1>7, <2>2, <2>3, <2>4, SessionConstants DEF Sound
<1> QED
  BY <1>12, <1>13, <1>14, <1>16, <1>17 DEF Talk

(* The client takes an answer: the server was silent, and what it hears    *)
(* next is at most one PIN.                                                *)
LEMMA ClientHears ==
    ASSUME Base, Base', Talk, PinBudget, proc[C] = "handshake",
           inbox[C] # <<>>, Head(inbox[C]).type # "fin",
           NEW t, SoundTurn(t, rt[C]), ClientSays(t, rt[C], Head(inbox[C])),
           NEW next, next \in {"handshake", "ended"} \/ (next = "up" /\ t.res = "Done"),
           Arrives(C, S, t, Tail(inbox[C]), next)
    PROVE  Talk' /\ PinBudget'
<1> DEFINE f == Head(inbox[C])
           q == inbox[C]
<1>1. S \in Sides /\ C \in Sides /\ Other(C) = S /\ Other(S) = C /\ S # C
  BY TwoSides
<1>2. q \in Seq(Frames) /\ t.out \in Seq(Frames) /\ Len(t.out) \in Nat
  BY <1>1 DEF Base, HandshakeTypes, SoundTurn
<1>3. /\ f = q[1] /\ 1 \in 1..Len(q) /\ Len(q) \in Nat
      /\ Len(Tail(q)) = Len(q) - 1
      /\ \A i \in 1..Len(Tail(q)) :
             i + 1 \in 1..Len(q) /\ Tail(q)[i] = q[i + 1]
  BY <1>2, TailOf
<1>4. /\ f.type \in {"auth_required", "auth_result", "ready", "error"}
      /\ f.type = "auth_result" => rt[C].auth_pending
      /\ f.type \in {"auth_required", "ready"} =>
             ~ rt[C].ready_seen /\ ~ rt[C].auth_pending /\ f.ok
      /\ f.type = "error" => S \in closed
      /\ f.type # "auth_result" => \A j \in 1 + 1..Len(q) : q[j].type = "fin"
  BY <1>3 DEF Talk, ToClient
<1>5. f.type # "error" => Expected(rt[C], f)
  BY <1>4 DEF Expected
<1>6. OnlyFins(S)
  BY <1>3, <1>4 DEF Talk, InTurn, OnlyFins
<1>7. inbox[S] = <<>>
  BY <1>1, <1>6, AtWork, NoFins
<1>8. /\ inbox'[C] = Tail(q) /\ rt'[S] = rt[S] /\ proc'[S] = proc[S]
      /\ rt'[C] = t.rt /\ proc'[C] = next /\ closed \subseteq closed'
      /\ inbox'[S] = IF S \in closed THEN inbox[S] ELSE inbox[S] \o t.out
  BY DEF Arrives
<1>9. ClientSays(t, rt[C], f)
  OBVIOUS
<1>10. Carries(C, f.type)
  BY <1>3 DEF Carries
<1> HIDE DEF f, q
<1>11. ASSUME NEW i \in 1..Len(inbox'[S])
       PROVE  /\ i = 1 /\ inbox'[S][i].type = "auth"
              /\ f.type = "auth_required"
              /\ rt'[C].auth_pending /\ ~ rt'[C].ready_seen
  <2>1. inbox'[S] = <<>> \/ inbox'[S] = t.out
    BY <1>2, <1>7, <1>8, OnEmpty
  <2>2. inbox'[S] = t.out
    BY <1>11, <2>1
  <2>3. S \notin closed
    BY <1>7, <1>8, <1>11
  <2>4. i = 1
    BY <1>2, <1>9, <1>11, <2>2 DEF ClientSays
  <2> QED
    BY <1>4, <1>5, <1>8, <1>9, <1>11, <2>2, <2>3, <2>4 DEF ClientSays
<1>12. f.type # "auth_result" => OnlyFins(C)'
  <2> SUFFICES ASSUME f.type # "auth_result", NEW i \in 1..Len(Tail(q))
               PROVE  Tail(q)[i].type = "fin"
    BY <1>8 DEF OnlyFins
  <2>1. i + 1 \in 1 + 1..Len(q)
    BY <1>3
  <2> QED
    BY <1>3, <1>4, <2>1
<1>13. f.type = "auth_result" => OnlyFins(S)'
  BY <1>11 DEF OnlyFins
<1>14. \A type : Carries(C, type)' => Carries(C, type)
  BY <1>3, <1>8 DEF Carries, q
<1>15. FinsFromClosed'
  <2>1. ~ Carries(S, "fin")'
    BY <1>11 DEF Carries
  <2>2. Carries(C, "fin")' => S \in closed
    BY <1>1, <1>14 DEF Talk, FinsFromClosed
  <2> QED
    BY <1>1, <1>8, <2>1, <2>2, TwoSides DEF FinsFromClosed
<1>16. ToServer'
  <2>1. next # "idle"
    OBVIOUS
  <2> QED
    BY <1>8, <1>11, <2>1 DEF ToServer
<1>17. ToClient'
  <2> SUFFICES ASSUME NEW i \in 1..Len(inbox'[C])
               PROVE  LET type == inbox'[C][i].type
                      IN  /\ type \in {"auth_required", "auth_result", "ready",
                                       "error", "fin"}
                          /\ type = "auth_result" => i = 1 /\ rt'[C].auth_pending
                          /\ type \in {"auth_required", "ready"} =>
                                 /\ ~ rt'[C].ready_seen
                                 /\ i = 1 => ~ rt'[C].auth_pending
                                 /\ inbox'[C][i].ok
                          /\ type = "error" => S \in closed'
                          /\ type # "auth_result" =>
                                 \A j \in i + 1..Len(inbox'[C]) :
                                     inbox'[C][j].type = "fin"
    BY DEF ToClient
  <2> DEFINE m == i + 1
  <2>1. m \in 1..Len(q) /\ inbox'[C][i] = q[m] /\ m # 1
    BY <1>3, <1>8
  <2>2. ASSUME q[m].type # "auth_result", NEW j \in i + 1..Len(inbox'[C])
        PROVE  inbox'[C][j].type = "fin"
    <3>1. j \in 1..Len(inbox'[C]) /\ j + 1 \in m + 1..Len(q)
      BY <1>3, <1>8
    <3>2. inbox'[C][j] = q[j + 1]
      BY <1>3, <1>8, <3>1
    <3> HIDE DEF m
    <3>3. \A l \in m + 1..Len(q) : q[l].type = "fin"
      BY <2>1, <2>2 DEF Talk, ToClient, q
    <3> QED
      BY <3>1, <3>2, <3>3
  <2> HIDE DEF m
  <2>3. /\ q[m].type \in {"auth_required", "ready", "error", "fin"}
        /\ q[m].type \in {"auth_required", "ready"} => ~ rt[C].ready_seen /\ q[m].ok
        /\ q[m].type = "error" => S \in closed
    BY <2>1 DEF Talk, ToClient, q
  <2>4. q[m].type # "fin" => f.type = "auth_result"
    BY <1>12, <2>1 DEF OnlyFins
  <2>5. f.type = "auth_result" =>
            ~ rt'[C].auth_pending /\ (rt'[C].ready_seen => rt[C].ready_seen)
    BY <1>8, <1>9 DEF ClientSays
  <2> QED
    BY <1>8, <2>1, <2>2, <2>3, <2>4, <2>5 DEF m
<1>18. InTurn' /\ ClientIdle' /\ ClientUp'
  <2>1. t.res = "Done" => f.type = "ready" /\ t.rt.ready_seen
    BY <1>9 DEF ClientSays
  <2> QED
    BY <1>8, <1>12, <1>13, <2>1 DEF InTurn, ClientIdle, ClientUp
<1>19. ServerUp'
  <2> SUFFICES ASSUME proc[S] = "up"
               PROVE  OnlyFins(S)' /\ ~ Carries(C, "auth_required")' /\ next # "idle"
    BY <1>8 DEF ServerUp
  <2>1. ~ Carries(C, "auth_required")
    BY DEF Talk, ServerUp
  <2>2. f.type # "auth_required"
    BY <1>10, <2>1
  <2> QED
    BY <1>11, <1>14, <2>1, <2>2 DEF OnlyFins
<1>20. PinBudget'
  <2>1. ~ Carries(S, "connect")'
    BY <1>11 DEF Carries
  <2>2. Carries(S, "auth")' => Carries(C, "auth_required")
    BY <1>10, <1>11 DEF Carries
  <2>3. Carries(C, "auth_required")' => Carries(C, "auth_required")
    BY <1>14
  <2> QED
    BY <1>8, <2>1, <2>2, <2>3 DEF PinBudget
<1> QED
  BY <1>15, <1>16, <1>17, <1>18, <1>19, <1>20 DEF Talk

(* handshake takes a frame.                                                *)
LEMMA HandshakeStep ==
    ASSUME HandshakeInv, NEW x \in Sides, HandshakeReceive(x)
    PROVE  HandshakeInv'
<1> DEFINE f    == Head(inbox[x])
           rest == Tail(inbox[x])
<1>1. proc[x] = "handshake" /\ inbox[x] # <<>>
  BY DEF HandshakeReceive
<1>2. PICK k \in 0..2 :
          LET turn == HandshakeTurn(rt[x], f, now, k)
          IN  /\ Succeed(x, k)
              /\ Returns(x, turn, rest, Goes(x, turn.res, "up"))
  BY DEF HandshakeReceive
<1>3. k \in Nat /\ faults' \in Nat
  BY <1>2, FaultsCounted
<1>4. /\ rest \in Seq(Frames) /\ From(rest, inbox[x]) /\ SoundRuntime(rt[x])
      /\ \A type : f.type = type => Carries(x, type)
      /\ (\A i \in 1..Len(inbox[x]) : i # 1 => inbox[x][i].type = "fin") =>
             Keeps(rest, inbox[x])
  BY <1>1, TookOne
<1>5. Base /\ HandshakeTypes /\ (strays = {} => Talk /\ PinBudget)
  BY DEF HandshakeInv, Base
<1>6. x \notin closed
  BY <1>1, <1>5, AtWork
<1>7. strays = {} =>
          /\ x = S => f.type \in {"connect", "auth", "fin"}
          /\ x = C => f.type \in {"auth_required", "auth_result", "ready",
                                  "error", "fin"}
  <2>1. \E i \in 1..Len(inbox[x]) : inbox[x][i].type = f.type
    BY <1>4 DEF Carries
  <2> QED
    BY <1>5, <2>1 DEF Talk, ToServer, ToClient
<1> DEFINE t == HandshakeTurn(rt[x], f, now, k)
<1>8. Returns(x, t, rest, Goes(x, t.res, "up"))
  BY <1>2
<1>9. /\ Goes(x, "Done", "up") = "up" /\ Goes(x, "Err", "up") = "ended"
      /\ Goes(x, "More", "up") = "handshake"
  BY <1>1 DEF Goes
<1>10. "ended" \in Places /\ "up" \in Places /\ "handshake" \in Places
  BY DEF Places
<1>11. CASE ~ Decodes(f)
  <2>1. SaysNothing(t, rt[x]) /\ t.res = "Err"
    <3> DEFINE v == CloseAnd(rt[x], "Err")
    <3>1. t = v
      BY <1>11 DEF HandshakeTurn
    <3>2. SaysNothing(v, rt[x]) /\ v.res = "Err"
      BY <1>4, CloseIsQuiet, CloseTurn
    <3> HIDE DEF v, t
    <3> QED
      BY <3>1, <3>2
  <2> HIDE DEF t
  <2>2. Returns(x, t, rest, "ended")
    BY <1>8, <1>9, <2>1
  <2>3. ASSUME strays = {} PROVE Keeps(rest, inbox[x])
    <3>1. CASE x = S
      <4>1. \A i \in 1..Len(inbox[x]) : i # 1 => inbox[x][i].type = "fin"
        BY <1>5, <2>3, <3>1 DEF Talk, ToServer
      <4> QED
        BY <1>4, <4>1
    <3>2. CASE x = C
      <4>1. f.type = "fin"
        BY <1>7, <1>11, <2>3, <3>2 DEF Decodes, ControlTypes
      <4>2. inbox[x] \in Seq(Frames)
        BY <1>5 DEF HandshakeTypes
      <4>3. f = inbox[x][1] /\ 1 \in 1..Len(inbox[x]) /\ Len(inbox[x]) \in Nat
        BY <1>1, <4>2
      <4>4. \A j \in 1 + 1..Len(inbox[x]) : inbox[x][j].type = "fin"
        BY <1>5, <2>3, <3>2, <4>1, <4>3 DEF Talk, ToClient
      <4>5. \A i \in 1..Len(inbox[x]) : i # 1 => i \in 1 + 1..Len(inbox[x])
        BY <4>3
      <4> QED
        BY <1>4, <4>4, <4>5
    <3> QED
      BY <3>1, <3>2, TwoSides
  <2> QED
    BY <1>3, <1>4, <1>10, <2>1, <2>2, <2>3, QuietReturns
<1>12. CASE Decodes(f)
  <2>1. /\ SoundTurn(t, rt[x]) /\ ReadyInOrder(x, t)
        /\ x = S => ServerSays(t, f)
        /\ x = C => ClientSays(t, rt[x], f)
    <3>1. t = HandleControl(rt[x], f, now, k)
      BY <1>12 DEF HandshakeTurn
    <3> HIDE DEF t
    <3> QED
      BY <1>1, <1>3, <3>1, HandledBase
  <2> DEFINE next == Goes(x, t.res, "up")
  <2> HIDE DEF t
  <2>2. /\ next \in Places /\ (t.shut => next \in {"ended", "closed"})
        /\ next \in {"handshake", "ended"} \/ (next = "up" /\ t.res = "Done")
    <3>1. (t.shut => t.res = "Err") /\ t.res \in {"More", "Done", "Err"}
      BY <2>1 DEF SoundTurn
    <3> QED
      BY <1>9, <1>10, <3>1
  <2> HIDE DEF next
  <2>3. Arrives(x, Other(x), t, rest, next)
    BY <1>4, <1>5, <1>8, <2>1, <2>2, ReturnsAt DEF next
  <2>4. Base'
    BY <1>3, <1>4, <1>5, <1>6, <2>1, <2>2, <2>3, BaseReturns
  <2>5. f.type # "fin"
    BY <1>12 DEF Decodes, ControlTypes
  <2>6. ASSUME strays = {} PROVE Talk' /\ PinBudget'
    <3>1. CASE x = S
      <4>1. Arrives(S, C, t, Tail(inbox[S]), next)
        BY <2>3, <3>1, TwoSides
      <4>2. /\ proc[S] = "handshake" /\ inbox[S] # <<>>
            /\ Head(inbox[S]).type \in {"connect", "auth"}
            /\ SoundTurn(t, rt[S]) /\ ServerSays(t, Head(inbox[S]))
        BY <1>1, <1>7, <2>1, <2>5, <2>6, <3>1
      <4> QED
        BY <1>5, <2>2, <2>4, <2>6, <4>1, <4>2, ServerHears
    <3>2. CASE x = C
      <4>1. Arrives(C, S, t, Tail(inbox[C]), next)
        BY <2>3, <3>2, TwoSides
      <4>2. /\ proc[C] = "handshake" /\ inbox[C] # <<>>
            /\ Head(inbox[C]).type # "fin"
            /\ SoundTurn(t, rt[C]) /\ ClientSays(t, rt[C], Head(inbox[C]))
        BY <1>1, <2>1, <2>5, <3>2
      <4> QED
        BY <1>5, <2>2, <2>4, <2>6, <4>1, <4>2, ClientHears
    <3> QED
      BY <3>1, <3>2, TwoSides
  <2>7. strays' = strays
    BY <2>3 DEF Arrives
  <2> QED
    BY <2>4, <2>6, <2>7 DEF HandshakeInv
<1> QED
  BY <1>11, <1>12

-----------------------------------------------------------------------------
(* A runtime as new leaves it.                                             *)
LEMMA NewRuntimeSound ==
    ASSUME NEW role \in Sides, NEW b \in BOOLEAN, NEW e \in Seq(Bytes),
           NEW pins \in Seq(Seq(Bytes)), NewRuntime(role, b, e, pins).ok
    PROVE  LET r == NewRuntime(role, b, e, pins).rt
           IN  /\ SoundRuntime(r) /\ r.role = role
               /\ ~ r.auth_pending /\ ~ r.ready_seen
               /\ r.session.state = "Connecting" /\ r.session.auth_attempts = 0
               /\ r.session.pin_required => MaxAuthFails # 0
<1> DEFINE s == NewSession(b, e).session
           r == NewRuntime(role, b, e, pins).rt
<1>1. WellFormed(NewRegistry) /\ Live(NewRegistry) = {} /\ NewRegistry \in Registry
  BY NewRegistryKeeps DEF WellFormed
<1>2. NewSession(b, e).ok
  BY DEF NewRuntime
<1>3. b => MaxAuthFails # 0
  BY <1>2 DEF NewSession
<1>4. s = [state |-> "Connecting", pin_required |-> b, expected_pin |-> e,
           auth_attempts |-> 0, next_auth_allowed_at |-> 0,
           registry |-> NewRegistry]
  BY DEF NewSession
<1>5. /\ s \in Sessions /\ s.state = "Connecting" /\ s.pin_required = b
      /\ s.auth_attempts = 0 /\ s.registry = NewRegistry
  BY <1>1, <1>4 DEF Sessions, States
<1>6. r = [role |-> role, session |-> s, auth_pins |-> pins,
           handshake_started |-> FALSE, connect_seen |-> FALSE,
           auth_pending |-> FALSE, last_auth_pin |-> <<>>, ready_seen |-> FALSE]
  BY DEF NewRuntime
<1> HIDE DEF s, r
<1>7. Sound(s)
  BY <1>1, <1>3, <1>5, SessionConstants DEF Sound
<1>8. <<>> \in Seq(Seq(Bytes)) /\ role \in {"Server", "Client"}
  BY TwoSides
<1>9. /\ r \in Runtimes /\ r.role = role /\ r.session = s
      /\ ~ r.auth_pending /\ ~ r.ready_seen
  BY <1>5, <1>6, <1>8 DEF Runtimes
<1>10. SoundRuntime(r)
  BY <1>5, <1>7, <1>9 DEF SoundRuntime
<1> QED
  BY <1>3, <1>5, <1>9, <1>10 DEF r

(* The invariant holds before either side has done anything.               *)
LEMMA HandshakeInvInit == Init => HandshakeInv
<1> SUFFICES ASSUME Init PROVE HandshakeInv
  OBVIOUS
<1>1. PICK b \in PinRequired, pins \in ClientPins :
          LET server == NewRuntime(S, b, ExpectedPin, <<>>)
              client == NewRuntime(C, FALSE, NoPin, pins)
          IN  /\ server.ok /\ client.ok
              /\ rt = [x \in Sides |-> IF x = S THEN server.rt ELSE client.rt]
  BY DEF Init
<1> DEFINE server == NewRuntime(S, b, ExpectedPin, <<>>)
           client == NewRuntime(C, FALSE, NoPin, pins)
           sr     == server.rt
           cr     == client.rt
<1>2. server.ok /\ client.ok /\ rt = [x \in Sides |-> IF x = S THEN sr ELSE cr]
  BY <1>1
<1>3. /\ b \in BOOLEAN /\ ExpectedPin \in Seq(Bytes) /\ NoPin \in Seq(Bytes)
      /\ pins \in Seq(Seq(Bytes)) /\ S \in Sides /\ C \in Sides
      /\ <<>> \in Seq(Seq(Bytes)) /\ FALSE \in BOOLEAN
  BY HandshakeConstants, TwoSides DEF NoPin
<1>4. /\ SoundRuntime(sr) /\ sr.role = S /\ ~ sr.ready_seen
      /\ sr.session.auth_attempts = 0
      /\ sr.session.pin_required => MaxAuthFails # 0
  <2> DEFINE none == <<>>
  <2>1. none \in Seq(Seq(Bytes)) /\ NewRuntime(S, b, ExpectedPin, none).ok
    BY <1>2, <1>3
  <2> HIDE DEF none
  <2>2. LET r == NewRuntime(S, b, ExpectedPin, none).rt
        IN  /\ SoundRuntime(r) /\ r.role = S /\ ~ r.ready_seen
            /\ r.session.auth_attempts = 0
            /\ r.session.pin_required => MaxAuthFails # 0
    BY <1>3, <2>1, NewRuntimeSound
  <2> QED
    BY <2>2 DEF none
<1>5. /\ SoundRuntime(cr) /\ cr.role = C /\ ~ cr.ready_seen
      /\ ~ cr.auth_pending /\ cr.session.state = "Connecting"
  <2> DEFINE no == FALSE
  <2>1. no \in BOOLEAN /\ NewRuntime(C, no, NoPin, pins).ok
    BY <1>2
  <2> HIDE DEF no
  <2>2. LET r == NewRuntime(C, no, NoPin, pins).rt
        IN  /\ SoundRuntime(r) /\ r.role = C /\ ~ r.ready_seen
            /\ ~ r.auth_pending /\ r.session.state = "Connecting"
    BY <1>3, <2>1, NewRuntimeSound
  <2> QED
    BY <2>2 DEF no
<1> HIDE DEF sr, cr, server, client
<1>6. rt[S] = sr /\ rt[C] = cr /\ rt \in [Sides -> Runtimes]
  BY <1>2, <1>4, <1>5, TwoSides DEF SoundRuntime
<1>7. /\ proc = [x \in Sides |-> "idle"] /\ inbox = [x \in Sides |-> <<>>]
      /\ closed = {} /\ now = 0 /\ faults = 0 /\ strays = {}
  BY DEF Init
<1>8. inbox \in [Sides -> Seq(Frames)] /\ inbox[S] = <<>> /\ inbox[C] = <<>>
  BY <1>3, <1>7
<1>9. proc \in [Sides -> Places] /\ proc[S] = "idle" /\ proc[C] = "idle"
  BY <1>3, <1>7 DEF Places
<1>10. HandshakeTypes
  BY <1>4, <1>5, <1>6, <1>7, <1>8, <1>9, TwoSides DEF HandshakeTypes
<1>11. \A x \in Sides : \A type : ~ Carries(x, type) /\ OnlyFins(x)
  BY <1>8, TwoSides DEF Carries, OnlyFins
<1>12. Base
  BY <1>3, <1>5, <1>6, <1>7, <1>10, <1>11 DEF Base, ClosedIsDone, ReadyFollows, State
<1>13. Talk
  <2>1. ToServer /\ ToClient
    BY <1>8 DEF ToServer, ToClient
  <2> QED
    BY <1>3, <1>5, <1>6, <1>9, <1>11, <2>1
       DEF Talk, FinsFromClosed, InTurn, ClientIdle, ClientUp, ServerUp
<1>14. PinBudget
  BY <1>4, <1>6, SessionConstants DEF PinBudget
<1> QED
  BY <1>12, <1>13, <1>14 DEF HandshakeInv

(* Every step keeps the invariant.                                         *)
LEMMA HandshakeInvNext == HandshakeInv /\ [Next]_vars => HandshakeInv'
<1> SUFFICES ASSUME HandshakeInv, [Next]_vars PROVE HandshakeInv'
  OBVIOUS
<1>1. now \in Nat /\ faults \in Nat /\ proc \in [Sides -> Places]
  BY DEF HandshakeInv, Base, HandshakeTypes
<1>2. ASSUME NEW x \in Sides, Start(x) PROVE HandshakeInv'
  BY <1>2, StartStep
<1>3. ASSUME NEW x \in Sides, HandshakeReceive(x) PROVE HandshakeInv'
  BY <1>3, HandshakeStep
<1>4. ASSUME NEW x \in Sides,
             \/ HandshakeDisconnected(x) \/ HandshakeTimeout(x)
             \/ LoopDisconnected(x) \/ LoopTimeout(x)
      PROVE  HandshakeInv'
  BY <1>4, EndSteps
<1>5. ASSUME NEW x \in Sides, HandshakeDropped(x) PROVE HandshakeInv'
  <2>1. /\ rt' = rt /\ inbox' = inbox /\ closed' = closed /\ strays' = strays
        /\ now' = now /\ Fault(1) /\ proc' = [proc EXCEPT ![x] = "ended"]
    BY <1>5 DEF HandshakeDropped
  <2>2. faults' \in Nat
    BY <2>1, FaultsCounted
  <2>3. /\ proc' \in [Sides -> Places]
        /\ \A z \in Sides : proc'[z] \in {proc[z], "ended"}
    BY <1>1, <2>1 DEF Places
  <2> QED
    BY <1>1, <2>1, <2>2, <2>3, RestSteps
<1>6. ASSUME NEW x \in Sides, LoopReceive(x) PROVE HandshakeInv'
  BY <1>6, LoopStep
<1>7. ASSUME NEW x \in Sides, OwnerCleansUp(x) \/ OwnerLeaves(x)
      PROVE  HandshakeInv'
  BY <1>7, CloseSteps DEF OwnerCleansUp, OwnerLeaves
<1>8. ASSUME NEW x \in Sides, NEW f \in StrayFrames, Stray(x, f)
      PROVE  HandshakeInv'
  BY <1>8, StrayStep
<1>9. CASE Tick
  <2>1. /\ rt' = rt /\ inbox' = inbox /\ closed' = closed /\ strays' = strays
        /\ proc' = proc /\ faults' = faults /\ now' = now + 1
    BY <1>9 DEF Tick
  <2>2. now' \in Nat /\ faults' \in Nat /\ proc' \in [Sides -> Places]
    BY <1>1, <2>1
  <2> QED
    BY <2>1, <2>2, RestSteps
<1>10. CASE Finished \/ UNCHANGED vars
  <2>1. /\ rt' = rt /\ inbox' = inbox /\ closed' = closed /\ strays' = strays
        /\ proc' = proc /\ faults' = faults /\ now' = now
    BY <1>10 DEF Finished, vars
  <2>2. now' \in Nat /\ faults' \in Nat /\ proc' \in [Sides -> Places]
    BY <1>1, <2>1
  <2> QED
    BY <2>1, <2>2, RestSteps
<1> QED
  BY <1>2, <1>3, <1>4, <1>5, <1>6, <1>7, <1>8, <1>9, <1>10 DEF Next

(* In every reachable state the two ends speak in turn.                    *)
LEMMA HandshakeInvAlways == Spec => []HandshakeInv
  BY HandshakeInvInit, HandshakeInvNext, PTL DEF Spec

(* No client uses a session that its server does not know to be open: a    *)
(* client is ready only after handle_server_message got as far as sending  *)
(* ready, whatever is lost, late or closed on the way.                     *)
THEOREM ClientFollows == Spec => []ClientFollowsServer
<1>1. HandshakeInv => ClientFollowsServer
  BY DEF HandshakeInv, Base, ReadyFollows, ClientFollowsServer
<1> QED
  BY <1>1, HandshakeInvAlways, PTL

(* handle_client_message spends a PIN only when the server asked for one:  *)
(* at most one is under way, and together with the failures the server has *)
(* counted there are never more than max_auth_fails.                       *)
THEOREM PinsStaySpent == Spec => []PinsSpent
<1>1. HandshakeInv => PinsSpent
  <2> DEFINE auths == {i \in 1..Len(inbox[S]) : inbox[S][i].type = "auth"}
  <2> SUFFICES ASSUME HandshakeInv, strays = {}, rt[S].session.pin_required
               PROVE  /\ Cardinality(auths) <= 1
                      /\ rt[S].session.auth_attempts + Cardinality(auths)
                             <= MaxAuthFails
                      /\ auths # {} => rt[C].auth_pending \/ State(C) = "Closed"
    BY DEF PinsSpent
  <2>1. Talk /\ PinBudget /\ HandshakeTypes
    BY DEF HandshakeInv, Base
  <2>2. auths \subseteq {1} /\ (auths # {} => rt[C].auth_pending)
    BY <2>1 DEF Talk, ToServer
  <2>3. SoundRuntime(rt[S])
    BY <2>1, TwoSides DEF HandshakeTypes
  <2>4. Sound(rt[S].session) /\ rt[S].session \in Sessions
    BY <2>3 DEF SoundRuntime, Sound
  <2>5. /\ rt[S].session.auth_attempts \in Nat /\ MaxAuthFails \in Nat
        /\ rt[S].session.auth_attempts <= MaxAuthFails
    BY <2>4, SessionConstants DEF Sound, Sessions
  <2>6. CASE auths = {}
    <3>1. Cardinality(auths) = 0
      BY <2>6, FS_EmptySet
    <3> HIDE DEF auths
    <3> QED
      BY <2>5, <2>6, <3>1
  <2>7. CASE auths # {}
    <3>1. auths = {1}
      BY <2>2, <2>7
    <3>2. Carries(S, "auth")
      BY <2>7 DEF Carries
    <3>3. rt[S].session.auth_attempts < MaxAuthFails
      BY <2>1, <3>2 DEF PinBudget
    <3> HIDE DEF auths
    <3>4. Cardinality(auths) = 1
      BY <3>1, FS_Singleton
    <3> QED
      BY <2>2, <2>5, <3>3, <3>4
  <2> QED
    BY <2>6, <2>7
<1> QED
  BY <1>1, HandshakeInvAlways, PTL

(* When handshake has returned Ok, no message of it is left to read: the   *)
(* loop or the dispatcher that runs next meets nothing but the end.        *)
THEOREM NothingStaysOver == Spec => []NothingLeftOver
<1>1. HandshakeInv => NothingLeftOver
  <2> SUFFICES ASSUME HandshakeInv, NEW x \in Sides, strays = {}, proc[x] = "up"
               PROVE  OnlyFins(x)
    BY DEF NothingLeftOver, OnlyFins
  <2> QED
    BY TwoSides DEF HandshakeInv, Talk, ClientUp, ServerUp
<1> QED
  BY <1>1, HandshakeInvAlways, PTL
=================================================================================
