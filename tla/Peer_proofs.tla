------------------------------- MODULE Peer_proofs -------------------------------
(* Proofs about Peer, for any number of callbacks and channels, any capacity of  *)
(* the queue and any number of messages: no wakeup is lost, and recv_frame       *)
(* returns the messages of one channel in order and its end after them.          *)
EXTENDS Peer, SequenceTheorems, TLAPS

Waiting == pc \in {"look", "check", "arm", "recheck", "asleep"} => wait \in Waits

\* Until the handle is closed there is one channel: the one in the slot.
OneChannel ==
    ~closeCalled =>
        /\ \A c \in Channels : pump[c] # None => slot = c
        /\ slot = None => got = <<>> /\ inbound = <<>>
        /\ inboundClosed => slot # None /\ \A c \in Channels : pump[c] \in {None, "ended"}
        /\ reader = "ended" => inboundClosed /\ inbound = <<>>

\* Nothing is taken from a channel without a pump, and a pump that is sending
\* has taken a message.
Counts == \A c \in Channels :
    /\ pump[c] = None => polled[c] = 0
    /\ pump[c] = "sending" => polled[c] > 0

IInv == TypeOK /\ Waiting /\ SleepersAreWoken /\ OneChannel /\ Counts /\ DeliveredInOrder

---------------------------------------------------------------------------------
\* Taking the head of the queue does not change what was got and is queued.
LEMMA TakeHead ==
    ASSUME NEW S, NEW a \in Seq(S), NEW b \in Seq(S), b # <<>>
    PROVE  /\ Append(a, Head(b)) \in Seq(S) /\ Tail(b) \in Seq(S)
           /\ Len(Tail(b)) = Len(b) - 1
           /\ Append(a, Head(b)) \o Tail(b) = a \o b
<1>1. /\ Head(b) \in S /\ Tail(b) \in Seq(S) /\ Len(Tail(b)) = Len(b) - 1
      /\ \A i \in 1..Len(Tail(b)) : Tail(b)[i] = b[i + 1]
      /\ Len(b) \in Nat /\ Len(b) > 0 /\ Head(b) = b[1]
  BY HeadTailProperties, EmptySeq, LenProperties
<1> DEFINE h == Append(a, Head(b))
<1>2. /\ h \in Seq(S) /\ Len(h) = Len(a) + 1 /\ h[Len(a) + 1] = Head(b)
      /\ \A i \in 1..Len(a) : h[i] = a[i]
  BY <1>1, AppendProperties
<1>3. /\ h \o Tail(b) \in Seq(S) /\ Len(h \o Tail(b)) = Len(a) + Len(b)
      /\ a \o b \in Seq(S) /\ Len(a \o b) = Len(a) + Len(b)
      /\ Len(a) \in Nat
  BY <1>1, <1>2, ConcatProperties, LenProperties
<1>4. ASSUME NEW i \in 1..(Len(a) + Len(b))
      PROVE  (h \o Tail(b))[i] = (a \o b)[i]
  <2>1. (h \o Tail(b))[i] = IF i <= Len(h) THEN h[i] ELSE Tail(b)[i - Len(h)]
    BY <1>1, <1>2, <1>3, ConcatProperties
  <2>2. (a \o b)[i] = IF i <= Len(a) THEN a[i] ELSE b[i - Len(a)]
    BY <1>1, <1>3, ConcatProperties
  <2> QED BY <2>1, <2>2, <1>1, <1>2, <1>3
<1>5. h \o Tail(b) = a \o b
  BY <1>3, <1>4, SeqEqual
<1> QED BY <1>1, <1>2, <1>5

\* Queueing a message puts it behind what was got and is queued.
LEMMA QueueOne ==
    ASSUME NEW S, NEW a \in Seq(S), NEW b \in Seq(S), NEW m \in S
    PROVE  a \o Append(b, m) = Append(a \o b, m)
BY AppendIsConcat, ConcatAssociative, ConcatProperties, IsASeq

---------------------------------------------------------------------------------
\* Numbering the messages of a channel one further appends the last number.
LEMMA CountUp ==
    ASSUME NEW c, NEW n \in Nat, n > 0
    PROVE  Append([i \in 1..(n - 1) |-> <<c, i>>], <<c, n>>) = [i \in 1..n |-> <<c, i>>]
<1> DEFINE S == {c} \X Nat
           a == [i \in 1..(n - 1) |-> <<c, i>>]
           b == [i \in 1..n |-> <<c, i>>]
           e == Append(a, <<c, n>>)
<1>1. a \in Seq(S) /\ Len(a) = n - 1 /\ b \in Seq(S) /\ Len(b) = n /\ <<c, n>> \in S
  BY IsASeq
<1>2. e \in Seq(S) /\ Len(e) = n /\ e[n] = <<c, n>> /\ \A i \in 1..(n - 1) : e[i] = a[i]
  BY <1>1, AppendProperties
<1>3. \A i \in 1..n : e[i] = b[i]
  BY <1>2
<1> QED BY <1>1, <1>2, <1>3, SeqEqual

(* A handle just made, with nothing installed, nothing received and nobody *)
(* waiting.                                                                *)
LEMMA InitIInv == Init => IInv
<1> SUFFICES ASSUME Init PROVE IInv
  OBVIOUS
<1>1. TypeOK
  <2>1. /\ inbound \in Seq(Channels \X (1..MaxPolled)) /\ got \in Seq(Channels \X (1..MaxPolled))
        /\ Len(inbound) <= QueueCap
    BY PeerAssumption DEF Init
  <2>2. /\ flags \subseteq Flags /\ owes \in [Callbacks -> SUBSET Notifies]
        /\ pump \in [Channels -> PumpSteps] /\ polled \in [Channels -> 0..MaxPolled]
    BY PeerAssumption DEF Init, PumpSteps, None
  <2> QED BY <2>1, <2>2 DEF Init, TypeOK, CallerSteps, Outcomes, None
<1>2. Waiting /\ SleepersAreWoken /\ OneChannel /\ Counts /\ DeliveredInOrder
  BY DEF Init, Waiting, SleepersAreWoken, OneChannel, Counts, DeliveredInOrder, None
<1> QED BY <1>1, <1>2 DEF IInv

\* Types, the wait of a task that waits, and the counts of the pumps.
LEMMA TypeStep ==
    ASSUME TypeOK, Waiting, Counts, [Next]_vars
    PROVE  TypeOK' /\ Waiting' /\ Counts'
<1>1. ASSUME NEW k \in Callbacks, NEW r \in Reports, Report(k, r)
      PROVE  TypeOK' /\ Waiting' /\ Counts'
  <2>1. flags' \subseteq Flags /\ owes' \in [Callbacks -> SUBSET Notifies]
    BY <1>1 DEF Report, TypeOK, Flags, Notifies
  <2> QED BY <1>1, <2>1 DEF Report, TypeOK, Waiting, Counts, caller, pumps, queue
<1>2. ASSUME NEW k \in Callbacks, NotifyReport(k)
      PROVE  TypeOK' /\ Waiting' /\ Counts'
  BY <1>2 DEF NotifyReport, TypeOK, Waiting, Counts, Notify, Resume, Quiet,
         Return, Success, Listening, events, caller, pumps, queue, None,
         Waits, CallerSteps, Outcomes, PumpSteps, Flags, Notifies, Reports
<1>3. CASE ReportIceFailed
  BY <1>3 DEF ReportIceFailed, TypeOK, Waiting, Counts, Notify, Resume, Quiet,
         Return, Success, Listening, events, caller, pumps, queue, None,
         Waits, CallerSteps, Outcomes, PumpSteps, Flags, Notifies, Reports
<1>4. ASSUME NEW c \in Channels, InstallChannel(c)
      PROVE  TypeOK' /\ Waiting' /\ Counts'
  BY <1>4 DEF InstallChannel, TypeOK, Waiting, Counts, Notify, Resume, Quiet,
         Return, Success, Listening, events, caller, pumps, queue, None,
         Waits, CallerSteps, Outcomes, PumpSteps, Flags, Notifies, Reports
<1>5. ASSUME NEW c \in Channels, PollOpen(c)
      PROVE  TypeOK' /\ Waiting' /\ Counts'
  BY <1>5 DEF PollOpen, TypeOK, Waiting, Counts, Notify, Resume, Quiet,
         Return, Success, Listening, events, caller, pumps, queue, None,
         Waits, CallerSteps, Outcomes, PumpSteps, Flags, Notifies, Reports
<1>6. ASSUME NEW c \in Channels, PumpNotify(c)
      PROVE  TypeOK' /\ Waiting' /\ Counts'
  <2>1. pump' \in [Channels -> PumpSteps] /\ Counts'
    BY <1>6 DEF PumpNotify, TypeOK, Counts, PumpSteps, None
  <2>2. woken' \in BOOLEAN
    BY <1>6 DEF PumpNotify, Notify, TypeOK
  <2>3. UNCHANGED <<flags, owes, wait, pc, outcome, closeCalled, polled, inboundClosed, inbound, got, reader, slot, conn, handle>>
    BY <1>6 DEF PumpNotify, Resume, events, queue
  <2> QED BY <2>1, <2>2, <2>3 DEF TypeOK, Waiting
<1>7. ASSUME NEW c \in Channels, PollMessage(c)
      PROVE  TypeOK' /\ Waiting' /\ Counts'
  BY <1>7, PeerAssumption DEF PollMessage, TypeOK, Waiting, Counts, Notify,
         Resume, Quiet, Return, Success, Listening, events, caller, pumps,
         queue, None, Waits, CallerSteps, Outcomes, PumpSteps, Flags,
         Notifies, Reports
<1>8. ASSUME NEW c \in Channels, PumpSend(c)
      PROVE  TypeOK' /\ Waiting' /\ Counts'
  <2>1. /\ inbound' \in Seq(Channels \X (1..MaxPolled)) /\ Len(inbound') <= QueueCap
    <3>1. <<c, polled[c]>> \in Channels \X (1..MaxPolled)
      BY <1>8 DEF PumpSend, TypeOK, Counts
    <3>2. /\ Append(inbound, <<c, polled[c]>>) \in Seq(Channels \X (1..MaxPolled))
          /\ Len(Append(inbound, <<c, polled[c]>>)) = Len(inbound) + 1
          /\ Len(inbound) \in Nat
      BY <3>1, AppendProperties, LenProperties DEF TypeOK
    <3>3. \/ inbound' = inbound
          \/ Len(inbound) < QueueCap /\ inbound' = Append(inbound, <<c, polled[c]>>)
      BY <1>8 DEF PumpSend
    <3>4. Len(inbound) <= QueueCap /\ inbound \in Seq(Channels \X (1..MaxPolled))
      BY DEF TypeOK
    <3> DEFINE q == Append(inbound, <<c, polled[c]>>)
    <3>5. /\ q \in Seq(Channels \X (1..MaxPolled)) /\ Len(q) = Len(inbound) + 1
          /\ inbound' = inbound \/ (Len(inbound) < QueueCap /\ inbound' = q)
      BY <3>2, <3>3
    <3> HIDE DEF q
    <3> QED BY <3>2, <3>4, <3>5, PeerAssumption
  <2> QED BY <1>8, <2>1 DEF PumpSend, TypeOK, Waiting, Counts, events, caller, PumpSteps, None
<1>9. ASSUME NEW c \in Channels, PollError(c)
      PROVE  TypeOK' /\ Waiting' /\ Counts'
  BY <1>9 DEF PollError, TypeOK, Waiting, Counts, Notify, Resume, Quiet,
         Return, Success, Listening, events, caller, pumps, queue, None,
         Waits, CallerSteps, Outcomes, PumpSteps, Flags, Notifies, Reports
<1>10. ASSUME NEW c \in Channels, PollClose(c)
      PROVE  TypeOK' /\ Waiting' /\ Counts'
  BY <1>10 DEF PollClose, TypeOK, Waiting, Counts, Notify, Resume, Quiet,
         Return, Success, Listening, events, caller, pumps, queue, None,
         Waits, CallerSteps, Outcomes, PumpSteps, Flags, Notifies, Reports
<1>11. ASSUME NEW c \in Channels, PumpEnd(c)
      PROVE  TypeOK' /\ Waiting' /\ Counts'
  BY <1>11 DEF PumpEnd, TypeOK, Waiting, Counts, Notify, Resume, Quiet,
         Return, Success, Listening, events, caller, pumps, queue, None,
         Waits, CallerSteps, Outcomes, PumpSteps, Flags, Notifies, Reports
<1>12. CASE RecvFrame
  <2>1. /\ inbound' \in Seq(Channels \X (1..MaxPolled)) /\ Len(inbound') <= QueueCap
        /\ got' \in Seq(Channels \X (1..MaxPolled))
    <3>1. CASE inbound # <<>>
      <4>1. /\ Append(got, Head(inbound)) \in Seq(Channels \X (1..MaxPolled))
            /\ Tail(inbound) \in Seq(Channels \X (1..MaxPolled))
            /\ Len(Tail(inbound)) = Len(inbound) - 1
        BY <3>1, TakeHead DEF TypeOK
      <4>2. inbound' = Tail(inbound) /\ got' = Append(got, Head(inbound))
        BY <1>12, <3>1 DEF RecvFrame
      <4>3. Len(inbound) <= QueueCap /\ Len(inbound) \in Nat
        BY LenProperties DEF TypeOK
      <4> QED BY <4>1, <4>2, <4>3, PeerAssumption
    <3> QED BY <1>12, <3>1 DEF RecvFrame, TypeOK
  <2> QED BY <1>12, <2>1 DEF RecvFrame, TypeOK, Waiting, Counts, events, caller, pumps
<1>13. ASSUME NEW w \in Waits, StartWait(w)
      PROVE  TypeOK' /\ Waiting' /\ Counts'
  BY <1>13 DEF StartWait, TypeOK, Waiting, Counts, Notify, Resume, Quiet,
         Return, Success, Listening, events, caller, pumps, queue, None,
         Waits, CallerSteps, Outcomes, PumpSteps, Flags, Notifies, Reports
<1>14. CASE Look
  <2>1. wait' \in Waits \cup {None} /\ pc' \in CallerSteps /\ outcome' \in Outcomes
    BY <1>14 DEF Look, Success, Return, TypeOK, CallerSteps, Outcomes
  <2>2. woken' \in BOOLEAN /\ closeCalled' \in BOOLEAN
    BY <1>14 DEF Look, Success, Return, TypeOK
  <2>3. Waiting'
    BY <1>14 DEF Look, Success, Return, Waiting
  <2>4. UNCHANGED <<flags, owes, pump, polled, inboundClosed, inbound, got, reader, slot, conn, handle>>
    BY <1>14 DEF Look, Quiet, events, pumps, queue
  <2> QED BY <2>1, <2>2, <2>3, <2>4 DEF TypeOK, Counts
<1>15. CASE Check
  <2>1. wait' \in Waits \cup {None} /\ pc' \in CallerSteps /\ outcome' \in Outcomes
    BY <1>15 DEF Check, Success, Return, TypeOK, CallerSteps, Outcomes
  <2>2. woken' \in BOOLEAN /\ closeCalled' \in BOOLEAN
    BY <1>15 DEF Check, Success, Return, TypeOK
  <2>3. Waiting'
    BY <1>15 DEF Check, Success, Return, Waiting
  <2>4. UNCHANGED <<flags, owes, pump, polled, inboundClosed, inbound, got, reader, slot, conn, handle>>
    BY <1>15 DEF Check, Quiet, events, pumps, queue
  <2> QED BY <2>1, <2>2, <2>3, <2>4 DEF TypeOK, Counts
<1>16. CASE Arm
  BY <1>16 DEF Arm, TypeOK, Waiting, Counts, Notify, Resume, Quiet, Return,
         Success, Listening, events, caller, pumps, queue, None, Waits,
         CallerSteps, Outcomes, PumpSteps, Flags, Notifies, Reports
<1>17. CASE Recheck
  <2>1. wait' \in Waits \cup {None} /\ pc' \in CallerSteps /\ outcome' \in Outcomes
    BY <1>17 DEF Recheck, Success, Return, TypeOK, CallerSteps, Outcomes
  <2>2. woken' \in BOOLEAN /\ closeCalled' \in BOOLEAN
    BY <1>17 DEF Recheck, Success, Return, TypeOK
  <2>3. Waiting'
    BY <1>17 DEF Recheck, Success, Return, Waiting
  <2>4. UNCHANGED <<flags, owes, pump, polled, inboundClosed, inbound, got, reader, slot, conn, handle>>
    BY <1>17 DEF Recheck, Quiet, events, pumps, queue
  <2> QED BY <2>1, <2>2, <2>3, <2>4 DEF TypeOK, Counts
<1>18. CASE Wake
  BY <1>18 DEF Wake, TypeOK, Waiting, Counts, Notify, Resume, Quiet, Return,
         Success, Listening, events, caller, pumps, queue, None, Waits,
         CallerSteps, Outcomes, PumpSteps, Flags, Notifies, Reports
<1>19. CASE WaitTimeout
  BY <1>19 DEF WaitTimeout, TypeOK, Waiting, Counts, Notify, Resume, Quiet,
         Return, Success, Listening, events, caller, pumps, queue, None,
         Waits, CallerSteps, Outcomes, PumpSteps, Flags, Notifies, Reports
<1>20. CASE UseChannel
  BY <1>20 DEF UseChannel, TypeOK, Waiting, Counts, Notify, Resume, Quiet,
         Return, Success, Listening, events, caller, pumps, queue, None,
         Waits, CallerSteps, Outcomes, PumpSteps, Flags, Notifies, Reports
<1>21. CASE CloseChannel
  BY <1>21 DEF CloseChannel, TypeOK, Waiting, Counts, Notify, Resume, Quiet,
         Return, Success, Listening, events, caller, pumps, queue, None,
         Waits, CallerSteps, Outcomes, PumpSteps, Flags, Notifies, Reports
<1>22. CASE CloseConnection
  BY <1>22 DEF CloseConnection, TypeOK, Waiting, Counts, Notify, Resume,
         Quiet, Return, Success, Listening, events, caller, pumps, queue,
         None, Waits, CallerSteps, Outcomes, PumpSteps, Flags, Notifies,
         Reports
<1>23. CASE Close
  BY <1>23 DEF Close, TypeOK, Waiting, Counts, Notify, Resume, Quiet, Return,
         Success, Listening, events, caller, pumps, queue, None, Waits,
         CallerSteps, Outcomes, PumpSteps, Flags, Notifies, Reports
<1>24. CASE Drop
  BY <1>24 DEF Drop, TypeOK, Waiting, Counts, Notify, Resume, Quiet, Return,
         Success, Listening, events, caller, pumps, queue, None, Waits,
         CallerSteps, Outcomes, PumpSteps, Flags, Notifies, Reports
<1>25. CASE UNCHANGED vars
  BY <1>25 DEF vars, events, caller, pumps, queue, TypeOK, Waiting, Counts,
         Notify, Resume, Quiet, Return, Success, Listening, events, caller,
         pumps, queue, None, Waits, CallerSteps, Outcomes, PumpSteps, Flags,
         Notifies, Reports
<1> QED BY <1>1, <1>2, <1>3, <1>4, <1>5, <1>6, <1>7, <1>8, <1>9, <1>10, <1>11,
           <1>12, <1>13, <1>14, <1>15, <1>16, <1>17, <1>18, <1>19, <1>20,
           <1>21, <1>22, <1>23, <1>24, <1>25 DEF Next, PumpStep, CallerStep

\* What each flag that a wait can end well on is notified by.
LEMMA NotifiesMatch ==
    ASSUME NEW w \in Waits
    PROVE  /\ NotifyOf(w) \in Notifies
           /\ Good(w) \cap {"connected", "failed"} # {} => NotifyOf(w) = "connection_state_changed"
           /\ "gathered" \in Good(w) => NotifyOf(w) = "gathering_complete"
           /\ "opened" \in Good(w) => w = "channel_open"
           /\ Good(w) \cap {"error", "closed"} = {}
           /\ NotifyOf(w) = "channel_state_changed" <=> w = "channel_open"
BY DEF Waits, Good, NotifyOf, Notifies

\* A notification that is owed is either sent, and fires the future, or still owed.
LEMMA WakeStep ==
    ASSUME TypeOK, Waiting, SleepersAreWoken, [Next]_vars
    PROVE  SleepersAreWoken'
<1>1. ASSUME NEW k \in Callbacks, NEW r \in Reports, Report(k, r)
      PROVE  SleepersAreWoken'
  <2> SUFFICES ASSUME pc' = "asleep", ~woken', Good(wait') \cap flags' # {}
               PROVE  Owed(wait)'
    BY <1>1 DEF Report, Resume, caller, SleepersAreWoken
  <2>0. pc = "asleep" /\ wait' = wait /\ wait \in Waits
    BY <1>1 DEF Report, Resume, caller, Waiting
  <2>1. /\ woken = FALSE /\ \A j \in Callbacks : owes[j] \subseteq owes'[j]
        /\ pump' = pump
    BY <1>1 DEF Report, TypeOK, caller, pumps
  <2>2. CASE Good(wait) \cap flags # {}
    BY <2>0, <2>1, <2>2 DEF SleepersAreWoken, Owed
  <2>3. CASE Good(wait) \cap flags = {}
    <3>1. \/ "connection_state_changed" \in owes'[k] /\ Good(wait) \cap {"connected", "failed"} # {}
          \/ "gathering_complete" \in owes'[k] /\ "gathered" \in Good(wait)
      BY <1>1, <2>0, <2>3 DEF Report, TypeOK
    <3> QED BY <2>0, <3>1, NotifiesMatch DEF Owed
  <2> QED BY <2>2, <2>3
<1>2. ASSUME NEW k \in Callbacks, NotifyReport(k)
      PROVE  SleepersAreWoken'
  <2> SUFFICES ASSUME pc' = "asleep", ~woken', Good(wait') \cap flags' # {}
               PROVE  Owed(wait)'
    BY <1>2 DEF NotifyReport, Resume, caller, SleepersAreWoken
  <2>0. pc = "asleep" /\ wait' = wait /\ wait \in Waits
    BY <1>2 DEF NotifyReport, Resume, caller, Waiting
  <2>1. /\ ~woken
        /\ ~Listening(NotifyOf(wait)) \/ NotifyOf(wait) \in owes'[k] \/ NotifyOf(wait) \notin owes[k]
        /\ \A j \in Callbacks : j # k => owes'[j] = owes[j]
        /\ flags' = flags /\ pump' = pump
    BY <1>2 DEF NotifyReport, Notify, TypeOK, pumps
  <2>2. Listening(NotifyOf(wait))
    BY <2>0 DEF Listening
  <2> QED BY <2>0, <2>1, <2>2 DEF SleepersAreWoken, Owed
<1>3. CASE ReportIceFailed
  <2> SUFFICES ASSUME pc' = "asleep", ~woken', Good(wait') \cap flags' # {}
               PROVE  Owed(wait)'
    BY <1>3 DEF ReportIceFailed, Resume, caller, SleepersAreWoken
  <2>0. pc = "asleep" /\ wait' = wait /\ wait \in Waits
    BY <1>3 DEF ReportIceFailed, Resume, caller, Waiting
  <2>1. NotifyOf(wait) # "connection_state_changed" /\ ~woken
    BY <1>3, <2>0 DEF ReportIceFailed, Notify, Listening
  <2>2. Good(wait) \cap flags # {}
    BY <1>3, <2>0, <2>1, NotifiesMatch DEF ReportIceFailed
  <2> QED BY <1>3, <2>0, <2>1, <2>2 DEF ReportIceFailed, SleepersAreWoken, Owed, pumps
<1>4. ASSUME NEW c \in Channels, InstallChannel(c)
      PROVE  SleepersAreWoken'
  <2> SUFFICES ASSUME pc' = "asleep", ~woken', Good(wait') \cap flags' # {}
               PROVE  Owed(wait)'
    BY <1>4 DEF InstallChannel, Resume, caller, SleepersAreWoken
  <2>0. pc = "asleep" /\ wait' = wait /\ wait \in Waits
    BY <1>4 DEF InstallChannel, Resume, caller, Waiting
  <2>1. /\ flags' = flags /\ owes' = owes /\ ~woken
        /\ \A d \in Channels : pump[d] = "opened" => pump'[d] = "opened"
    BY <1>4 DEF InstallChannel, TypeOK, events, caller, None
  <2> QED BY <2>0, <2>1 DEF SleepersAreWoken, Owed
<1>5. ASSUME NEW c \in Channels, PollOpen(c)
      PROVE  SleepersAreWoken'
  <2> SUFFICES ASSUME pc' = "asleep", ~woken', Good(wait') \cap flags' # {}
               PROVE  Owed(wait)'
    BY <1>5 DEF PollOpen, Resume, caller, SleepersAreWoken
  <2>0. pc = "asleep" /\ wait' = wait /\ wait \in Waits
    BY <1>5 DEF PollOpen, Resume, caller, Waiting
  <2>1. pump'[c] = "opened" /\ \A d \in Channels : d # c => pump'[d] = pump[d]
    BY <1>5 DEF PollOpen, TypeOK
  <2>2. CASE wait = "channel_open"
    BY <2>0, <2>1, <2>2 DEF Owed
  <2>3. CASE wait # "channel_open"
    <3>1. Good(wait) \cap flags # {} /\ ~woken /\ owes' = owes
      BY <1>5, <2>0, <2>3, NotifiesMatch DEF PollOpen, caller
    <3> QED BY <2>0, <2>3, <3>1 DEF SleepersAreWoken, Owed
  <2> QED BY <2>2, <2>3
<1>6. ASSUME NEW c \in Channels, PumpNotify(c)
      PROVE  SleepersAreWoken'
  <2> SUFFICES ASSUME pc' = "asleep", ~woken', Good(wait') \cap flags' # {}
               PROVE  Owed(wait)'
    BY <1>6 DEF PumpNotify, Resume, caller, SleepersAreWoken
  <2>0. pc = "asleep" /\ wait' = wait /\ wait \in Waits
    BY <1>6 DEF PumpNotify, Resume, caller, Waiting
  <2>1. wait # "channel_open" /\ ~woken
    BY <1>6, <2>0, NotifiesMatch DEF PumpNotify, Notify, Listening
  <2> QED BY <1>6, <2>0, <2>1 DEF PumpNotify, SleepersAreWoken, Owed, events
<1>7. ASSUME NEW c \in Channels, PollMessage(c)
      PROVE  SleepersAreWoken'
  <2> SUFFICES ASSUME pc' = "asleep", ~woken', Good(wait') \cap flags' # {}
               PROVE  Owed(wait)'
    BY <1>7 DEF PollMessage, Resume, caller, SleepersAreWoken
  <2>0. pc = "asleep" /\ wait' = wait /\ wait \in Waits
    BY <1>7 DEF PollMessage, Resume, caller, Waiting
  <2>1. /\ flags' = flags /\ owes' = owes /\ ~woken
        /\ \A d \in Channels : pump[d] = "opened" => pump'[d] = "opened"
    BY <1>7 DEF PollMessage, TypeOK, events, caller, None
  <2> QED BY <2>0, <2>1 DEF SleepersAreWoken, Owed
<1>8. ASSUME NEW c \in Channels, PumpSend(c)
      PROVE  SleepersAreWoken'
  <2> SUFFICES ASSUME pc' = "asleep", ~woken', Good(wait') \cap flags' # {}
               PROVE  Owed(wait)'
    BY <1>8 DEF PumpSend, Resume, caller, SleepersAreWoken
  <2>0. pc = "asleep" /\ wait' = wait /\ wait \in Waits
    BY <1>8 DEF PumpSend, Resume, caller, Waiting
  <2>1. /\ flags' = flags /\ owes' = owes /\ ~woken
        /\ \A d \in Channels : pump[d] = "opened" => pump'[d] = "opened"
    BY <1>8 DEF PumpSend, TypeOK, events, caller, None
  <2> QED BY <2>0, <2>1 DEF SleepersAreWoken, Owed
<1>9. ASSUME NEW c \in Channels, PollError(c)
      PROVE  SleepersAreWoken'
  <2> SUFFICES ASSUME pc' = "asleep", ~woken', Good(wait') \cap flags' # {}
               PROVE  Owed(wait)'
    BY <1>9 DEF PollError, Resume, caller, SleepersAreWoken
  <2>0. pc = "asleep" /\ wait' = wait /\ wait \in Waits
    BY <1>9 DEF PollError, Resume, caller, Waiting
  <2>1. Good(wait) \cap flags # {} /\ ~woken
    BY <1>9, <2>0, NotifiesMatch DEF PollError, Notify
  <2> QED BY <1>9, <2>0, <2>1 DEF PollError, SleepersAreWoken, Owed, pumps
<1>10. ASSUME NEW c \in Channels, PollClose(c)
      PROVE  SleepersAreWoken'
  <2> SUFFICES ASSUME pc' = "asleep", ~woken', Good(wait') \cap flags' # {}
               PROVE  Owed(wait)'
    BY <1>10 DEF PollClose, Resume, caller, SleepersAreWoken
  <2>0. pc = "asleep" /\ wait' = wait /\ wait \in Waits
    BY <1>10 DEF PollClose, Resume, caller, Waiting
  <2>1. Good(wait) \cap flags # {} /\ ~woken
    BY <1>10, <2>0, NotifiesMatch DEF PollClose, caller
  <2> QED BY <1>10, <2>0, <2>1 DEF PollClose, TypeOK, SleepersAreWoken, Owed
<1>11. ASSUME NEW c \in Channels, PumpEnd(c)
      PROVE  SleepersAreWoken'
  <2> SUFFICES ASSUME pc' = "asleep", ~woken', Good(wait') \cap flags' # {}
               PROVE  Owed(wait)'
    BY <1>11 DEF PumpEnd, Resume, caller, SleepersAreWoken
  <2>0. pc = "asleep" /\ wait' = wait /\ wait \in Waits
    BY <1>11 DEF PumpEnd, Resume, caller, Waiting
  <2>1. /\ flags' = flags /\ owes' = owes /\ ~woken
        /\ \A d \in Channels : pump[d] = "opened" => pump'[d] = "opened"
    BY <1>11 DEF PumpEnd, TypeOK, events, caller, None
  <2> QED BY <2>0, <2>1 DEF SleepersAreWoken, Owed
<1>12. CASE RecvFrame
  BY <1>12 DEF RecvFrame, SleepersAreWoken, Owed, Resume, Quiet, Return,
         Success, events, caller, pumps, queue
<1>13. ASSUME NEW w \in Waits, StartWait(w)
      PROVE  SleepersAreWoken'
  BY <1>13 DEF StartWait, SleepersAreWoken, Owed, Resume, Quiet, Return,
         Success, events, caller, pumps, queue
<1>14. CASE Look
  BY <1>14 DEF Look, SleepersAreWoken, Owed, Resume, Quiet, Return, Success,
         events, caller, pumps, queue
<1>15. CASE Check
  BY <1>15 DEF Check, SleepersAreWoken, Owed, Resume, Quiet, Return, Success,
         events, caller, pumps, queue
<1>16. CASE Arm
  BY <1>16 DEF Arm, SleepersAreWoken, Owed, Resume, Quiet, Return, Success,
         events, caller, pumps, queue
<1>17. CASE Recheck
  BY <1>17 DEF Recheck, SleepersAreWoken, Owed, Resume, Quiet, Return,
         Success, events, caller, pumps, queue
<1>18. CASE Wake
  BY <1>18 DEF Wake, SleepersAreWoken, Owed, Resume, Quiet, Return, Success,
         events, caller, pumps, queue
<1>19. CASE WaitTimeout
  BY <1>19 DEF WaitTimeout, SleepersAreWoken, Owed, Resume, Quiet, Return,
         Success, events, caller, pumps, queue
<1>20. CASE UseChannel
  BY <1>20 DEF UseChannel, SleepersAreWoken, Owed, Resume, Quiet, Return,
         Success, events, caller, pumps, queue
<1>21. CASE CloseChannel
  BY <1>21 DEF CloseChannel, SleepersAreWoken, Owed, Resume, Quiet, Return,
         Success, events, caller, pumps, queue
<1>22. CASE CloseConnection
  BY <1>22 DEF CloseConnection, SleepersAreWoken, Owed, Resume, Quiet, Return,
         Success, events, caller, pumps, queue
<1>23. CASE Close
  BY <1>23 DEF Close, SleepersAreWoken, Owed, Resume, Quiet, Return, Success,
         events, caller, pumps, queue
<1>24. CASE Drop
  BY <1>24 DEF Drop, SleepersAreWoken, Owed, Resume, Quiet, Return, Success,
         events, caller, pumps, queue
<1>25. CASE UNCHANGED vars
  BY <1>25 DEF vars, events, caller, pumps, queue, SleepersAreWoken, Owed,
         Resume, Quiet, Return, Success, events, caller, pumps, queue
<1> QED BY <1>1, <1>2, <1>3, <1>4, <1>5, <1>6, <1>7, <1>8, <1>9, <1>10, <1>11,
           <1>12, <1>13, <1>14, <1>15, <1>16, <1>17, <1>18, <1>19, <1>20,
           <1>21, <1>22, <1>23, <1>24, <1>25 DEF Next, PumpStep, CallerStep

\* The slot admits one channel, and the queue closes when its pump ends.
LEMMA OneChannelStep ==
    ASSUME TypeOK, OneChannel, [Next]_vars
    PROVE  OneChannel'
<1>1. ASSUME NEW k \in Callbacks, NEW r \in Reports, Report(k, r)
      PROVE  OneChannel'
  BY <1>1 DEF Report, OneChannel, Resume, Quiet, Return, Success, events,
         caller, pumps, queue, None
<1>2. ASSUME NEW k \in Callbacks, NotifyReport(k)
      PROVE  OneChannel'
  BY <1>2 DEF NotifyReport, OneChannel, Resume, Quiet, Return, Success,
         events, caller, pumps, queue, None
<1>3. CASE ReportIceFailed
  BY <1>3 DEF ReportIceFailed, OneChannel, Resume, Quiet, Return, Success,
         events, caller, pumps, queue, None
<1>4. ASSUME NEW c \in Channels, InstallChannel(c)
      PROVE  OneChannel'
  BY <1>4, PeerAssumption DEF InstallChannel, TypeOK, OneChannel, caller, queue, None
<1>5. ASSUME NEW c \in Channels, PollOpen(c)
      PROVE  OneChannel'
  BY <1>5, PeerAssumption DEF PollOpen, TypeOK, OneChannel, caller, queue, None
<1>6. ASSUME NEW c \in Channels, PumpNotify(c)
      PROVE  OneChannel'
  BY <1>6, PeerAssumption DEF PumpNotify, TypeOK, OneChannel, queue, Resume, None
<1>7. ASSUME NEW c \in Channels, PollMessage(c)
      PROVE  OneChannel'
  BY <1>7, PeerAssumption DEF PollMessage, TypeOK, OneChannel, caller, queue, None
<1>8. ASSUME NEW c \in Channels, PumpSend(c)
      PROVE  OneChannel'
  <2>1. ~closeCalled => slot = c /\ ~inboundClosed
    BY <1>8 DEF PumpSend, OneChannel, None
  <2>2. UNCHANGED <<closeCalled, slot, got, inboundClosed, reader>>
    BY <1>8 DEF PumpSend, caller
  <2>3. \A d \in Channels : d # c => pump'[d] = pump[d]
    BY <1>8 DEF PumpSend, TypeOK
  <2> QED BY <2>1, <2>2, <2>3, PeerAssumption DEF OneChannel
<1>9. ASSUME NEW c \in Channels, PollError(c)
      PROVE  OneChannel'
  BY <1>9 DEF PollError, OneChannel, Resume, Quiet, Return, Success, events,
         caller, pumps, queue, None
<1>10. ASSUME NEW c \in Channels, PollClose(c)
      PROVE  OneChannel'
  BY <1>10, PeerAssumption DEF PollClose, TypeOK, OneChannel, caller, queue, None
<1>11. ASSUME NEW c \in Channels, PumpEnd(c)
      PROVE  OneChannel'
  BY <1>11, PeerAssumption DEF PumpEnd, TypeOK, OneChannel, caller, queue, None
<1>12. CASE RecvFrame
  <2>1. UNCHANGED <<closeCalled, slot, pump, inboundClosed>>
    BY <1>12 DEF RecvFrame, caller, pumps
  <2>2. CASE inbound # <<>>
    <3>1. reader' = reader /\ reader = "reading"
      BY <1>12, <2>2 DEF RecvFrame
    <3> QED BY <2>1, <2>2, <3>1 DEF OneChannel
  <2>3. CASE inbound = <<>>
    BY <1>12, <2>1, <2>3 DEF RecvFrame, OneChannel
  <2> QED BY <2>2, <2>3
<1>13. ASSUME NEW w \in Waits, StartWait(w)
      PROVE  OneChannel'
  BY <1>13 DEF StartWait, OneChannel, Resume, Quiet, Return, Success, events,
         caller, pumps, queue, None
<1>14. CASE Look
  BY <1>14 DEF Look, OneChannel, Resume, Quiet, Return, Success, events,
         caller, pumps, queue, None
<1>15. CASE Check
  BY <1>15 DEF Check, OneChannel, Resume, Quiet, Return, Success, events,
         caller, pumps, queue, None
<1>16. CASE Arm
  BY <1>16 DEF Arm, OneChannel, Resume, Quiet, Return, Success, events,
         caller, pumps, queue, None
<1>17. CASE Recheck
  BY <1>17 DEF Recheck, OneChannel, Resume, Quiet, Return, Success, events,
         caller, pumps, queue, None
<1>18. CASE Wake
  BY <1>18 DEF Wake, OneChannel, Resume, Quiet, Return, Success, events,
         caller, pumps, queue, None
<1>19. CASE WaitTimeout
  BY <1>19 DEF WaitTimeout, OneChannel, Resume, Quiet, Return, Success,
         events, caller, pumps, queue, None
<1>20. CASE UseChannel
  BY <1>20 DEF UseChannel, OneChannel, Resume, Quiet, Return, Success, events,
         caller, pumps, queue, None
<1>21. CASE CloseChannel
  BY <1>21 DEF CloseChannel, OneChannel, Resume, Quiet, Return, Success,
         events, caller, pumps, queue, None
<1>22. CASE CloseConnection
  BY <1>22 DEF CloseConnection, OneChannel, Resume, Quiet, Return, Success,
         events, caller, pumps, queue, None
<1>23. CASE Close
  BY <1>23 DEF Close, OneChannel
<1>24. CASE Drop
  BY <1>24 DEF Drop, OneChannel, Resume, Quiet, Return, Success, events,
         caller, pumps, queue, None
<1>25. CASE UNCHANGED vars
  BY <1>25 DEF vars, events, caller, pumps, queue, OneChannel, Resume, Quiet,
         Return, Success, events, caller, pumps, queue, None
<1> QED BY <1>1, <1>2, <1>3, <1>4, <1>5, <1>6, <1>7, <1>8, <1>9, <1>10, <1>11,
           <1>12, <1>13, <1>14, <1>15, <1>16, <1>17, <1>18, <1>19, <1>20,
           <1>21, <1>22, <1>23, <1>24, <1>25 DEF Next, PumpStep, CallerStep

\* What was got and is queued follows what the pump has taken.
LEMMA OrderStep ==
    ASSUME TypeOK, Counts, OneChannel, DeliveredInOrder, [Next]_vars
    PROVE  DeliveredInOrder'
<1>1. ASSUME NEW k \in Callbacks, NEW r \in Reports, Report(k, r)
      PROVE  DeliveredInOrder'
  BY <1>1 DEF Report, DeliveredInOrder, Messages, Resume, Quiet, Return,
         Success, events, caller, pumps, queue
<1>2. ASSUME NEW k \in Callbacks, NotifyReport(k)
      PROVE  DeliveredInOrder'
  BY <1>2 DEF NotifyReport, DeliveredInOrder, Messages, Resume, Quiet, Return,
         Success, events, caller, pumps, queue
<1>3. CASE ReportIceFailed
  BY <1>3 DEF ReportIceFailed, DeliveredInOrder, Messages, Resume, Quiet,
         Return, Success, events, caller, pumps, queue
<1>4. ASSUME NEW c \in Channels, InstallChannel(c)
      PROVE  DeliveredInOrder'
  <2> SUFFICES ASSUME ~closeCalled, NEW d \in Channels, pump'[d] # None
               PROVE  got \o inbound = Messages(d)'
    BY <1>4 DEF InstallChannel, DeliveredInOrder, caller, queue
  <2>1. d = c /\ got = <<>> /\ inbound = <<>> /\ polled'[c] = 0 /\ pump'[c] # "sending"
    BY <1>4, PeerAssumption DEF InstallChannel, OneChannel, Counts, TypeOK, None
  <2>2. Messages(d)' = <<>>
    BY <2>1 DEF Messages
  <2> QED BY <2>1, <2>2
<1>5. ASSUME NEW c \in Channels, PollOpen(c)
      PROVE  DeliveredInOrder'
  <2>1. \A d \in Channels : /\ pump'[d] = "sending" <=> pump[d] = "sending"
                            /\ pump'[d] # None => pump[d] # None
    BY <1>5 DEF PollOpen, TypeOK, None
  <2>2. UNCHANGED <<closeCalled, handle, polled, got, inbound>>
    BY <1>5 DEF PollOpen, Resume, caller, queue
  <2> QED BY <2>1, <2>2 DEF DeliveredInOrder, Messages
<1>6. ASSUME NEW c \in Channels, PumpNotify(c)
      PROVE  DeliveredInOrder'
  <2>1. \A d \in Channels : /\ pump'[d] = "sending" <=> pump[d] = "sending"
                            /\ pump'[d] # None => pump[d] # None
    BY <1>6 DEF PumpNotify, TypeOK, None
  <2>2. UNCHANGED <<closeCalled, handle, polled, got, inbound>>
    BY <1>6 DEF PumpNotify, Resume, caller, queue
  <2> QED BY <2>1, <2>2 DEF DeliveredInOrder, Messages
<1>7. ASSUME NEW c \in Channels, PollMessage(c)
      PROVE  DeliveredInOrder'
  <2>1. \A d \in Channels : pump'[d] # None => Messages(d)' = Messages(d) /\ pump[d] # None
    BY <1>7 DEF PollMessage, TypeOK, Messages, None
  <2>2. UNCHANGED <<closeCalled, handle, got, inbound>>
    BY <1>7 DEF PollMessage, caller, queue
  <2> QED BY <2>1, <2>2 DEF DeliveredInOrder
<1>8. ASSUME NEW c \in Channels, PumpSend(c)
      PROVE  DeliveredInOrder'
  <2> SUFFICES ASSUME ~closeCalled, handle = "live", NEW d \in Channels, pump'[d] # None
               PROVE  (got \o inbound)' = Messages(d)'
    BY <1>8 DEF PumpSend, DeliveredInOrder, caller
  <2>1. d = c /\ ~inboundClosed /\ polled' = polled /\ got' = got /\ pump'[c] = "polling"
    BY <1>8 DEF PumpSend, OneChannel, TypeOK, None
  <2>2. inbound' = Append(inbound, <<c, polled[c]>>)
    BY <1>8, <2>1 DEF PumpSend
  <2>3. polled[c] \in 1..MaxPolled
    BY <1>8 DEF PumpSend, TypeOK, Counts
  <2>4. got' \o inbound' = Append(got \o inbound, <<c, polled[c]>>)
    <3>1. <<c, polled[c]>> \in Channels \X (1..MaxPolled)
      BY <2>3
    <3>2. got \in Seq(Channels \X (1..MaxPolled)) /\ inbound \in Seq(Channels \X (1..MaxPolled))
      BY DEF TypeOK
    <3>3. got \o Append(inbound, <<c, polled[c]>>) = Append(got \o inbound, <<c, polled[c]>>)
      BY <3>1, <3>2, QueueOne
    <3> QED BY <2>1, <2>2, <3>3
  <2>5. got \o inbound = [i \in 1..(polled[c] - 1) |-> <<c, i>>]
    BY <1>8 DEF PumpSend, DeliveredInOrder, Messages, None
  <2>6. Append([i \in 1..(polled[c] - 1) |-> <<c, i>>], <<c, polled[c]>>)
           = [i \in 1..polled[c] |-> <<c, i>>]
    BY <2>3, PeerAssumption, CountUp
  <2>7. Messages(c)' = [i \in 1..polled[c] |-> <<c, i>>]
    BY <2>1, <2>3 DEF Messages
  <2> QED BY <2>1, <2>4, <2>5, <2>6, <2>7
<1>9. ASSUME NEW c \in Channels, PollError(c)
      PROVE  DeliveredInOrder'
  BY <1>9 DEF PollError, DeliveredInOrder, Messages, Resume, Quiet, Return,
         Success, events, caller, pumps, queue
<1>10. ASSUME NEW c \in Channels, PollClose(c)
      PROVE  DeliveredInOrder'
  <2>1. \A d \in Channels : /\ pump'[d] = "sending" <=> pump[d] = "sending"
                            /\ pump'[d] # None => pump[d] # None
    BY <1>10 DEF PollClose, TypeOK, None
  <2>2. UNCHANGED <<closeCalled, handle, polled, got, inbound>>
    BY <1>10 DEF PollClose, Resume, caller, queue
  <2> QED BY <2>1, <2>2 DEF DeliveredInOrder, Messages
<1>11. ASSUME NEW c \in Channels, PumpEnd(c)
      PROVE  DeliveredInOrder'
  <2>1. \A d \in Channels : /\ pump'[d] = "sending" <=> pump[d] = "sending"
                            /\ pump'[d] # None => pump[d] # None
    BY <1>11 DEF PumpEnd, TypeOK, None
  <2>2. UNCHANGED <<closeCalled, handle, polled, got, inbound>>
    BY <1>11 DEF PumpEnd, Resume, caller, queue
  <2> QED BY <2>1, <2>2 DEF DeliveredInOrder, Messages
<1>12. CASE RecvFrame
  <2>1. UNCHANGED <<closeCalled, handle, pump, polled>>
    BY <1>12 DEF RecvFrame, caller, pumps
  <2>2. got' \o inbound' = got \o inbound
    <3>1. CASE inbound # <<>>
      BY <1>12, <3>1, TakeHead DEF RecvFrame, TypeOK
    <3>2. CASE inbound = <<>>
      BY <1>12, <3>2 DEF RecvFrame
    <3> QED BY <3>1, <3>2
  <2> QED BY <2>1, <2>2 DEF DeliveredInOrder, Messages
<1>13. ASSUME NEW w \in Waits, StartWait(w)
      PROVE  DeliveredInOrder'
  BY <1>13 DEF StartWait, DeliveredInOrder, Messages, Resume, Quiet, Return,
         Success, events, caller, pumps, queue
<1>14. CASE Look
  BY <1>14 DEF Look, DeliveredInOrder, Messages, Resume, Quiet, Return,
         Success, events, caller, pumps, queue
<1>15. CASE Check
  BY <1>15 DEF Check, DeliveredInOrder, Messages, Resume, Quiet, Return,
         Success, events, caller, pumps, queue
<1>16. CASE Arm
  BY <1>16 DEF Arm, DeliveredInOrder, Messages, Resume, Quiet, Return,
         Success, events, caller, pumps, queue
<1>17. CASE Recheck
  BY <1>17 DEF Recheck, DeliveredInOrder, Messages, Resume, Quiet, Return,
         Success, events, caller, pumps, queue
<1>18. CASE Wake
  BY <1>18 DEF Wake, DeliveredInOrder, Messages, Resume, Quiet, Return,
         Success, events, caller, pumps, queue
<1>19. CASE WaitTimeout
  BY <1>19 DEF WaitTimeout, DeliveredInOrder, Messages, Resume, Quiet, Return,
         Success, events, caller, pumps, queue
<1>20. CASE UseChannel
  BY <1>20 DEF UseChannel, DeliveredInOrder, Messages, Resume, Quiet, Return,
         Success, events, caller, pumps, queue
<1>21. CASE CloseChannel
  BY <1>21 DEF CloseChannel, DeliveredInOrder, Messages, Resume, Quiet,
         Return, Success, events, caller, pumps, queue
<1>22. CASE CloseConnection
  BY <1>22 DEF CloseConnection, DeliveredInOrder, Messages, Resume, Quiet,
         Return, Success, events, caller, pumps, queue
<1>23. CASE Close
  BY <1>23 DEF Close, DeliveredInOrder, Messages, Resume, Quiet, Return,
         Success, events, caller, pumps, queue
<1>24. CASE Drop
  BY <1>24 DEF Drop, DeliveredInOrder, Messages, Resume, Quiet, Return,
         Success, events, caller, pumps, queue
<1>25. CASE UNCHANGED vars
  BY <1>25 DEF vars, events, caller, pumps, queue, DeliveredInOrder, Messages,
         Resume, Quiet, Return, Success, events, caller, pumps, queue
<1> QED BY <1>1, <1>2, <1>3, <1>4, <1>5, <1>6, <1>7, <1>8, <1>9, <1>10, <1>11,
           <1>12, <1>13, <1>14, <1>15, <1>16, <1>17, <1>18, <1>19, <1>20,
           <1>21, <1>22, <1>23, <1>24, <1>25 DEF Next, PumpStep, CallerStep

(* Every callback, pump step, wait and call on a handle keeps the          *)
(* invariant.                                                              *)
LEMMA IInvStep == IInv /\ [Next]_vars => IInv'
BY TypeStep, WakeStep, OneChannelStep, OrderStep DEF IInv

\* The state of a PeerHandle and its tasks keeps its types, and the queue of
\* received messages its capacity.
THEOREM PeerTypeCorrect == Spec => []TypeOK
<1>1. IInv => TypeOK
  BY DEF IInv
<1> QED BY <1>1, InitIInv, IInvStep, PTL DEF Spec

\* None of the four waits loses its wakeup.
THEOREM NoLostWakeup == Spec => []SleepersAreWoken
<1>1. IInv => SleepersAreWoken
  BY DEF IInv
<1> QED BY <1>1, InitIInv, IInvStep, PTL DEF Spec

\* recv_frame returns the messages of the installed channel once and in order.
THEOREM DeliveryInOrder == Spec => []DeliveredInOrder
<1>1. IInv => DeliveredInOrder
  BY DEF IInv
<1> QED BY <1>1, InitIInv, IInvStep, PTL DEF Spec

\* recv_frame reports the end of the channel after its last message.
THEOREM EndIsLast == Spec => []EndComesLast
<1>1. IInv => EndComesLast
  BY DEF IInv, OneChannel, EndComesLast
<1> QED BY <1>1, InitIInv, IInvStep, PTL DEF Spec
=================================================================================
