---------------------------------- MODULE Peer ----------------------------------
(* One PeerHandle (src/peer/mod.rs) with the tasks that share its PeerEvents:   *)
(* the callbacks of the WebRTC library, one pump task for each data channel     *)
(* that was installed, the task that reads frames, and the task that waits,     *)
(* sends and closes.  A step is what runs between two accesses of shared state. *)
EXTENDS Integers, Sequences, FiniteSets

CONSTANTS Callbacks,     \* tasks on which the library calls the event handler
          Channels,      \* data channels the library can hand out
          QueueCap,      \* capacity of the inbound queue (32 in the code)
          MaxPolled      \* bound on the messages polled from one channel

None == "none"

ASSUME PeerAssumption ==
    QueueCap \in Nat \ {0} /\ MaxPolled \in Nat /\ None \notin Channels

\* The flags of PeerEvents.  None of them is ever taken back.
Flags == {"connected", "failed", "gathered", "opened", "error", "closed"}

Notifies == {"connection_state_changed", "channel_state_changed", "gathering_complete"}

\* The waits of PeerHandle: what ends each well, what ends it in an error, which
\* Notify it sleeps on and which flags it reads again once it is registered.
Waits == {"connected", "channel_open", "disconnected", "gathering"}

Good(w) == CASE w = "connected" -> {"connected"}
             [] w = "channel_open" -> {"opened"}
             [] w = "disconnected" -> {"failed"}
             [] w = "gathering" -> {"gathered"}

Bad(w) == CASE w = "connected" -> {"failed"}
            [] w = "channel_open" -> {"error", "closed"}
            [] OTHER -> {}

NotifyOf(w) == CASE w \in {"connected", "disconnected"} -> "connection_state_changed"
                 [] w = "channel_open" -> "channel_state_changed"
                 [] w = "gathering" -> "gathering_complete"

\* The library's side of a connection: states it reports to the handler.
Reports == {"Connected", "Failed", "Closed", "GatheringComplete", "Other"}

VARIABLES flags,         \* the flags that are set
          owes,          \* Callbacks -> notifications a callback has yet to send
          wait,          \* the wait the calling task is in
          pc,            \* how far the calling task is
          woken,         \* the registered Notified future has fired
          outcome,       \* result of the last call of the calling task
          slot,          \* PeerEvents.channel
          pump,          \* Channels -> how far the channel's pump task is
          polled,        \* Channels -> messages its pump has taken
          inbound,       \* the queue of received messages
          inboundClosed, \* inbound_tx.close() was called
          got,           \* messages recv_frame has taken, in order
          reader,        \* "reading" or "ended", when recv_frame failed
          closeCalled,   \* close() has begun
          conn,          \* "open" or "closed": the library's connection
          handle         \* "live" or "dropped": the PeerHandle

events == <<flags, owes>>
caller == <<wait, pc, woken, outcome, closeCalled>>
pumps == <<pump, polled, inboundClosed>>
queue == <<inbound, got, reader>>
vars == <<events, caller, pumps, queue, slot, conn, handle>>

PumpSteps == {None, "polling", "sending", "opened", "closed", "shutting", "ended"}
CallerSteps == {"idle", "look", "check", "arm", "recheck", "asleep", "lock",
                "closing_channel", "closing_connection"}
Outcomes == {None, "ok", "failed", "timeout", "unavailable"}

TypeOK ==
    /\ flags \subseteq Flags
    /\ owes \in [Callbacks -> SUBSET Notifies]
    /\ wait \in Waits \cup {None}
    /\ pc \in CallerSteps
    /\ woken \in BOOLEAN
    /\ outcome \in Outcomes
    /\ slot \in Channels \cup {None}
    /\ pump \in [Channels -> PumpSteps]
    /\ polled \in [Channels -> 0..MaxPolled]
    /\ inbound \in Seq(Channels \X (1..MaxPolled))
    /\ Len(inbound) <= QueueCap
    /\ inboundClosed \in BOOLEAN
    /\ got \in Seq(Channels \X (1..MaxPolled))
    /\ reader \in {"reading", "ended"}
    /\ closeCalled \in BOOLEAN
    /\ conn \in {"open", "closed"}
    /\ handle \in {"live", "dropped"}

Init ==
    /\ flags = {} /\ owes = [k \in Callbacks |-> {}]
    /\ wait = None /\ pc = "idle" /\ woken = FALSE /\ outcome = None
    /\ slot = None
    /\ pump = [c \in Channels |-> None]
    /\ polled = [c \in Channels |-> 0]
    /\ inbound = <<>> /\ inboundClosed = FALSE
    /\ got = <<>> /\ reader = "reading"
    /\ closeCalled = FALSE /\ conn = "open" /\ handle = "live"

---------------------------------------------------------------------------------
\* notify_waiters: fires the future of the calling task if it is registered
\* with this Notify, from the moment notified() made it.
Listening(n) == pc \in {"recheck", "asleep"} /\ NotifyOf(wait) = n

Notify(n) == woken' = (woken \/ Listening(n))

Resume == UNCHANGED <<wait, pc, outcome, closeCalled>>

\* on_connection_state_change stores the flag, the failure under its mutex, and
\* notifies afterwards; a gathering state is stored and notified the same way.
Report(k, r) ==
    /\ conn = "open" \/ r = "Closed"
    /\ owes[k] = {}
    /\ \/ r = "Connected" /\ flags' = flags \cup {"connected"}
       \/ r \in {"Failed", "Closed"} /\ flags' = flags \cup {"failed"}
       \/ r = "GatheringComplete" /\ flags' = flags \cup {"gathered"}
       \/ r = "Other" /\ UNCHANGED flags
    /\ owes' = [owes EXCEPT ![k] =
                  IF r = "GatheringComplete" THEN {"gathering_complete"}
                                             ELSE {"connection_state_changed"}]
    /\ UNCHANGED <<caller, pumps, queue, slot, conn, handle>>

NotifyReport(k) ==
    /\ \E n \in owes[k] : Notify(n) /\ owes' = [owes EXCEPT ![k] = @ \ {n}]
    /\ Resume
    /\ UNCHANGED <<flags, pumps, queue, slot, conn, handle>>

\* on_ice_connection_state_change notifies while it holds the failure's mutex,
\* so whoever reads the failure sees both.
ReportIceFailed ==
    /\ conn = "open"
    /\ flags' = flags \cup {"failed"}
    /\ Notify("connection_state_changed")
    /\ Resume
    /\ UNCHANGED <<owes, pumps, queue, slot, conn, handle>>

\* Defect used as a mutant: a second channel gets a pump as well.
MutInstallSecond(c) ==
    /\ conn = "open"
    /\ pc # "closing_channel"
    /\ pump[c] = None
    /\ slot' = c
    /\ pump' = [pump EXCEPT ![c] = "polling"]
    /\ UNCHANGED <<events, caller, polled, inboundClosed, queue, conn, handle>>

\* install_channel, called by create_data_channel and by on_data_channel: the
\* first channel is kept and gets a pump, a further one is ignored.
InstallChannel(c) ==
    /\ conn = "open"
    /\ pc # "closing_channel"                     \* close() holds the slot's mutex
    /\ pump[c] = None /\ slot = None
    /\ slot' = c
    /\ pump' = [pump EXCEPT ![c] = "polling"]
    /\ UNCHANGED <<events, caller, polled, inboundClosed, queue, conn, handle>>

---------------------------------------------------------------------------------
(* The pump task of channel c: a loop around channel.poll().                    *)

PollOpen(c) ==
    /\ pump[c] = "polling" /\ conn = "open"
    /\ flags' = flags \cup {"opened"}
    /\ pump' = [pump EXCEPT ![c] = "opened"]
    /\ UNCHANGED <<owes, caller, polled, inboundClosed, queue, slot, conn, handle>>

PumpNotify(c) ==
    /\ \/ pump[c] = "opened" /\ pump' = [pump EXCEPT ![c] = "polling"]
       \/ pump[c] = "closed" /\ pump' = [pump EXCEPT ![c] = "shutting"]
    /\ Notify("channel_state_changed")
    /\ Resume
    /\ UNCHANGED <<events, polled, inboundClosed, queue, slot, conn, handle>>

\* A binary message; the pump now waits for room in the queue.  Text messages
\* and the buffer events change nothing.
PollMessage(c) ==
    /\ pump[c] = "polling"
    /\ polled[c] < MaxPolled
    /\ polled' = [polled EXCEPT ![c] = @ + 1]
    /\ pump' = [pump EXCEPT ![c] = "sending"]
    /\ UNCHANGED <<events, caller, inboundClosed, queue, slot, conn, handle>>

\* Defect used as a mutant: a message that finds the queue full is dropped.
MutPumpSendDrops(c) ==
    /\ pump[c] = "sending"
    /\ \/ /\ inboundClosed \/ handle = "dropped" \/ Len(inbound) = QueueCap
          /\ UNCHANGED inbound
       \/ /\ ~inboundClosed /\ handle = "live" /\ Len(inbound) < QueueCap
          /\ inbound' = Append(inbound, <<c, polled[c]>>)
    /\ pump' = [pump EXCEPT ![c] = "polling"]
    /\ UNCHANGED <<events, caller, polled, inboundClosed, got, reader, slot, conn, handle>>

\* inbound_tx.send(..).await: waits while the queue is full; the message is lost
\* when the queue is closed or its receiver is gone.
PumpSend(c) ==
    /\ pump[c] = "sending"
    /\ \/ /\ inboundClosed \/ handle = "dropped"
          /\ UNCHANGED inbound
       \/ /\ ~inboundClosed /\ handle = "live" /\ Len(inbound) < QueueCap
          /\ inbound' = Append(inbound, <<c, polled[c]>>)
    /\ pump' = [pump EXCEPT ![c] = "polling"]
    /\ UNCHANGED <<events, caller, polled, inboundClosed, got, reader, slot, conn, handle>>

\* OnError sets the error and notifies under the error's mutex.
PollError(c) ==
    /\ pump[c] = "polling"
    /\ flags' = flags \cup {"error"}
    /\ Notify("channel_state_changed")
    /\ Resume
    /\ UNCHANGED <<owes, pumps, queue, slot, conn, handle>>

\* OnClose, or the end of the events.
PollClose(c) ==
    /\ pump[c] = "polling"
    /\ flags' = flags \cup {"closed"}
    /\ pump' = [pump EXCEPT ![c] = "closed"]
    /\ UNCHANGED <<owes, caller, polled, inboundClosed, queue, slot, conn, handle>>

PumpEnd(c) ==
    /\ pump[c] = "shutting"
    /\ inboundClosed' = TRUE
    /\ pump' = [pump EXCEPT ![c] = "ended"]
    /\ UNCHANGED <<events, caller, polled, queue, slot, conn, handle>>

---------------------------------------------------------------------------------
(* recv_frame: messages that were queued before the close are still received.   *)

\* Defect used as a mutant: the end overtakes what is queued.
MutRecvFrameEndsEarly ==
    /\ handle = "live" /\ reader = "reading"
    /\ \/ /\ inbound # <<>>
          /\ got' = Append(got, Head(inbound)) /\ inbound' = Tail(inbound)
          /\ UNCHANGED reader
       \/ /\ inboundClosed
          /\ reader' = "ended"
          /\ UNCHANGED <<inbound, got>>
    /\ UNCHANGED <<events, caller, pumps, slot, conn, handle>>

RecvFrame ==
    /\ handle = "live" /\ reader = "reading"
    /\ \/ /\ inbound # <<>>
          /\ got' = Append(got, Head(inbound)) /\ inbound' = Tail(inbound)
          /\ UNCHANGED reader
       \/ /\ inbound = <<>> /\ inboundClosed
          /\ reader' = "ended"
          /\ UNCHANGED <<inbound, got>>
    /\ UNCHANGED <<events, caller, pumps, slot, conn, handle>>

---------------------------------------------------------------------------------
(* The calling task.  send_frame and wait_send_buffer_empty are a wait for the  *)
(* open channel followed by a look at the slot ("lock").                        *)

Quiet == UNCHANGED <<events, pumps, queue, slot, conn, handle>>

Return(o) == pc' = "idle" /\ wait' = None /\ outcome' = o /\ woken' = FALSE

StartWait(w) ==
    /\ handle = "live" /\ pc = "idle"
    /\ wait' = w /\ pc' = "look" /\ outcome' = None
    /\ UNCHANGED <<woken, closeCalled>> /\ Quiet

\* What a wait that ends well goes on with: a wait for the channel may be the
\* first half of a send.
Success == \/ Return("ok")
           \/ /\ wait = "channel_open"
              /\ pc' = "lock" /\ woken' = FALSE /\ UNCHANGED <<wait, outcome>>

Look ==
    /\ pc = "look"
    /\ \/ Good(wait) \cap flags # {} /\ Success
       \/ Good(wait) \cap flags = {} /\ pc' = "check" /\ UNCHANGED <<wait, woken, outcome>>
    /\ UNCHANGED closeCalled /\ Quiet

Check ==
    /\ pc = "check"
    /\ \/ Bad(wait) \cap flags # {} /\ Return("failed")
       \/ Bad(wait) \cap flags = {} /\ pc' = "arm" /\ UNCHANGED <<wait, woken, outcome>>
    /\ UNCHANGED closeCalled /\ Quiet

\* notified() makes a future that fires on every later notify_waiters.
Arm ==
    /\ pc = "arm"
    /\ pc' = "recheck" /\ woken' = FALSE
    /\ UNCHANGED <<wait, outcome, closeCalled>> /\ Quiet

\* Defect used as a mutant: no second look after registering.
MutRecheckSkipped ==
    /\ pc = "recheck"
    /\ pc' = "asleep"
    /\ UNCHANGED <<wait, woken, outcome, closeCalled>> /\ Quiet

Recheck ==
    /\ pc = "recheck"
    /\ \/ Good(wait) \cap flags # {} /\ Success
       \/ Good(wait) \cap flags = {} /\ pc' = "asleep" /\ UNCHANGED <<wait, woken, outcome>>
    /\ UNCHANGED closeCalled /\ Quiet

Wake ==
    /\ pc = "asleep" /\ woken
    /\ pc' = "look" /\ woken' = FALSE
    /\ UNCHANGED <<wait, outcome, closeCalled>> /\ Quiet

\* Defect used as a mutant: a wait without a time limit.
MutWaitTimeoutNever == FALSE /\ UNCHANGED vars

\* DEFAULT_WAIT_TIMEOUT, or the caller's own limit around the wait.
WaitTimeout ==
    /\ pc = "asleep"
    /\ Return("timeout")
    /\ UNCHANGED closeCalled /\ Quiet

\* channel(): the slot may be empty although the channel was opened once.
UseChannel ==
    /\ pc = "lock"
    /\ IF slot = None THEN Return("unavailable")
                      ELSE \E o \in {"ok", "failed"} : Return(o)
    /\ UNCHANGED closeCalled /\ Quiet

\* close() takes the channel out of the slot and closes it with the slot's mutex
\* held, then closes the connection.
Close ==
    /\ handle = "live" /\ pc = "idle"
    /\ closeCalled' = TRUE /\ outcome' = None
    /\ slot' = None
    /\ pc' = IF slot = None THEN "closing_connection" ELSE "closing_channel"
    /\ UNCHANGED <<wait, woken, events, pumps, queue, conn, handle>>

CloseChannel ==
    /\ pc = "closing_channel"
    /\ pc' = "closing_connection"
    /\ UNCHANGED <<wait, woken, outcome, closeCalled>> /\ Quiet

\* A connection that fails to close is taken for closed when the channel was
\* seen to close.
CloseConnection ==
    /\ pc = "closing_connection"
    /\ \/ conn' = "closed" /\ Return("ok")
       \/ conn' \in {conn, "closed"} /\ Return(IF "closed" \in flags THEN "ok" ELSE "failed")
    /\ UNCHANGED <<closeCalled, events, pumps, queue, slot, handle>>

\* The owner gives the handle up; the receiver of the queue goes with it.
Drop ==
    /\ handle = "live" /\ pc = "idle"
    /\ handle' = "dropped"
    /\ UNCHANGED <<events, caller, pumps, queue, slot, conn>>

---------------------------------------------------------------------------------
PumpStep(c) == \/ PollOpen(c) \/ PumpNotify(c) \/ PollMessage(c) \/ PumpSend(c)
               \/ PollError(c) \/ PollClose(c) \/ PumpEnd(c)

CallerStep == \/ Look \/ Check \/ Arm \/ Recheck \/ Wake \/ WaitTimeout
              \/ UseChannel \/ CloseChannel \/ CloseConnection

Next == \/ \E k \in Callbacks : (\E r \in Reports : Report(k, r)) \/ NotifyReport(k)
        \/ ReportIceFailed
        \/ \E c \in Channels : InstallChannel(c) \/ PumpStep(c)
        \/ RecvFrame
        \/ \E w \in Waits : StartWait(w)
        \/ CallerStep
        \/ Close
        \/ Drop

\* A callback and a pump that have begun go on.  A wait has one deadline however
\* often it is woken, hence strong fairness.  The channel of a connection that
\* was closed reports its end.
Fairness ==
    /\ \A k \in Callbacks : WF_vars(NotifyReport(k))
    /\ \A c \in Channels :
         /\ WF_vars(PumpNotify(c)) /\ WF_vars(PumpSend(c)) /\ WF_vars(PumpEnd(c))
         /\ WF_vars(conn = "closed" /\ PollClose(c))
    /\ WF_vars(CallerStep) /\ SF_vars(WaitTimeout)

Spec == Init /\ [][Next]_vars /\ Fairness
---------------------------------------------------------------------------------
\* Somebody is about to notify the Notify that wait w sleeps on.
Owed(w) ==
    \/ \E k \in Callbacks : NotifyOf(w) \in owes[k]
    \/ w = "channel_open" /\ \E c \in Channels : pump[c] = "opened"

\* No wakeup is lost: a task that sleeps in wait_connected, wait_channel_open,
\* wait_disconnected or the wait for gathering while what it waits for has
\* happened has been notified or is about to be, whatever the order in which the
\* callback's store and notification and the waiter's look, registration and
\* second look fall.
SleepersAreWoken ==
    pc = "asleep" /\ ~woken /\ Good(wait) \cap flags # {} => Owed(wait)

Messages(c) == [i \in 1..(polled[c] - (IF pump[c] = "sending" THEN 1 ELSE 0)) |-> <<c, i>>]

\* Until the handle is closed, recv_frame returns the messages of one channel,
\* each once and in order: what it has returned and what waits in the queue is
\* all that the pump of the installed channel has taken, but for the message it
\* is waiting to queue.  A second channel that either end opens adds nothing.
DeliveredInOrder ==
    ~closeCalled /\ handle = "live" =>
        \A c \in Channels : pump[c] # None => got \o inbound = Messages(c)

\* recv_frame fails only after the last message: when it has reported the end of
\* a channel nobody closed here, the pump is done and nothing is left to read.
EndComesLast ==
    reader = "ended" /\ ~closeCalled =>
        inbound = <<>> /\ \A c \in Channels : pump[c] \in {None, "ended"}

\* No pump outlives a handle that was closed and dropped, even when it is waiting
\* for room in a queue nobody reads.
PumpsEnd ==
    (handle = "dropped" /\ conn = "closed") ~> \A c \in Channels : pump[c] \in {None, "ended"}

\* Every wait, send and close of the handle returns.
CallsReturn == (pc # "idle") ~> (pc = "idle")

\* Nothing of a peer hangs, neither its pumps nor a call on its handle.
NobodyHangs == PumpsEnd /\ CallsReturn
=================================================================================
