----------------------------- MODULE RemoteStreams -----------------------------
(***************************************************************************)
(* What runs on a session once both ends are ready                         *)
(* (src/signaling/orchestration.rs): a server's dispatcher, the only       *)
(* reader of its channel, and a client that runs remote commands and       *)
(* copies files, one operation after the other, on the same session.       *)
(*                                                                         *)
(* The channel is the one of module Handshake: reliable and ordered, but a *)
(* close may lose the tail of what was under way.  Every await of a send   *)
(* or a receive is a step.  Frames carry the number of the operation their *)
(* content comes from; the code has no such field and never looks at it.   *)
(*                                                                         *)
(* Faults are bounded by MaxFaults: a send that fails on an open channel,  *)
(* an I/O error, frames lost at a close, a frame the protocol does not     *)
(* call for, a shutdown of the server.                                     *)
(***************************************************************************)
EXTENDS Session

CONSTANTS
    MaxOps,         \* bound: operations of a client
    MaxFaults,      \* bound: faults in a behaviour
    Sizes,          \* sizes of files, in frames
    Outputs,        \* what a command may write: "none", "fits", "large"
    StrayFrames     \* frames a fault may put on the channel

ASSUME RemoteStreamsConstants ==
    /\ MaxOps \in Nat /\ MaxFaults \in Nat
    /\ Sizes \subseteq Nat
    /\ Outputs \subseteq {"none", "fits", "large"}
    /\ {"Shell", "File"} \subseteq Kinds /\ "/" \in Paths

S == "Server"
C == "Client"
Sides == {S, C}

Other(x) == IF x = S THEN C ELSE S

VARIABLES
    sess,       \* the session of each side
    chan,       \* frames on their way to each side, or buffered there
    closed,     \* the sides whose peer is closed
    srv,        \* the dispatcher
    cli,        \* the client
    remote,     \* the file on the server that clients copy from and to
    faults,     \* faults so far
    strays,     \* history: stray frames so far
    versions,   \* history: every content the file had
    done        \* history: the results of the operations that returned

vars == <<sess, chan, closed, srv, cli, remote, faults, strays, versions, done>>

-----------------------------------------------------------------------------
(* A SWSP frame.  MORE is not among the flags: nothing looks at it.        *)
Frame(id, flags, body) == [id |-> id, flags |-> flags, body |-> body]

Whats == {"shell", "get", "put",            \* openers
          "output", "exit", "error",        \* answers of a shell
          "info", "chunk",                  \* answers of a file service, data
          "empty"}                          \* no payload

(* A payload: the message it is, the operation it comes from, the size a   *)
(* put announces or the place of a chunk, and the overwrite flag of a put  *)
(* or the size class of an output.                                         *)
Body(what, op, n, flag) == [what |-> what, op |-> op, n |-> n, flag |-> flag]

ASSUME StrayAssumption == \A f \in StrayFrames : f.body.what \in Whats

Empty == Body("empty", 0, 0, FALSE)

Fin(id) == Frame(id, {"FIN"}, Empty)

Fins(f) == "FIN" \in f.flags

(* The bytes of a file, as op wrote it: one item per frame.                *)
Content(op, size) == [i \in 1..size |-> <<op, i>>]

NoFile == [there |-> FALSE, data |-> <<>>]

File(data) == [there |-> TRUE, data |-> data]

(* What a payload adds to a file that is being received.                   *)
Data(f) == IF f.body.what = "empty" THEN <<>> ELSE <<<<f.body.op, f.body.n>>>>

(* DAT frames for data, the last of them with FIN.                         *)
DataFrames(id, data) ==
    [i \in 1..Len(data) |->
        Frame(id, IF i = Len(data) THEN {"DAT", "FIN"} ELSE {"DAT"},
              Body("chunk", data[i][1], data[i][2], FALSE))]

(* Whether a payload decodes as a protobuf message of another type depends *)
(* on its first field, and for raw data and zero values on the bytes.      *)
Decodings(what, as) ==
    CASE as = "ShellExit" ->
             IF what \in {"exit", "empty"} THEN {TRUE}
             ELSE IF what = "chunk" THEN BOOLEAN ELSE {FALSE}
      [] as = "ShellOutput" ->
             IF what \in {"chunk", "exit"} THEN BOOLEAN ELSE {TRUE}
      [] as = "FileInfo" ->
             IF what \in {"info", "error", "empty"} THEN {TRUE} ELSE BOOLEAN

-----------------------------------------------------------------------------
Kind(op) == IF op.kind = "shell" THEN "Shell" ELSE "File"

(* The frames of a request: an opener, and for an upload its data.         *)
Request(id, op) ==
    <<Frame(id, {"SYN", "DAT"}, Body(op.kind, op.no, op.size, op.over))>>
        \o IF op.kind # "put" THEN <<>>
           ELSE IF op.size = 0 THEN <<Frame(id, {"DAT", "FIN"}, Empty)>>
           ELSE DataFrames(id, Content(op.no, op.size))

NoOp == [no |-> 0, kind |-> "shell", size |-> 0, over |-> FALSE]

(* encode_response_frames for a download *)
DownloadFrames(id, op, data) ==
    <<Frame(id, IF data = <<>> THEN {"DAT", "FIN"} ELSE {"DAT"},
            Body("info", op, 0, FALSE))>> \o DataFrames(id, data)

(* encode_response_frames for an upload *)
UploadFrames(id, op) == <<Frame(id, {"DAT", "FIN"}, Body("info", op, 0, FALSE))>>

(* What dispatch_shell sends for a command that ran: each of its outputs   *)
(* that is not empty in one frame, and its exit status.                    *)
ShellFrames(id, op, stdout, stderr) ==
    LET Out(o) == IF o = "none" THEN <<>>
                  ELSE <<Frame(id, {"DAT"}, Body("output", op, 0, o = "large"))>>
    IN  Out(stdout) \o Out(stderr)
            \o <<Frame(id, {"DAT", "FIN"}, Body("exit", op, 0, FALSE))>>

ShellErrorFrames(id, op) ==
    <<Frame(id, {"DAT", "FIN"}, Body("error", op, 0, FALSE))>>

(* Frame::encode refuses a payload above DEFAULT_MAX_PAYLOAD_LEN; of all   *)
(* that is sent only the output of a command is not cut into pieces.       *)
Encodes(f) == ~ (f.body.what = "output" /\ f.body.flag)

-----------------------------------------------------------------------------
Init ==
    /\ LET ready == MarkReady(NewSession(FALSE, NoPin).session).session
       IN  sess = [x \in Sides |-> ready]
    /\ chan = [x \in Sides |-> <<>>]
    /\ closed = {}
    /\ srv = [at |-> "loop", id |-> 0, req |-> Empty, got |-> <<>>,
              plain |-> TRUE, out |-> <<>>, why |-> "none"]
    /\ cli = [at |-> "idle", op |-> NoOp, id |-> 0, left |-> <<>>,
              meta |-> <<>>, data |-> <<>>]
    /\ remote \in {NoFile} \cup {File(Content(0, n)) : n \in Sizes}
    /\ faults = 0
    /\ strays = 0
    /\ versions = {r.data : r \in {r \in {remote} : r.there}}
    /\ done = <<>>

Fault(n) == faults + n <= MaxFaults /\ faults' = faults + n

(* A send of x: it may fail, as a fault unless the other end is closed.    *)
MayFail(x, sent) == Fault(IF sent \/ Other(x) \in closed THEN 0 ELSE 1)

Put(x, frames) ==
    [chan EXCEPT ![Other(x)] = IF Other(x) \in closed THEN @ ELSE @ \o frames]

(* SessionRuntime::close for x: FIN on the control stream, the session and *)
(* the peer closed.                                                        *)
CloseRuntime(x) ==
    \E sent \in BOOLEAN, lost \in 0..Len(chan[Other(x)]) + 1 :
        LET all == Put(x, IF sent THEN <<Fin(0)>> ELSE <<>>)[Other(x)]
        IN  /\ lost <= Len(all)
            /\ Fault((IF sent \/ Other(x) \in closed THEN 0 ELSE 1)
                        + (IF lost > 0 THEN 1 ELSE 0))
            /\ chan' = [chan EXCEPT ![x] = <<>>,
                            ![Other(x)] = SubSeq(all, 1, Len(all) - lost)]
            /\ sess' = [sess EXCEPT ![x] = CloseSession(@)]
            /\ closed' = closed \cup {x}

-----------------------------------------------------------------------------
(* The loop of the dispatcher ends.                                        *)
ServerEnds(why) == srv' = [srv EXCEPT !.at = "ended", !.why = why]

(* accept_shell_stream or accept_file_stream for an opener.                *)
ServerAccepts(f) ==
    LET kind == IF f.body.what = "shell" THEN "Shell" ELSE "File"
        res  == AcceptStream(sess[S], f.id, kind, "/")
    IN  /\ sess' = [sess EXCEPT ![S] = res.session]
        /\ IF ~ res.ok THEN ServerEnds("refused")
           ELSE srv' = [srv EXCEPT !.at = f.body.what, !.id = f.id,
                                   !.req = f.body, !.got = <<>>, !.plain = TRUE]

(* Defect used as a mutant: a FIN is answered and the stream is kept.      *)
MutServerFinKeeps(f) ==
    IF f.id \in Live(sess[S].registry)
    THEN UNCHANGED <<sess, srv>>
    ELSE ServerEnds("protocol") /\ UNCHANGED sess

(* FIN of a stream *)
ServerFin(f) ==
    IF f.id \in Live(sess[S].registry)
    THEN /\ sess' = [sess EXCEPT ![S] = CloseStream(@, f.id).session]
         /\ UNCHANGED srv
    ELSE ServerEnds("protocol") /\ UNCHANGED sess

(* serve_session_collected takes the next frame. *)
ServerReceives ==
    /\ srv.at = "loop" /\ chan[S] # <<>>
    /\ LET f == Head(chan[S])
       IN  \/ /\ f.id = 0
              /\ ServerEnds(IF Fins(f) THEN "done" ELSE "protocol")
              /\ UNCHANGED sess
           \/ /\ f.id # 0 /\ Fins(f)
              /\ ServerFin(f)
           \/ /\ f.id # 0 /\ ~ Fins(f)
              /\ {"SYN", "DAT"} \subseteq f.flags
              /\ f.body.what \in {"shell", "get", "put"}
              /\ ServerAccepts(f)
           \/ /\ f.id # 0 /\ ~ Fins(f)
              /\ ~ /\ {"SYN", "DAT"} \subseteq f.flags
                   /\ f.body.what \in {"shell", "get", "put"}
              /\ ServerEnds("protocol")
              /\ UNCHANGED sess
    /\ chan' = [chan EXCEPT ![S] = Tail(@)]
    /\ UNCHANGED <<closed, cli, remote, faults, strays, versions, done>>

(* collect_data_frames takes a frame of a body.                            *)
Plain(f) == "DAT" \in f.flags /\ "SYN" \notin f.flags

(* Defect used as a mutant: the data of an upload is written as it arrives. *)
MutServerCollectsStreams ==
    /\ srv.at = "put" /\ chan[S] # <<>>
    /\ LET f == Head(chan[S])
       IN  IF f.id # srv.id
           THEN ServerEnds("protocol") /\ UNCHANGED <<remote, versions>>
           ELSE /\ srv' = [srv EXCEPT !.got = @ \o Data(f), !.plain = @ /\ Plain(f),
                                      !.at = IF Fins(f) THEN "store" ELSE @]
                /\ remote' = File(srv'.got)
                /\ versions' = versions \cup {remote'.data}
    /\ chan' = [chan EXCEPT ![S] = Tail(@)]
    /\ UNCHANGED <<sess, closed, cli, faults, strays, done>>

(* dispatch_file collects the frames of an upload until a FIN on the       *)
(* stream.  Of the frames it keeps the data and whether all were plain:    *)
(* collect_data_frames, which runs next, looks at nothing else.            *)
ServerCollects ==
    /\ srv.at = "put" /\ chan[S] # <<>>
    /\ LET f == Head(chan[S])
       IN  IF f.id # srv.id
           THEN ServerEnds("protocol")
           ELSE srv' = [srv EXCEPT !.got = @ \o Data(f), !.plain = @ /\ Plain(f),
                                   !.at = IF Fins(f) THEN "store" ELSE @]
    /\ chan' = [chan EXCEPT ![S] = Tail(@)]
    /\ UNCHANGED <<sess, closed, cli, remote, faults, strays, versions, done>>

(* collect_data_frames accepts the body: every frame is plain, and the     *)
(* data has the size that was announced.                                   *)
Collected == srv.plain /\ Len(srv.got) = srv.req.n

(* FileTransferService::upload may write the file.                         *)
MayStore == Collected /\ (remote.there => srv.req.flag)

(* collect_data_frames and FileTransferService::execute for an upload.  An *)
(* I/O error or the time limit may leave the old file, none (it is removed *)
(* before the new one is renamed into its place) or the new one.           *)
ServerStores ==
    /\ srv.at = "store"
    /\ LET new == File(srv.got)
       IN  \/ /\ MayStore
              /\ remote' = new
              /\ srv' = [srv EXCEPT !.at = "send",
                                    !.out = UploadFrames(srv.id, srv.req.op)]
              /\ UNCHANGED faults
           \/ /\ ~ MayStore
              /\ ServerEnds("failed")
              /\ UNCHANGED <<remote, faults>>
           \/ /\ Fault(1)
              /\ remote' \in IF MayStore THEN {remote, NoFile, new} ELSE {remote}
              /\ ServerEnds("failed")
    /\ versions' = IF remote'.there THEN versions \cup {remote'.data} ELSE versions
    /\ UNCHANGED <<sess, chan, closed, cli, strays, done>>

(* FileTransferService::execute for a download *)
ServerLoads ==
    /\ srv.at = "get"
    /\ \/ /\ remote.there
          /\ srv' = [srv EXCEPT !.at = "send",
                         !.out = DownloadFrames(srv.id, srv.req.op, remote.data)]
          /\ UNCHANGED faults
       \/ /\ ~ remote.there
          /\ ServerEnds("failed")
          /\ UNCHANGED faults
       \/ Fault(1) /\ ServerEnds("failed")
    /\ UNCHANGED <<sess, chan, closed, cli, remote, strays, versions, done>>

(* ShellStreamHandler::run returns: the command ran, or it did not.        *)
ServerRuns ==
    /\ srv.at = "shell"
    /\ \/ \E stdout, stderr \in Outputs :
              srv' = [srv EXCEPT !.at = "send",
                          !.out = ShellFrames(srv.id, srv.req.op, stdout, stderr)]
       \/ srv' = [srv EXCEPT !.at = "send",
                      !.out = ShellErrorFrames(srv.id, srv.req.op)]
    /\ UNCHANGED <<sess, chan, closed, cli, remote, faults, strays, versions, done>>

(* The next frame of an answer goes out, or its send fails and the         *)
(* dispatcher ends.                                                        *)
ServerSends ==
    /\ srv.at = "send"
    /\ LET f == Head(srv.out)
       IN  \/ /\ Encodes(f)
              /\ chan' = Put(S, <<f>>)
              /\ srv' = [srv EXCEPT !.out = Tail(@),
                                    !.at = IF Len(srv.out) = 1 THEN "loop" ELSE @]
              /\ UNCHANGED faults
           \/ /\ Encodes(f) => MayFail(S, FALSE)
              /\ ~ Encodes(f) => UNCHANGED faults
              /\ ServerEnds("failed")
              /\ UNCHANGED chan
    /\ UNCHANGED <<sess, closed, cli, remote, strays, versions, done>>

(* The receive loop is closed and drained. *)
ServerDisconnected ==
    /\ srv.at \in {"loop", "put"}
    /\ chan[S] = <<>> /\ C \in closed
    /\ ServerEnds(IF srv.at = "loop" THEN "done" ELSE "failed")
    /\ UNCHANGED <<sess, chan, closed, cli, remote, faults, strays, versions, done>>

(* The shutdown token is looked at between two frames only. *)
ServerShutsDown ==
    /\ srv.at = "loop"
    /\ Fault(1)
    /\ ServerEnds("done")
    /\ UNCHANGED <<sess, chan, closed, cli, remote, strays, versions, done>>

(* Defect used as a mutant: a dispatcher that failed leaves its runtime.   *)
MutServerCleansUpNever == srv.at = "ended" /\ UNCHANGED vars

ServerCleansUp ==
    /\ srv.at = "ended"
    /\ CloseRuntime(S)
    /\ srv' = [srv EXCEPT !.at = "closed"]
    /\ UNCHANGED <<cli, remote, strays, versions, done>>

-----------------------------------------------------------------------------
(* An operation returns.  of is the operation its answer came from.        *)
ClientReturns(ok, of, data) ==
    /\ done' = Append(done, [op |-> cli.op, ok |-> ok, of |-> of, data |-> data])
    /\ cli' = [cli EXCEPT !.at = IF ok THEN "idle" ELSE "failed"]

(* run_shell_client_collected and run_file_client_collected open a stream. *)
ClientOpens(op) ==
    /\ cli.at = "idle" /\ Len(done) < MaxOps
    /\ LET res == OpenStream(sess[C], Kind(op), "/")
       IN  /\ sess' = [sess EXCEPT ![C] = res.session]
           /\ IF res.ok
              THEN /\ cli' = [at |-> "send", op |-> op, id |-> res.id,
                              left |-> Request(res.id, op), meta |-> <<>>,
                              data |-> <<>>]
                   /\ UNCHANGED done
              ELSE /\ done' = Append(done, [op |-> op, ok |-> FALSE, of |-> 0,
                                            data |-> <<>>])
                   /\ cli' = [cli EXCEPT !.at = "failed",
                                         !.op = op]
    /\ UNCHANGED <<chan, closed, srv, remote, faults, strays, versions>>

(* The next frame of the request goes out, or the operation fails with its *)
(* stream left open.                                                       *)
ClientSends ==
    /\ cli.at = "send"
    /\ \/ /\ chan' = Put(C, <<Head(cli.left)>>)
          /\ cli' = [cli EXCEPT !.left = Tail(@),
                                !.at = IF Len(cli.left) = 1 THEN "recv" ELSE @]
          /\ UNCHANGED <<faults, done>>
       \/ /\ MayFail(C, FALSE)
          /\ ClientReturns(FALSE, 0, <<>>)
          /\ UNCHANGED chan
    /\ UNCHANGED <<sess, closed, srv, remote, strays, versions>>

(* close_shell_stream and close_file_stream, with rest left to read: FIN   *)
(* first, then the registry.                                               *)
ClientCloses(sent, rest) ==
    /\ chan' = [Put(C, IF sent THEN <<Fin(cli.id)>> ELSE <<>>) EXCEPT ![C] = rest]
    /\ sess' = IF sent THEN [sess EXCEPT ![C] = CloseStream(@, cli.id).session]
                       ELSE sess

(* recv_shell_frame returns the frame.                                     *)
ShellFrameOk(f) ==
    \/ f.id = 0 /\ Fins(f)
    \/ f.id # 0 /\ {"SYN", "DAT"} \subseteq f.flags
    \/ /\ f.id # 0 /\ "SYN" \notin f.flags
       /\ sess[C].registry.active[f.id].kind = "Shell"

(* require_shell_frame *)
ShellShape(f) == f.id # 0 /\ "DAT" \in f.flags /\ "SYN" \notin f.flags

(* A turn of the loop of run_shell_client_collected.  The client takes any *)
(* shell frame for an answer to its command; it closes the stream after a  *)
(* FIN and no matter whether that worked, and not at all after an error.   *)
ClientReceivesShell ==
    /\ cli.at = "recv" /\ cli.op.kind = "shell" /\ chan[C] # <<>>
    /\ LET f    == Head(chan[C])
           rest == Tail(chan[C])
           as   == IF Fins(f) THEN "ShellExit" ELSE "ShellOutput"
       IN  \/ /\ ShellFrameOk(f) /\ Fins(f)
              /\ \E sent \in BOOLEAN, d \in Decodings(f.body.what, as) :
                     /\ MayFail(C, sent)
                     /\ ClientCloses(sent, rest)
                     /\ ClientReturns(ShellShape(f) /\ d, f.body.op, <<>>)
           \/ /\ ShellFrameOk(f) /\ ~ Fins(f)
              /\ chan' = [chan EXCEPT ![C] = rest]
              /\ \/ /\ ShellShape(f) /\ TRUE \in Decodings(f.body.what, as)
                    /\ UNCHANGED <<cli, faults, done>>
                 \/ /\ ~ ShellShape(f) \/ FALSE \in Decodings(f.body.what, as)
                    /\ ClientReturns(FALSE, 0, <<>>)
                    /\ UNCHANGED faults
                 \/ /\ Fault(1)
                    /\ ClientReturns(FALSE, 0, <<>>)
              /\ UNCHANGED sess
           \/ /\ ~ ShellFrameOk(f)
              /\ chan' = [chan EXCEPT ![C] = rest]
              /\ ClientReturns(FALSE, 0, <<>>)
              /\ UNCHANGED <<sess, faults>>
    /\ UNCHANGED <<closed, srv, remote, strays, versions>>

(* The file has been received: it is written, the stream is closed and the *)
(* operation returns, unless one of those fails.                           *)
ClientFinishesFile(of, data, rest) ==
    \/ \E sent \in BOOLEAN :
           /\ MayFail(C, sent)
           /\ ClientCloses(sent, rest)
           /\ ClientReturns(sent, of, data)
    \/ /\ cli.op.kind = "get" /\ Fault(1)
       /\ chan' = [chan EXCEPT ![C] = rest]
       /\ ClientReturns(FALSE, of, data)
       /\ UNCHANGED sess

(* decode_response_metadata asks for this shape.                           *)
InfoShape(f) == f.id # 0 /\ "DAT" \in f.flags /\ "SYN" \notin f.flags

(* Defect used as a mutant: the answer to an upload need not be decoded.   *)
MutMetadataAny(f) == {TRUE}

(* Whether the first frame of an answer decodes as its metadata.           *)
Metadata(f) ==
    {InfoShape(f) /\ d : d \in Decodings(f.body.what, "FileInfo")}

(* A turn of the loop of run_file_client_collected.  Once the metadata was *)
(* seen any frame adds its payload, and any FIN ends the file.             *)
ClientReceivesFile ==
    /\ cli.at = "recv" /\ cli.op.kind # "shell" /\ chan[C] # <<>>
    /\ LET f    == Head(chan[C])
           rest == Tail(chan[C])
           first == cli.meta = <<>>
           meta == IF first THEN <<f.body.op>> ELSE cli.meta
           data == IF first \/ cli.op.kind # "get" THEN cli.data
                                                   ELSE cli.data \o Data(f)
           fine == /\ f.id # 0 \/ Fins(f)
                   /\ first => TRUE \in Metadata(f)
       IN  \/ /\ fine /\ Fins(f)
              /\ ClientFinishesFile(meta[1], data, rest)
           \/ /\ fine /\ ~ Fins(f)
              /\ cli' = [cli EXCEPT !.meta = meta, !.data = data]
              /\ chan' = [chan EXCEPT ![C] = rest]
              /\ UNCHANGED <<sess, faults, done>>
           \/ /\ (f.id = 0 /\ ~ Fins(f)) \/ (first /\ FALSE \in Metadata(f))
              /\ chan' = [chan EXCEPT ![C] = rest]
              /\ ClientReturns(FALSE, 0, <<>>)
              /\ UNCHANGED <<sess, faults>>
    /\ UNCHANGED <<closed, srv, remote, strays, versions>>

(* The receive loop is closed and drained. *)
ClientDisconnected ==
    /\ cli.at = "recv"
    /\ chan[C] = <<>> /\ S \in closed
    /\ ClientReturns(FALSE, 0, <<>>)
    /\ UNCHANGED <<sess, chan, closed, srv, remote, faults, strays, versions>>

(* The owner closes the runtime between two operations. *)
ClientLeaves ==
    /\ cli.at \in {"idle", "failed"}
    /\ CloseRuntime(C)
    /\ cli' = [cli EXCEPT !.at = "closed"]
    /\ UNCHANGED <<srv, remote, strays, versions, done>>

(* A frame the protocol does not call for reaches x.                       *)
Stray(x, f) ==
    /\ x \notin closed /\ Other(x) \notin closed
    /\ Fault(1)
    /\ chan' = [chan EXCEPT ![x] = Append(@, f)]
    /\ strays' = strays + 1
    /\ UNCHANGED <<sess, closed, srv, cli, remote, versions, done>>

Finished ==
    /\ closed = Sides
    /\ UNCHANGED vars

Operations ==
    {[no |-> Len(done) + 1, kind |-> k, size |-> n, over |-> over] :
        k \in {"put"}, n \in Sizes, over \in BOOLEAN}
    \cup {[no |-> Len(done) + 1, kind |-> k, size |-> 0, over |-> FALSE] :
              k \in {"shell", "get"}}

Next ==
    \/ ServerReceives \/ ServerCollects \/ ServerStores \/ ServerLoads
    \/ ServerRuns \/ ServerSends \/ ServerDisconnected \/ ServerShutsDown
    \/ ServerCleansUp
    \/ \E op \in Operations : ClientOpens(op)
    \/ ClientSends \/ ClientReceivesShell \/ ClientReceivesFile
    \/ ClientDisconnected \/ ClientLeaves
    \/ \E x \in Sides, f \in StrayFrames : Stray(x, f)
    \/ Finished

Spec == Init /\ [][Next]_vars

(* Both ends handle what arrives and send what they have to; a file        *)
(* operation ends (FileTransferConfig has a timeout); a dispatcher that    *)
(* ended cleans up, and the owner of a client closes its runtime in the    *)
(* end (src/main.rs).  A command need not end: the timeout of ShellPolicy  *)
(* is for the child alone, and a process the child left behind with one    *)
(* of the pipes keeps run waiting for as long as it lives.                 *)
Fairness ==
    /\ WF_vars(ServerReceives) /\ WF_vars(ServerCollects)
    /\ WF_vars(ServerStores) /\ WF_vars(ServerLoads)
    /\ WF_vars(ServerSends) /\ WF_vars(ServerDisconnected)
    /\ WF_vars(ServerCleansUp)
    /\ WF_vars(ClientSends) /\ WF_vars(ClientReceivesShell)
    /\ WF_vars(ClientReceivesFile) /\ WF_vars(ClientDisconnected)
    /\ WF_vars(ClientLeaves)

FairSpec == Spec /\ Fairness

-----------------------------------------------------------------------------
(* The results of the operations of some kind that returned Ok.            *)
Succeeded(kind) ==
    {r \in {done[i] : i \in 1..Len(done)} : r.ok /\ r.op.kind = kind}

(* A command's status is the status of that command, and an upload that    *)
(* was reported as copied is a version the remote file really had: an      *)
(* answer to an earlier operation, or an end of the session, is never      *)
(* taken for the answer to this one.                                       *)
SuccessIsReal ==
    strays = 0 =>
        /\ \A r \in Succeeded("shell") : r.of = r.op.no
        /\ \A r \in Succeeded("put") :
               r.of = r.op.no /\ Content(r.op.no, r.op.size) \in versions

(* A download that returned Ok has left a whole version of the remote file *)
(* at its destination.                                                     *)
DownloadIntact ==
    strays = 0 => \A r \in Succeeded("get") : r.data \in versions

(* The remote file only ever has a content that some client meant it to    *)
(* have, whole: no upload is stored in part or with another's data.        *)
RemoteFileWhole ==
    strays = 0 => \A v \in versions : \A i \in 1..Len(v) :
        /\ v[i] = <<v[1][1], i>>
        /\ v[1][1] > 0 =>
               \/ v[1][1] = cli.op.no /\ Len(v) = cli.op.size
               \/ \E j \in 1..Len(done) : v[1][1] = j /\ Len(v) = done[j].op.size

(* The dispatcher refuses no stream of a client that follows the protocol, *)
(* and finds fault with its frames only if an operation of the client was  *)
(* cut off.                                                                *)
ClientsAreServed ==
    strays = 0 =>
        /\ srv.why # "refused"
        /\ srv.why = "protocol" =>
               \E i \in 1..Len(done) : ~ done[i].ok /\ done[i].op.kind = "put"

(* Unless a command hangs, every operation returns, and once one end is    *)
(* done with the session both are closed.  A command that hangs takes the  *)
(* dispatcher and the client with it: neither has a time limit.            *)
OperationsEnd ==
    []<>(srv.at # "shell") =>
        /\ cli.at \in {"send", "recv"} ~> cli.at \notin {"send", "recv"}
        /\ (srv.at = "ended" \/ C \in closed) ~> closed = Sides

(* Without faults, a command that the server ran is reported to the client *)
(* with its status, whatever it wrote within the output limit of the       *)
(* policy.                                                                 *)
CommandsReport ==
    (faults = 0 /\ srv.at = "ended" /\ srv.req.what = "shell")
        => srv.why # "failed"
=============================================================================
