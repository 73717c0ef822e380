-------------------------- MODULE RemoteStreams_proofs --------------------------
(***************************************************************************)
(* The dispatcher and its client on one session, for every number of       *)
(* operations and faults, every size of a file and every id space: what a  *)
(* client is told is what its operation did, the remote file is never a    *)
(* part of an upload, and the dispatcher serves a client that keeps to the *)
(* protocol.                                                               *)
(***************************************************************************)
EXTENDS RemoteStreams, Session_proofs, SequenceTheorems

Bodies == [what : Whats, op : Nat, n : Nat, flag : BOOLEAN]

SwspFrames ==
    [id : U32, flags : SUBSET {"SYN", "DAT", "FIN"}, body : Bodies]

Files == Seq(Nat \X Nat)

Ops == [no : Nat, kind : {"shell", "get", "put"}, size : Nat, over : BOOLEAN]

Results == [op : Ops, ok : BOOLEAN, of : Nat, data : Files]

(* The dispatcher is busy with a stream.                                   *)
Busy == {"shell", "get", "put", "store", "send"}

Dispatchers ==
    [at : Busy \cup {"loop", "ended", "closed"}, id : U32, req : Bodies, got : Files,
     plain : BOOLEAN, out : Seq(SwspFrames),
     why : {"none", "done", "protocol", "refused", "failed"}]

Clients ==
    [at : {"idle", "send", "recv", "failed", "closed"}, op : Ops, id : U32,
     left : Seq(SwspFrames), meta : Seq(Nat), data : Files]

RemoteTypes ==
    /\ sess \in [Sides -> Sessions] /\ \A x \in Sides : Sound(sess[x])
    /\ chan \in [Sides -> Seq(SwspFrames)]
    /\ closed \in SUBSET Sides
    /\ srv \in Dispatchers
    /\ cli \in Clients
    /\ remote \in [there : BOOLEAN, data : Files]
    /\ versions \in SUBSET Files
    /\ done \in Seq(Results)

(* An end whose owner is done has closed its peer, and the session of the  *)
(* other ends stays ready.                                                 *)
Ends ==
    /\ S \in closed <=> srv.at = "closed"
    /\ C \in closed <=> cli.at = "closed"
    /\ \A x \in Sides : /\ x \in closed => chan[x] = <<>>
                        /\ x \notin closed => sess[x].state = "Ready"

Streams(x) == Live(sess[x].registry)

(* The request of the client's operation, how much of it went out and how  *)
(* much the dispatcher has taken.                                          *)
Asked == Request(cli.id, cli.op)

Sent == Len(Asked) - Len(cli.left)

Taken == IF srv.at = "put" THEN 1 + Len(srv.got) ELSE 0

(* The end of the operation before comes ahead of the request.             *)
Lead == IF chan[S] # <<>> /\ chan[S][1].id # 0 /\ chan[S][1].flags = {"FIN"}
        THEN 1 ELSE 0

Listening == srv.at \in {"loop", "put"}

(* A frame on its way to a dispatcher that is there for it ends the stream *)
(* of the operation before, belongs to the request of the present one, in  *)
(* its place, or ends the session.                                         *)
Closes(i) ==
    i = 1 /\ srv.at = "loop" /\ chan[S][1] = Fin(chan[S][1].id)
          /\ chan[S][1].id \in Streams(S)

Leaves(i) == i = Len(chan[S]) /\ chan[S][i] = Fin(0) /\ C \in closed

Asks(i) ==
    /\ Listening /\ cli.at # "idle"
    /\ Taken + i - Lead \in 1..Sent
    /\ chan[S][i] = Asked[Taken + i - Lead]

ToServer ==
    srv.at \notin {"ended", "closed"} =>
        \A i \in 1..Len(chan[S]) : Closes(i) \/ Leaves(i) \/ Asks(i)

(* Nothing of a request is missing between what the dispatcher took and    *)
(* what the client has yet to send, unless a close lost it.                *)
Aligned ==
    Listening /\ (srv.at = "put" \/ cli.at = "send"
                     \/ \E i \in 1..Len(chan[S]) : "DAT" \in chan[S][i].flags) =>
        /\ C \notin closed => Taken + Len(chan[S]) - Lead = Sent
        /\ \A i \in 1..Len(chan[S]) : chan[S][i].id = 0 => Taken + i - 1 - Lead = Sent

(* What the dispatcher works on is the client's operation.                 *)
Serving ==
    srv.at \in Busy =>
        /\ cli.at # "idle" /\ srv.id = cli.id /\ cli.id \in Streams(S)
        /\ srv.req = Body(cli.op.kind, cli.op.no, cli.op.size, cli.op.over)
        /\ srv.at \in {"shell", "get", "put"} => srv.at = cli.op.kind
        /\ srv.at = "store" => cli.op.kind = "put"
        /\ srv.at # "put" => cli.at # "send"

(* A body is collected in order and is whole when it is stored.            *)
Collecting ==
    /\ srv.at = "put" => /\ srv.got = Content(cli.op.no, Len(srv.got)) /\ srv.plain
                         /\ Taken < Len(Asked)
    /\ srv.at = "store" => srv.got = Content(cli.op.no, cli.op.size) /\ srv.plain

(* A frame of an answer to the client's operation.  Its FIN is sent once   *)
(* the operation has taken effect.                                         *)
Answers(f) ==
    /\ f.id = cli.id /\ f.id # 0
    /\ cli.op.kind # "get" => f.body.op = cli.op.no
    /\ cli.op.kind = "put" =>
           Fins(f) /\ Content(cli.op.no, cli.op.size) \in versions

Answering ==
    srv.at = "send" =>
        /\ srv.out # <<>>
        /\ \A i \in 1..Len(srv.out) :
               Answers(srv.out[i]) /\ (Fins(srv.out[i]) <=> i = Len(srv.out))

(* After the end of an answer nothing but the end of the session follows,  *)
(* and the dispatcher has nothing left to read.                            *)
Answered(i) ==
    /\ \A j \in i + 1..Len(chan[C]) : chan[C][j].id = 0
    /\ srv.at \notin Busy
    /\ srv.at = "loop" => chan[S] = <<>> /\ cli.id \in Streams(S)

ToClient ==
    cli.at \in {"idle", "send", "recv"} =>
        \A i \in 1..Len(chan[C]) :
            \/ chan[C][i] = Fin(0) /\ i = Len(chan[C]) /\ S \in closed
            \/ /\ cli.at = "recv" /\ Answers(chan[C][i])
               /\ Fins(chan[C][i]) => Answered(i)

ClientSound ==
    /\ cli.at = "send" =>
           /\ cli.left # <<>> /\ Sent \in Nat
           /\ \A i \in 1..Len(cli.left) : cli.left[i] = Asked[Sent + i]
    /\ cli.at \in {"idle", "recv"} => cli.left = <<>>
    /\ cli.at \in {"send", "recv"} =>
           cli.id \in Streams(C) /\ cli.op.no = Len(done) + 1
    /\ cli.at \notin {"send", "recv"} =>
           cli.op = IF done = <<>> THEN NoOp ELSE done[Len(done)].op
    /\ cli.at \notin {"send", "recv"} /\ cli.left # <<>> =>
           done # <<>> /\ ~ done[Len(done)].ok
    /\ cli.at \in {"send", "recv"} /\ cli.op.kind = "put" => cli.meta = <<>>

(* A stream of the dispatcher is one of the client's, or its end is on the *)
(* way.  The id of a stream to be opened is free, or will be when the      *)
(* request arrives.                                                        *)
StreamsCorrespond ==
    srv.at \notin {"ended", "closed"} /\ cli.at \in {"idle", "send", "recv"} =>
        \A id \in Streams(S) :
            id \in Streams(C) \/ \E i \in 1..Len(chan[S]) : chan[S][i] = Fin(id)

Opening ==
    \/ cli.at = "send" /\ Sent = 0
    \/ \E i \in 1..Len(chan[S]) : "SYN" \in chan[S][i].flags

NewStreamFree ==
    srv.at = "loop" /\ Opening /\ cli.id \in Streams(S) =>
        Lead = 1 /\ chan[S][1].id = cli.id

(* What was recorded of the operations so far.                             *)
Real(r) ==
    /\ r.ok /\ r.op.kind # "get" => r.of = r.op.no
    /\ r.ok /\ r.op.kind = "put" => Content(r.op.no, r.op.size) \in versions

ResultsReal == \A i \in 1..Len(done) : done[i].op.no = i /\ Real(done[i])

Meant(o, n) ==
    \/ o = 0
    \/ o = cli.op.no /\ n = cli.op.size
    \/ o \in 1..Len(done) /\ n = done[o].op.size

VersionsMeant ==
    /\ remote.there => remote.data \in versions
    /\ \A v \in versions : \E o, n \in Nat : v = Content(o, n) /\ Meant(o, n)

Talk ==
    /\ RemoteTypes /\ Ends
    /\ ToServer /\ Aligned /\ Serving /\ Collecting
    /\ Answering /\ ToClient
    /\ ClientSound /\ StreamsCorrespond /\ NewStreamFree
    /\ ResultsReal /\ VersionsMeant /\ ClientsAreServed

RemoteInv == strays \in Nat /\ (strays = 0 => Talk)

-----------------------------------------------------------------------------
(* Frames and the sequences of frames that the two ends make               *)

(* The two ends of a session.                                              *)
LEMMA TwoSides == S # C /\ Other(S) = C /\ Other(C) = S /\ Sides = {S, C}
  BY DEF S, C, Other, Sides

(* A frame made of an id, flags and a payload is one.                      *)
LEMMA FrameFits ==
    ASSUME NEW id \in U32, NEW flags \in SUBSET {"SYN", "DAT", "FIN"}, NEW body \in Bodies
    PROVE  /\ Frame(id, flags, body) \in SwspFrames
           /\ Frame(id, flags, body).id = id
           /\ Frame(id, flags, body).flags = flags
           /\ Frame(id, flags, body).body = body
  BY DEF Frame, SwspFrames

(* A payload made of its four parts is one.                                *)
LEMMA BodyFits ==
    ASSUME NEW what \in Whats, NEW op \in Nat, NEW n \in Nat, NEW flag \in BOOLEAN
    PROVE  /\ Body(what, op, n, flag) \in Bodies
           /\ Body(what, op, n, flag).what = what /\ Body(what, op, n, flag).op = op
           /\ Body(what, op, n, flag).n = n /\ Body(what, op, n, flag).flag = flag
  BY DEF Body, Bodies

(* So is the empty one.                                                    *)
LEMMA EmptyFits == Empty \in Bodies /\ Empty.what = "empty"
<1>1. "empty" \in Whats /\ 0 \in Nat /\ FALSE \in BOOLEAN
  BY DEF Whats
<1> QED
  BY <1>1, BodyFits DEF Empty

(* A FIN without data, of the stream id.                                   *)
LEMMA FinFits ==
    ASSUME NEW id \in U32
    PROVE  /\ Fin(id) \in SwspFrames /\ Fin(id).id = id /\ Fin(id).flags = {"FIN"}
           /\ Fins(Fin(id))
<1>1. {"FIN"} \in SUBSET {"SYN", "DAT", "FIN"}
  OBVIOUS
<1>2. Fin(id) \in SwspFrames /\ Fin(id).id = id /\ Fin(id).flags = {"FIN"}
  BY <1>1, EmptyFits, FrameFits DEF Fin
<1> QED
  BY <1>2 DEF Fins

(* The control stream has an id of the id space.                           *)
LEMMA ZeroId == 0 \in U32
  BY RegistryConstants DEF U32

(* The content of a file.                                                  *)
LEMMA ContentFits ==
    ASSUME NEW o \in Nat, NEW n \in Nat
    PROVE  /\ Content(o, n) \in Files /\ Len(Content(o, n)) = n
           /\ \A i \in 1..n : Content(o, n)[i] = <<o, i>>
<1>1. \A i \in 1..n : <<o, i>> \in Nat \X Nat
  OBVIOUS
<1> QED
  BY <1>1 DEF Content, Files

(* A content grows by the data of the next chunk.                          *)
LEMMA ContentGrows ==
    ASSUME NEW o \in Nat, NEW n \in Nat
    PROVE  Content(o, n) \o <<<<o, n + 1>>>> = Content(o, n + 1)
<1> DEFINE a == Content(o, n)
           e == <<o, n + 1>>
           b == Content(o, n + 1)
<1>1. a \in Seq(Nat \X Nat) /\ Len(a) = n /\ \A i \in 1..n : a[i] = <<o, i>>
  BY ContentFits DEF Files
<1>2. n + 1 \in Nat
  OBVIOUS
<1>3. b \in Seq(Nat \X Nat) /\ Len(b) = n + 1 /\ \A i \in 1..n + 1 : b[i] = <<o, i>>
  BY <1>2, ContentFits DEF Files
<1>4. e \in Nat \X Nat
  OBVIOUS
<1> HIDE DEF a, b, e
<1>5. <<e>> \in Seq(Nat \X Nat) /\ Len(<<e>>) = 1 /\ <<e>>[1] = e
  BY <1>4
<1>6. /\ a \o <<e>> \in Seq(Nat \X Nat) /\ Len(a \o <<e>>) = n + 1
      /\ \A i \in 1..n + 1 : (a \o <<e>>)[i] = IF i <= n THEN a[i] ELSE <<e>>[i - n]
  BY <1>1, <1>5, ConcatProperties
<1>7. \A i \in 1..n + 1 : (a \o <<e>>)[i] = b[i]
  <2> SUFFICES ASSUME NEW i \in 1..n + 1 PROVE (a \o <<e>>)[i] = b[i]
    OBVIOUS
  <2>1. CASE i <= n
    <3>1. i \in 1..n
      BY <2>1
    <3> QED
      BY <1>1, <1>3, <1>6, <2>1, <3>1
  <2>2. CASE i = n + 1
    <3>1. (a \o <<e>>)[i] = <<e>>[1] /\ i - n = 1
      BY <1>6, <2>2
    <3> QED
      BY <1>3, <1>5, <2>2, <3>1 DEF e
  <2>3. i <= n \/ i = n + 1
    OBVIOUS
  <2> QED
    BY <2>1, <2>2, <2>3, Zenon
<1>8. a \o <<e>> = b
  BY <1>3, <1>6, <1>7, SeqEqual
<1> QED
  BY <1>8 DEF a, b, e

(* The frames that carry data: one chunk each, the last with FIN.          *)
DataFlags(i, n) == IF i = n THEN {"DAT", "FIN"} ELSE {"DAT"}

Chunk(item) == Body("chunk", item[1], item[2], FALSE)

(* encode_data_frame for a whole file.                                     *)
LEMMA DataFramesFit ==
    ASSUME NEW id \in U32, NEW data \in Files
    PROVE  LET fs == DataFrames(id, data)
           IN  /\ fs \in Seq(SwspFrames) /\ Len(fs) = Len(data)
               /\ \A i \in 1..Len(data) :
                      /\ fs[i].id = id /\ fs[i].flags = DataFlags(i, Len(data))
                      /\ fs[i].body = Chunk(data[i])
<1> DEFINE fs == DataFrames(id, data)
           n == Len(data)
<1>1. n \in Nat /\ \A i \in 1..n : data[i] \in Nat \X Nat
  BY DEF Files
<1>2. ASSUME NEW i \in 1..n
      PROVE  LET f == Frame(id, DataFlags(i, n), Chunk(data[i]))
             IN  f \in SwspFrames /\ f.id = id /\ f.flags = DataFlags(i, n) /\ f.body = Chunk(data[i])
  <2>1. data[i][1] \in Nat /\ data[i][2] \in Nat
    BY <1>1
  <2>2. Chunk(data[i]) \in Bodies
    BY <2>1, BodyFits DEF Whats, Chunk
  <2>3. DataFlags(i, n) \in SUBSET {"SYN", "DAT", "FIN"}
    BY DEF DataFlags
  <2> QED
    BY <2>2, <2>3, FrameFits
<1>3. fs = [i \in 1..n |-> Frame(id, DataFlags(i, n), Chunk(data[i]))]
  BY DEF DataFrames, DataFlags, Chunk
<1> HIDE DEF fs, n
<1>4. /\ \A i \in 1..n : fs[i] = Frame(id, DataFlags(i, n), Chunk(data[i]))
      /\ fs \in [1..n -> SwspFrames]
  BY <1>2, <1>3
<1>5. fs \in Seq(SwspFrames) /\ Len(fs) = n
  BY <1>1, <1>4
<1>6. \A i \in 1..n : /\ fs[i].id = id /\ fs[i].flags = DataFlags(i, n)
                      /\ fs[i].body = Chunk(data[i])
  BY <1>2, <1>4
<1> QED
  BY <1>5, <1>6 DEF fs, n

(* A sequence of one frame.                                                *)
LEMMA OneFrame ==
    ASSUME NEW f \in SwspFrames
    PROVE  <<f>> \in Seq(SwspFrames) /\ Len(<<f>>) = 1 /\ <<f>>[1] = f /\ <<f>> # <<>>
  OBVIOUS

(* How many frames a request has.                                          *)
RequestLen(op) ==
    IF op.kind # "put" THEN 1 ELSE IF op.size = 0 THEN 2 ELSE op.size + 1

(* What a frame of a request carries.                                      *)
RequestBody(op, i) ==
    IF i = 1 THEN Body(op.kind, op.no, op.size, op.over)
    ELSE IF op.size = 0 THEN Empty
    ELSE Body("chunk", op.no, i - 1, FALSE)

RequestFlags(op, i) ==
    IF i = 1 THEN {"SYN", "DAT"} ELSE DataFlags(i, RequestLen(op))

(* An opener, and for an upload its data up to a FIN.                      *)
LEMMA RequestFits ==
    ASSUME NEW id \in U32, NEW op \in Ops
    PROVE  LET r == Request(id, op)
           IN  /\ r \in Seq(SwspFrames) /\ Len(r) = RequestLen(op)
               /\ RequestLen(op) \in Nat /\ RequestLen(op) >= 1
               /\ \A i \in 1..RequestLen(op) :
                      /\ r[i].id = id /\ r[i].flags = RequestFlags(op, i)
                      /\ r[i].body = RequestBody(op, i)
<1> DEFINE r == Request(id, op)
           o == Frame(id, {"SYN", "DAT"}, Body(op.kind, op.no, op.size, op.over))
           e == Frame(id, {"DAT", "FIN"}, Empty)
           c == Content(op.no, op.size)
           d == DataFrames(id, c)
<1>1. /\ op.kind \in {"shell", "get", "put"} /\ op.no \in Nat /\ op.size \in Nat
      /\ op.over \in BOOLEAN
  BY DEF Ops
<1>2. Body(op.kind, op.no, op.size, op.over) \in Bodies
  BY <1>1, BodyFits DEF Whats
<1>3. {"SYN", "DAT"} \in SUBSET {"SYN", "DAT", "FIN"} /\ {"DAT", "FIN"} \in SUBSET {"SYN", "DAT", "FIN"}
  OBVIOUS
<1>4. /\ o \in SwspFrames /\ o.id = id /\ o.flags = {"SYN", "DAT"}
      /\ o.body = Body(op.kind, op.no, op.size, op.over)
  BY <1>2, <1>3, FrameFits
<1>5. e \in SwspFrames /\ e.id = id /\ e.flags = {"DAT", "FIN"} /\ e.body = Empty
  BY <1>3, EmptyFits, FrameFits
<1>6. c \in Files /\ Len(c) = op.size /\ \A i \in 1..op.size : c[i] = <<op.no, i>>
  BY <1>1, ContentFits
<1>7. /\ d \in Seq(SwspFrames) /\ Len(d) = op.size
      /\ \A i \in 1..op.size : /\ d[i].id = id /\ d[i].flags = DataFlags(i, op.size)
                               /\ d[i].body = Chunk(c[i])
  BY <1>6, DataFramesFit
<1>8. \A i \in 1..op.size : Chunk(c[i]) = Body("chunk", op.no, i, FALSE)
  <2> HIDE DEF c
  <2> SUFFICES ASSUME NEW i \in 1..op.size
               PROVE  Chunk(c[i]) = Body("chunk", op.no, i, FALSE)
    OBVIOUS
  <2>1. c[i] = <<op.no, i>>
    BY <1>6
  <2>2. c[i][1] = op.no /\ c[i][2] = i
    BY <2>1
  <2> QED
    BY <2>2, Zenon DEF Chunk
<1>9. r = <<o>> \o IF op.kind # "put" THEN <<>> ELSE IF op.size = 0 THEN <<e>> ELSE d
  BY DEF Request
<1> HIDE DEF o, e, c, d
<1>10. <<o>> \in Seq(SwspFrames) /\ Len(<<o>>) = 1 /\ <<o>>[1] = o
  BY <1>4, OneFrame
<1>11. <<e>> \in Seq(SwspFrames) /\ Len(<<e>>) = 1 /\ <<e>>[1] = e
  BY <1>5, OneFrame
<1>12. CASE op.kind # "put"
  <2>1. r = <<o>>
    BY <1>9, <1>10, <1>12, ConcatEmptySeq
  <2> HIDE DEF r
  <2>2. RequestLen(op) = 1 /\ RequestFlags(op, 1) = {"SYN", "DAT"}
        /\ RequestBody(op, 1) = Body(op.kind, op.no, op.size, op.over)
    BY <1>12 DEF RequestLen, RequestFlags, RequestBody
  <2>3. /\ r \in Seq(SwspFrames) /\ Len(r) = RequestLen(op)
        /\ RequestLen(op) \in Nat /\ RequestLen(op) >= 1
        /\ \A i \in 1..RequestLen(op) :
               /\ r[i].id = id /\ r[i].flags = RequestFlags(op, i)
               /\ r[i].body = RequestBody(op, i)
    BY <1>4, <1>10, <2>1, <2>2
  <2> QED
    BY <2>3 DEF r
<1>13. CASE op.kind = "put" /\ op.size = 0
  <2>1. r = <<o>> \o <<e>>
    BY <1>9, <1>13
  <2> HIDE DEF r
  <2>2. /\ r \in Seq(SwspFrames) /\ Len(r) = 2
        /\ \A i \in 1..2 : r[i] = IF i <= 1 THEN <<o>>[i] ELSE <<e>>[i - 1]
    BY <1>10, <1>11, <2>1, ConcatProperties
  <2>3. r[1] = o /\ r[2] = e
    BY <1>10, <1>11, <2>2
  <2>4. /\ RequestLen(op) = 2 /\ RequestFlags(op, 1) = {"SYN", "DAT"}
        /\ RequestFlags(op, 2) = {"DAT", "FIN"} /\ RequestBody(op, 2) = Empty
        /\ RequestBody(op, 1) = Body(op.kind, op.no, op.size, op.over)
    BY <1>13 DEF RequestLen, RequestFlags, RequestBody, DataFlags
  <2>5. /\ r[1].id = id /\ r[1].flags = RequestFlags(op, 1) /\ r[1].body = RequestBody(op, 1)
        /\ r[2].id = id /\ r[2].flags = RequestFlags(op, 2) /\ r[2].body = RequestBody(op, 2)
    BY <1>4, <1>5, <2>3, <2>4
  <2>6. \A i \in 1..2 : i = 1 \/ i = 2
    OBVIOUS
  <2>7. \A i \in 1..RequestLen(op) :
               /\ r[i].id = id /\ r[i].flags = RequestFlags(op, i)
               /\ r[i].body = RequestBody(op, i)
    BY <2>4, <2>5, <2>6
  <2>8. RequestLen(op) \in Nat /\ RequestLen(op) >= 1
    BY <2>4
  <2> QED
    BY <2>2, <2>4, <2>7, <2>8 DEF r
<1>14. CASE op.kind = "put" /\ op.size # 0
  <2>1. r = <<o>> \o d
    BY <1>9, <1>14
  <2> HIDE DEF r
  <2>2. /\ r \in Seq(SwspFrames) /\ Len(r) = 1 + op.size
        /\ \A i \in 1..1 + op.size : r[i] = IF i <= 1 THEN <<o>>[i] ELSE d[i - 1]
    BY <1>7, <1>10, <2>1, ConcatProperties
  <2>3. RequestLen(op) = op.size + 1
    BY <1>14 DEF RequestLen
  <2>4. ASSUME NEW i \in 1..RequestLen(op)
        PROVE  /\ r[i].id = id /\ r[i].flags = RequestFlags(op, i)
               /\ r[i].body = RequestBody(op, i)
    <3>1. CASE i = 1
      BY <1>1, <1>4, <1>10, <2>2, <2>3, <3>1 DEF RequestFlags, RequestBody
    <3>2. CASE i # 1
      <4>1. i - 1 \in 1..op.size /\ r[i] = d[i - 1]
        BY <1>1, <2>2, <2>3, <3>2
      <4>2. DataFlags(i - 1, op.size) = DataFlags(i, RequestLen(op))
        BY <1>1, <2>3, <4>1 DEF DataFlags
      <4>3. RequestFlags(op, i) = DataFlags(i, RequestLen(op))
            /\ RequestBody(op, i) = Body("chunk", op.no, i - 1, FALSE)
        BY <1>14, <3>2 DEF RequestFlags, RequestBody
      <4> QED
        BY <1>7, <1>8, <4>1, <4>2, <4>3
    <3> QED
      BY <3>1, <3>2
  <2>5. RequestLen(op) \in Nat /\ RequestLen(op) >= 1 /\ Len(r) = RequestLen(op)
    BY <1>1, <2>2, <2>3
  <2> QED
    BY <2>2, <2>4, <2>5 DEF r
<1> QED
  BY <1>1, <1>12, <1>13, <1>14

(* The frames of an answer: all on the stream id, and the last has FIN.    *)
AnswerShape(fs, id) ==
    /\ fs \in Seq(SwspFrames) /\ fs # <<>>
    /\ \A i \in 1..Len(fs) : fs[i].id = id /\ (Fins(fs[i]) <=> i = Len(fs))

(* An answer of one frame: an upload's or the error of a command.          *)
LEMMA OneFrameAnswer ==
    ASSUME NEW id \in U32, NEW what \in {"info", "error", "exit"}, NEW op \in Nat
    PROVE  LET fs == <<Frame(id, {"DAT", "FIN"}, Body(what, op, 0, FALSE))>>
           IN  /\ AnswerShape(fs, id)
               /\ Len(fs) = 1 /\ fs[1].body.op = op
<1> DEFINE f == Frame(id, {"DAT", "FIN"}, Body(what, op, 0, FALSE))
           b == Body(what, op, 0, FALSE)
<1>1. what \in Whats /\ 0 \in Nat /\ FALSE \in BOOLEAN
  BY DEF Whats
<1>2. b \in Bodies /\ b.op = op
  BY <1>1, BodyFits
<1>3. {"DAT", "FIN"} \in SUBSET {"SYN", "DAT", "FIN"}
  OBVIOUS
<1> HIDE DEF b
<1>4. f \in SwspFrames /\ f.id = id /\ f.flags = {"DAT", "FIN"} /\ f.body.op = op
  <2>1. f = Frame(id, {"DAT", "FIN"}, b)
    BY DEF b
  <2> HIDE DEF f
  <2>2. f \in SwspFrames /\ f.id = id /\ f.flags = {"DAT", "FIN"} /\ f.body = b
    BY <1>2, <1>3, <2>1, FrameFits
  <2> QED
    BY <1>2, <2>2
<1> HIDE DEF f
<1>5. <<f>> \in Seq(SwspFrames) /\ Len(<<f>>) = 1 /\ <<f>>[1] = f /\ <<f>> # <<>>
  BY <1>4, OneFrame
<1>6. AnswerShape(<<f>>, id) /\ Len(<<f>>) = 1 /\ <<f>>[1].body.op = op
  BY <1>4, <1>5 DEF AnswerShape, Fins
<1> QED
  BY <1>6 DEF f

(* What the frames of a request look like: all carry data, only the first  *)
(* opens a stream, and only the last one of an upload ends it.             *)
LEMMA RequestFrames ==
    ASSUME NEW id \in U32, NEW op \in Ops, NEW k \in 1..RequestLen(op)
    PROVE  LET f == Request(id, op)[k]
           IN  /\ f \in SwspFrames /\ f.id = id
               /\ "DAT" \in f.flags /\ f.flags # {"FIN"}
               /\ "SYN" \in f.flags <=> k = 1
               /\ Fins(f) <=> k # 1 /\ k = RequestLen(op)
               /\ k = 1 => f.flags = {"SYN", "DAT"}
               /\ f.body = RequestBody(op, k)
<1> DEFINE f == Request(id, op)[k]
           r == Request(id, op)
<1>1. /\ r \in Seq(SwspFrames) /\ Len(r) = RequestLen(op) /\ RequestLen(op) \in Nat
      /\ r[k].id = id /\ r[k].flags = RequestFlags(op, k) /\ r[k].body = RequestBody(op, k)
  BY RequestFits
<1> HIDE DEF r
<1>2. r[k] \in SwspFrames
  BY <1>1
<1>3. /\ "DAT" \in RequestFlags(op, k) /\ RequestFlags(op, k) # {"FIN"}
      /\ "SYN" \in RequestFlags(op, k) <=> k = 1
      /\ "FIN" \in RequestFlags(op, k) <=> k # 1 /\ k = RequestLen(op)
      /\ k = 1 => RequestFlags(op, k) = {"SYN", "DAT"}
  BY DEF RequestFlags, DataFlags
<1> QED
  BY <1>1, <1>2, <1>3 DEF r, Fins

(* The answer to a download: metadata, then the data.                      *)
LEMMA DownloadAnswer ==
    ASSUME NEW id \in U32, NEW op \in Nat, NEW data \in Files
    PROVE  AnswerShape(DownloadFrames(id, op, data), id)
<1> DEFINE flags == IF data = <<>> THEN {"DAT", "FIN"} ELSE {"DAT"}
           b == Body("info", op, 0, FALSE)
           f == Frame(id, flags, b)
           d == DataFrames(id, data)
           n == Len(data)
           r == DownloadFrames(id, op, data)
<1>1. "info" \in Whats /\ 0 \in Nat /\ FALSE \in BOOLEAN
  BY DEF Whats
<1>2. b \in Bodies
  BY <1>1, BodyFits
<1>3. flags \in SUBSET {"SYN", "DAT", "FIN"}
  OBVIOUS
<1>4. n \in Nat /\ (data = <<>> <=> n = 0)
  BY DEF Files
<1>5. "FIN" \in flags <=> n = 0
  BY <1>4
<1>6. r = <<f>> \o d
  BY DEF DownloadFrames
<1> HIDE DEF b, flags
<1>7. f \in SwspFrames /\ f.id = id /\ f.flags = flags
  BY <1>2, <1>3, FrameFits
<1>8. /\ d \in Seq(SwspFrames) /\ Len(d) = n
      /\ \A i \in 1..n : d[i].id = id /\ d[i].flags = DataFlags(i, n)
  BY DataFramesFit
<1> HIDE DEF f, d, n, r
<1>9. <<f>> \in Seq(SwspFrames) /\ Len(<<f>>) = 1 /\ <<f>>[1] = f
  BY <1>7, OneFrame
<1>10. /\ r \in Seq(SwspFrames) /\ Len(r) = 1 + n
      /\ \A i \in 1..1 + n : r[i] = IF i <= 1 THEN <<f>>[i] ELSE d[i - 1]
  BY <1>6, <1>8, <1>9, ConcatProperties
<1>11. ASSUME NEW i \in 1..1 + n
      PROVE  r[i].id = id /\ (Fins(r[i]) <=> i = 1 + n)
  <2>1. CASE i = 1
    <3>1. r[i] = f
      BY <1>9, <1>10, <2>1
    <3> QED
      BY <1>5, <1>7, <1>4, <2>1, <3>1 DEF Fins
  <2>2. CASE i # 1
    <3>1. i - 1 \in 1..n /\ r[i] = d[i - 1]
      BY <1>10, <1>4, <2>2
    <3>2. r[i].id = id /\ r[i].flags = DataFlags(i - 1, n)
      BY <1>8, <3>1
    <3>3. "FIN" \in DataFlags(i - 1, n) <=> i = 1 + n
      BY <1>4, <3>1 DEF DataFlags
    <3> QED
      BY <3>2, <3>3 DEF Fins
  <2> QED
    BY <2>1, <2>2
<1>12. r # <<>>
  BY <1>10, <1>4
<1>13. AnswerShape(r, id)
  BY <1>10, <1>11, <1>12 DEF AnswerShape
<1> QED
  BY <1>13 DEF r

(* The frame of an output of a command, or nothing.                        *)
OutputFrames(id, op, o) ==
    IF o = "none" THEN <<>>
    ELSE <<Frame(id, {"DAT"}, Body("output", op, 0, o = "large"))>>

(* One output of a command: no frame, or one without FIN.                  *)
LEMMA OutputFits ==
    ASSUME NEW id \in U32, NEW op \in Nat, NEW o
    PROVE  LET fs == OutputFrames(id, op, o)
           IN  /\ fs \in Seq(SwspFrames)
               /\ \A i \in 1..Len(fs) : fs[i].id = id /\ ~ Fins(fs[i]) /\ fs[i].body.op = op
<1> DEFINE large == o = "large"
           b == Body("output", op, 0, large)
           f == Frame(id, {"DAT"}, b)
           fs == OutputFrames(id, op, o)
<1>1. "output" \in Whats /\ 0 \in Nat /\ large \in BOOLEAN
  BY DEF Whats
<1> HIDE DEF large
<1>2. b \in Bodies /\ b.op = op
  BY <1>1, BodyFits
<1>3. {"DAT"} \in SUBSET {"SYN", "DAT", "FIN"}
  OBVIOUS
<1>4. fs = IF o = "none" THEN <<>> ELSE <<f>>
  BY DEF OutputFrames, large
<1> HIDE DEF b
<1>5. f \in SwspFrames /\ f.id = id /\ f.flags = {"DAT"} /\ f.body = b
  BY <1>2, <1>3, FrameFits
<1> HIDE DEF f, fs
<1>6. CASE o = "none"
  <2>1. fs = <<>>
    BY <1>4, <1>6
  <2> QED
    BY <2>1 DEF fs
<1>7. CASE o # "none"
  <2>1. fs = <<f>>
    BY <1>4, <1>7
  <2>2. fs \in Seq(SwspFrames) /\ Len(fs) = 1 /\ fs[1] = f
    BY <1>5, <2>1, OneFrame
  <2>3. \A i \in 1..Len(fs) : fs[i].id = id /\ ~ Fins(fs[i]) /\ fs[i].body.op = op
    BY <1>2, <1>5, <2>2 DEF Fins
  <2> QED
    BY <2>2, <2>3 DEF fs
<1> QED
  BY <1>6, <1>7

(* The answer to a command: its outputs, then its exit status.             *)
LEMMA ShellAnswer ==
    ASSUME NEW id \in U32, NEW op \in Nat, NEW a, NEW b
    PROVE  LET fs == ShellFrames(id, op, a, b)
           IN  AnswerShape(fs, id) /\ \A i \in 1..Len(fs) : fs[i].body.op = op
<1> DEFINE fs == ShellFrames(id, op, a, b)
           u == OutputFrames(id, op, a)
           v == OutputFrames(id, op, b)
           w == <<Frame(id, {"DAT", "FIN"}, Body("exit", op, 0, FALSE))>>
           uv == u \o v
<1>1. fs = uv \o w
  BY DEF ShellFrames, OutputFrames
<1>2. /\ u \in Seq(SwspFrames)
      /\ \A i \in 1..Len(u) : u[i].id = id /\ ~ Fins(u[i]) /\ u[i].body.op = op
  BY OutputFits
<1>3. /\ v \in Seq(SwspFrames)
      /\ \A i \in 1..Len(v) : v[i].id = id /\ ~ Fins(v[i]) /\ v[i].body.op = op
  BY OutputFits
<1>4. AnswerShape(w, id) /\ Len(w) = 1 /\ w[1].body.op = op
  BY OneFrameAnswer
<1> HIDE DEF fs, u, v, w
<1>5. /\ uv \in Seq(SwspFrames) /\ Len(uv) = Len(u) + Len(v)
      /\ \A i \in 1..Len(u) + Len(v) : uv[i] = IF i <= Len(u) THEN u[i] ELSE v[i - Len(u)]
  BY <1>2, <1>3, ConcatProperties
<1> HIDE DEF uv
<1>6. Len(u) \in Nat /\ Len(v) \in Nat /\ Len(uv) \in Nat
  BY <1>2, <1>3, <1>5
<1>7. \A i \in 1..Len(uv) : uv[i].id = id /\ ~ Fins(uv[i]) /\ uv[i].body.op = op
  <2> SUFFICES ASSUME NEW i \in 1..Len(uv)
               PROVE  uv[i].id = id /\ ~ Fins(uv[i]) /\ uv[i].body.op = op
    OBVIOUS
  <2>1. \/ i \in 1..Len(u) /\ uv[i] = u[i]
        \/ i - Len(u) \in 1..Len(v) /\ uv[i] = v[i - Len(u)]
    BY <1>5, <1>6
  <2> QED
    BY <1>2, <1>3, <2>1
<1>8. w \in Seq(SwspFrames) /\ w[1].id = id /\ Fins(w[1])
  BY <1>4 DEF AnswerShape
<1>9. /\ fs \in Seq(SwspFrames) /\ Len(fs) = Len(uv) + 1
      /\ \A i \in 1..Len(uv) + 1 : fs[i] = IF i <= Len(uv) THEN uv[i] ELSE w[i - Len(uv)]
  <2>1. uv \in Seq(SwspFrames) /\ w \in Seq(SwspFrames) /\ Len(w) = 1
    BY <1>4, <1>5, <1>8
  <2>2. /\ fs \in Seq(SwspFrames) /\ Len(fs) = Len(uv) + Len(w)
        /\ \A i \in 1..Len(uv) + Len(w) : fs[i] = IF i <= Len(uv) THEN uv[i] ELSE w[i - Len(uv)]
    BY <1>1, <2>1, ConcatProperties
  <2> QED
    BY <2>1, <2>2
<1>10. ASSUME NEW i \in 1..Len(fs)
       PROVE  fs[i].id = id /\ (Fins(fs[i]) <=> i = Len(fs)) /\ fs[i].body.op = op
  <2>1. CASE i <= Len(uv)
    <3>1. i \in 1..Len(uv) /\ fs[i] = uv[i] /\ i # Len(fs)
      BY <1>6, <1>9, <2>1
    <3> QED
      BY <1>7, <3>1
  <2>2. CASE i = Len(uv) + 1
    <3>1. fs[i] = w[1] /\ i = Len(fs)
      BY <1>6, <1>9, <2>2
    <3> QED
      BY <1>4, <1>8, <3>1
  <2>3. i <= Len(uv) \/ i = Len(uv) + 1
    BY <1>6, <1>9
  <2> QED
    BY <2>1, <2>2, <2>3, Zenon
<1>11. fs # <<>>
  BY <1>6, <1>9
<1>12. AnswerShape(fs, id) /\ \A i \in 1..Len(fs) : fs[i].body.op = op
  BY <1>9, <1>10, <1>11 DEF AnswerShape
<1> QED
  BY <1>12 DEF fs

-----------------------------------------------------------------------------
(* The streams of a session                                                *)

(* Session::open_stream of a ready session: the new stream was free.       *)
LEMMA OpenStreamFits ==
    ASSUME NEW s, Sound(s), s.state = "Ready", NEW kind \in Kinds, NEW path \in Paths,
           NEW res, res = OpenStream(s, kind, path)
    PROVE  /\ Sound(res.session) /\ res.session.state = "Ready"
           /\ res.ok => /\ res.id \in Free(s.registry)
                        /\ Live(res.session.registry) = Live(s.registry) \cup {res.id}
           /\ ~ res.ok => Live(res.session.registry) = Live(s.registry)
<1> DEFINE reg == RegOpen(s.registry, kind, path)
<1>1. WellFormed(s.registry)
  BY DEF Sound
<1>2. /\ WellFormed(reg.reg)
      /\ reg.ok => /\ reg.id \in Free(s.registry)
                   /\ Live(reg.reg) = Live(s.registry) \cup {reg.id}
      /\ ~ reg.ok => reg.reg = s.registry
  BY <1>1, OpenKeeps
<1>3. res = [ok |-> reg.ok, id |-> reg.id, session |-> [s EXCEPT !.registry = reg.reg]]
  BY DEF OpenStream, WithRegistry
<1> HIDE DEF reg
<1>4. res.ok = reg.ok /\ res.id = reg.id /\ res.session = [s EXCEPT !.registry = reg.reg]
  BY <1>3
<1>5. /\ Sound(res.session) /\ res.session.state = s.state
      /\ res.session.registry = reg.reg
  BY <1>2, <1>4, WithRegistrySound
<1> QED
  BY <1>2, <1>4, <1>5

(* Session::accept_stream of a ready session takes an id that is free.     *)
LEMMA AcceptStreamFits ==
    ASSUME NEW s, Sound(s), s.state = "Ready", NEW kind \in Kinds,
           NEW path \in Paths \ {Blank}, NEW id \in Free(s.registry),
           NEW res, res = AcceptStream(s, id, kind, path)
    PROVE  /\ Sound(res.session) /\ res.session.state = "Ready" /\ res.ok
           /\ Live(res.session.registry) = Live(s.registry) \cup {id}
<1> DEFINE reg == RegAccept(s.registry, id, kind, path)
<1>1. WellFormed(s.registry)
  BY DEF Sound
<1>2. id \in U32 /\ id # 0 /\ id \notin Live(s.registry)
  BY RegistryConstants DEF Free, U32
<1>3. reg.ok
  BY <1>2 DEF RegAccept
<1>4. WellFormed(reg.reg) /\ (reg.ok => Live(reg.reg) = Live(s.registry) \cup {id})
  BY <1>1, <1>2, AcceptKeeps
<1>5. res = [ok |-> reg.ok, id |-> reg.id, session |-> [s EXCEPT !.registry = reg.reg]]
  BY DEF AcceptStream, WithRegistry
<1> HIDE DEF reg
<1>6. res.ok = reg.ok /\ res.session = [s EXCEPT !.registry = reg.reg]
  BY <1>5
<1>7. /\ Sound(res.session) /\ res.session.state = s.state
      /\ res.session.registry = reg.reg
  BY <1>4, <1>6, WithRegistrySound
<1> QED
  BY <1>3, <1>4, <1>6, <1>7

(* Session::close_stream forgets the stream, if it is there.               *)
LEMMA CloseStreamFits ==
    ASSUME NEW s, Sound(s), s.state = "Ready", NEW id \in U32,
           NEW t, t = CloseStream(s, id).session
    PROVE  Sound(t) /\ t.state = "Ready" /\ Live(t.registry) = Live(s.registry) \ {id}
<1> DEFINE reg == RegClose(s.registry, id)
<1>1. WellFormed(s.registry)
  BY DEF Sound
<1>2. /\ WellFormed(reg.reg) /\ (reg.ok <=> id \in Live(s.registry))
      /\ reg.ok => Live(reg.reg) = Live(s.registry) \ {id}
      /\ ~ reg.ok => reg.reg = s.registry
  BY <1>1, CloseKeeps
<1>3. t = [s EXCEPT !.registry = reg.reg]
  BY DEF CloseStream, WithRegistry
<1> HIDE DEF reg
<1>4. Sound(t) /\ t.state = s.state /\ t.registry = reg.reg
  BY <1>2, <1>3, WithRegistrySound
<1>5. Live(reg.reg) = Live(s.registry) \ {id}
  BY <1>2
<1> QED
  BY <1>4, <1>5

-----------------------------------------------------------------------------
(* The channel                                                             *)

(* Frames put behind others.                                               *)
LEMMA Joined ==
    ASSUME NEW a \in Seq(SwspFrames), NEW b \in Seq(SwspFrames), NEW c, c = a \o b
    PROVE  /\ c \in Seq(SwspFrames) /\ Len(c) = Len(a) + Len(b)
           /\ Len(a) \in Nat /\ Len(b) \in Nat
           /\ \A i \in 1..Len(a) : c[i] = a[i]
           /\ \A i \in 1..Len(b) : c[Len(a) + i] = b[i]
<1>1. Len(a) \in Nat /\ Len(b) \in Nat
  OBVIOUS
<1>2. /\ c \in Seq(SwspFrames) /\ Len(c) = Len(a) + Len(b)
      /\ \A i \in 1..Len(a) + Len(b) : c[i] = IF i <= Len(a) THEN a[i] ELSE b[i - Len(a)]
  BY ConcatProperties
<1>3. \A i \in 1..Len(a) : c[i] = a[i]
  BY <1>1, <1>2
<1>4. ASSUME NEW i \in 1..Len(b) PROVE c[Len(a) + i] = b[i]
  <2>1. /\ Len(a) + i \in 1..Len(a) + Len(b) /\ ~ (Len(a) + i <= Len(a))
        /\ Len(a) + i - Len(a) = i
    BY <1>1
  <2> QED
    BY <1>2, <2>1
<1> QED
  BY <1>1, <1>2, <1>3, <1>4

(* A frame put behind others.                                              *)
LEMMA Appended ==
    ASSUME NEW a \in Seq(SwspFrames), NEW f \in SwspFrames, NEW c, c = a \o <<f>>
    PROVE  /\ c \in Seq(SwspFrames) /\ Len(c) = Len(a) + 1 /\ Len(a) \in Nat
           /\ \A i \in 1..Len(a) : c[i] = a[i]
           /\ c[Len(a) + 1] = f
<1>1. <<f>> \in Seq(SwspFrames) /\ Len(<<f>>) = 1 /\ <<f>>[1] = f
  BY OneFrame
<1> DEFINE b == <<f>>
<1> HIDE DEF b
<1>2. b \in Seq(SwspFrames) /\ Len(b) = 1 /\ b[1] = f /\ c = a \o b
  BY <1>1 DEF b
<1>3. /\ c \in Seq(SwspFrames) /\ Len(c) = Len(a) + Len(b) /\ Len(a) \in Nat
      /\ \A i \in 1..Len(a) : c[i] = a[i]
      /\ \A i \in 1..Len(b) : c[Len(a) + i] = b[i]
  BY <1>2, Joined
<1> QED
  BY <1>2, <1>3

(* A frame taken from others.                                              *)
LEMMA Shifted ==
    ASSUME NEW a \in Seq(SwspFrames), a # <<>>
    PROVE  /\ Head(a) = a[1] /\ a[1] \in SwspFrames /\ Len(a) \in Nat /\ Len(a) >= 1
           /\ 1 \in 1..Len(a)
           /\ Tail(a) \in Seq(SwspFrames) /\ Len(Tail(a)) = Len(a) - 1
           /\ \A i \in 1..Len(Tail(a)) : Tail(a)[i] = a[i + 1] /\ i + 1 \in 1..Len(a)
<1>1. Len(a) \in Nat /\ Len(a) >= 1
  BY EmptySeq
<1>2. Head(a) = a[1] /\ a[1] \in SwspFrames /\ 1 \in 1..Len(a)
  BY <1>1
<1>3. Tail(a) \in Seq(SwspFrames) /\ Len(Tail(a)) = Len(a) - 1
  BY <1>1
<1>4. \A i \in 1..Len(Tail(a)) : Tail(a)[i] = a[i + 1] /\ i + 1 \in 1..Len(a)
  BY <1>1, <1>3
<1> QED
  BY <1>1, <1>2, <1>3, <1>4

(* The frames that a close did not lose.                                   *)
LEMMA Cut ==
    ASSUME NEW a \in Seq(SwspFrames), NEW n \in 0..Len(a), NEW c, c = SubSeq(a, 1, n)
    PROVE  c \in Seq(SwspFrames) /\ Len(c) = n /\ \A i \in 1..n : c[i] = a[i]
  OBVIOUS

(* What RemoteTypes says of the parts the invariant speaks of.             *)
LEMMA Parts ==
    ASSUME RemoteTypes
    PROVE  /\ Sound(sess[S]) /\ Sound(sess[C])
           /\ chan[S] \in Seq(SwspFrames) /\ chan[C] \in Seq(SwspFrames)
           /\ Len(chan[S]) \in Nat /\ Len(chan[C]) \in Nat
           /\ srv.id \in U32 /\ srv.req \in Bodies /\ srv.out \in Seq(SwspFrames)
           /\ srv.got \in Files /\ Len(srv.got) \in Nat
           /\ cli.id \in U32 /\ cli.op \in Ops /\ cli.left \in Seq(SwspFrames)
           /\ Len(cli.left) \in Nat /\ done \in Seq(Results) /\ Len(done) \in Nat
<1>1. chan[S] \in Seq(SwspFrames) /\ chan[C] \in Seq(SwspFrames)
  BY TwoSides DEF RemoteTypes
<1>2. Sound(sess[S]) /\ Sound(sess[C])
  BY TwoSides DEF RemoteTypes
<1>3. /\ srv.id \in U32 /\ srv.req \in Bodies /\ srv.out \in Seq(SwspFrames)
      /\ srv.got \in Files
  BY DEF RemoteTypes, Dispatchers
<1>4. cli.id \in U32 /\ cli.op \in Ops /\ cli.left \in Seq(SwspFrames)
  BY DEF RemoteTypes, Clients
<1>5. done \in Seq(Results)
  BY DEF RemoteTypes
<1> QED
  BY <1>1, <1>2, <1>3, <1>4, <1>5 DEF Files

(* The request of the client and the places in it.                         *)
LEMMA Places ==
    ASSUME RemoteTypes
    PROVE  /\ Asked \in Seq(SwspFrames) /\ Len(Asked) = RequestLen(cli.op)
           /\ Len(Asked) \in Nat /\ Len(Asked) >= 1
           /\ Sent \in Int /\ Sent <= Len(Asked) /\ Taken \in Nat /\ Lead \in {0, 1}
           /\ Sent = Len(Asked) - Len(cli.left)
<1>1. /\ cli.id \in U32 /\ cli.op \in Ops /\ Len(cli.left) \in Nat /\ Len(srv.got) \in Nat
  BY Parts
<1>2. /\ Asked \in Seq(SwspFrames) /\ Len(Asked) = RequestLen(cli.op)
      /\ Len(Asked) \in Nat /\ Len(Asked) >= 1
  BY <1>1, RequestFits DEF Asked
<1>3. Sent \in Int /\ Sent <= Len(Asked) /\ Sent = Len(Asked) - Len(cli.left)
  BY <1>1, <1>2 DEF Sent
<1>4. Taken \in Nat
  BY <1>1 DEF Taken
<1>5. Lead \in {0, 1}
  BY DEF Lead
<1> QED
  BY <1>2, <1>3, <1>4, <1>5

(* What the frame at a place of the request looks like.                    *)
LEMMA AskedFrames ==
    ASSUME RemoteTypes, NEW k \in Int, k \in 1..Len(Asked)
    PROVE  LET f == Asked[k]
           IN  /\ f \in SwspFrames /\ f.id = cli.id
               /\ "DAT" \in f.flags /\ f.flags # {"FIN"}
               /\ "SYN" \in f.flags <=> k = 1
               /\ Fins(f) <=> k # 1 /\ k = Len(Asked)
               /\ k = 1 => f.flags = {"SYN", "DAT"}
               /\ f.body = RequestBody(cli.op, k)
<1>1. cli.id \in U32 /\ cli.op \in Ops /\ Len(Asked) = RequestLen(cli.op)
  BY Parts, Places
<1>2. k \in 1..RequestLen(cli.op)
  BY <1>1
<1> QED
  BY <1>1, <1>2, RequestFrames DEF Asked

(* The control stream is not among the streams.                            *)
LEMMA StreamIds ==
    ASSUME RemoteTypes, NEW id
    PROVE  /\ id \in Streams(S) => id \in U32 /\ id # 0
           /\ id \in Streams(C) => id \in U32 /\ id # 0
<1>1. Sound(sess[S]) /\ Sound(sess[C])
  BY Parts
<1> QED
  BY <1>1 DEF Streams, Sound, WellFormed, Live

-----------------------------------------------------------------------------
(* Steps that several actions take                                         *)

(* The loop of the dispatcher ends: no more is asked of what is under way  *)
(* to it.                                                                  *)
LEMMA DispatcherEnds ==
    ASSUME Talk, strays = 0, srv.at \notin {"ended", "closed"},
           NEW w \in {"done", "protocol", "failed"}, ServerEnds(w),
           w = "protocol" => \E i \in 1..Len(done) : ~ done[i].ok /\ done[i].op.kind = "put",
           chan' \in [Sides -> Seq(SwspFrames)], chan'[C] = chan[C],
           remote' \in [there : BOOLEAN, data : Files], versions' \in SUBSET Files,
           versions \subseteq versions', VersionsMeant',
           UNCHANGED <<sess, closed, cli, done, strays>>
    PROVE  Talk'
<1>1. RemoteTypes /\ Ends
  BY DEF Talk
<1>2. /\ srv' \in Dispatchers /\ srv'.at = "ended" /\ srv'.why = w
  BY <1>1 DEF RemoteTypes, Dispatchers, ServerEnds
<1>3. RemoteTypes'
  BY <1>1, <1>2 DEF RemoteTypes
<1>4. Ends'
  <2>1. S \notin closed /\ (C \in closed => chan[C] = <<>>)
    BY <1>1, TwoSides DEF Ends
  <2> QED
    BY <1>1, <1>2, <2>1, TwoSides DEF Ends
<1>5. ToServer' /\ Serving' /\ Collecting' /\ Answering' /\ StreamsCorrespond' /\ NewStreamFree'
  BY <1>2 DEF ToServer, Serving, Collecting, Answering, StreamsCorrespond, NewStreamFree, Busy
<1>6. Aligned'
  BY <1>2 DEF Aligned, Listening
<1>7. ToClient'
  <2>1. ToClient
    BY DEF Talk
  <2>2. ASSUME NEW i \in 1..Len(chan[C]), Answered(i) PROVE Answered(i)'
    BY <1>2, <2>2 DEF Answered, Busy
  <2>3. ASSUME NEW i \in 1..Len(chan[C]), Answers(chan[C][i]) PROVE Answers(chan[C][i])'
    BY <2>3 DEF Answers
  <2> QED
    BY <2>1, <2>2, <2>3 DEF ToClient, Fins
<1>8. ClientSound'
  BY DEF Talk, ClientSound, Streams, Asked, Sent
<1>9. ResultsReal'
  BY DEF Talk, ResultsReal, Real
<1>10. ClientsAreServed'
  BY <1>2 DEF Talk, ClientsAreServed
<1> QED
  BY <1>3, <1>4, <1>5, <1>6, <1>7, <1>8, <1>9, <1>10 DEF Talk

(* An operation fails, with its stream left open: what is on the way to    *)
(* the dispatcher stays as it is.                                          *)
LEMMA ClientFails ==
    ASSUME Talk, strays = 0, cli.at \in {"send", "recv"},
           NEW of \in Nat, NEW data \in Files, ClientReturns(FALSE, of, data),
           chan' \in [Sides -> Seq(SwspFrames)], chan'[S] = chan[S],
           UNCHANGED <<sess, closed, srv, remote, strays, versions>>
    PROVE  Talk'
<1> DEFINE r == [op |-> cli.op, ok |-> FALSE, of |-> of, data |-> data]
<1>1. RemoteTypes /\ Ends /\ ClientSound
  BY DEF Talk
<1>2. cli.op \in Ops /\ done \in Seq(Results) /\ Len(done) \in Nat /\ cli.id \in U32
  BY <1>1, Parts
<1>3. r \in Results /\ r.op = cli.op /\ ~ r.ok
  BY <1>2 DEF Results
<1>4. done' = Append(done, r)
  BY DEF ClientReturns
<1> HIDE DEF r
<1>5. /\ done' \in Seq(Results) /\ Len(done') = Len(done) + 1
      /\ done'[Len(done) + 1] = r /\ \A i \in 1..Len(done) : done'[i] = done[i]
  BY <1>2, <1>3, <1>4
<1>6. /\ cli' \in Clients /\ cli'.at = "failed" /\ cli'.op = cli.op /\ cli'.id = cli.id
      /\ cli'.left = cli.left
  BY <1>1 DEF RemoteTypes, Clients, ClientReturns
<1>7. Asked' = Asked /\ Sent' = Sent /\ Taken' = Taken /\ Lead' = Lead /\ Listening' = Listening
  BY <1>6 DEF Asked, Sent, Taken, Lead, Listening
<1>8. RemoteTypes'
  BY <1>1, <1>5, <1>6 DEF RemoteTypes
<1>9. Ends'
  <2>1. C \notin closed /\ (S \in closed => chan[S] = <<>>)
    BY <1>1, TwoSides DEF Ends
  <2> QED
    BY <1>1, <1>6, <2>1, TwoSides DEF Ends
<1>10. ToServer'
  <2>1. ASSUME NEW i \in 1..Len(chan[S])
        PROVE  /\ Closes(i) => Closes(i)'
               /\ Leaves(i) => Leaves(i)'
               /\ Asks(i) => Asks(i)'
    BY <1>6, <1>7 DEF Closes, Leaves, Asks, Streams
  <2> QED
    BY <2>1 DEF Talk, ToServer
<1>11. Aligned'
  <2>1. Aligned
    BY DEF Talk
  <2> QED
    BY <1>6, <1>7, <2>1 DEF Aligned
<1>12. Serving'
  BY <1>6 DEF Talk, Serving, Streams
<1>13. Collecting'
  BY <1>6, <1>7 DEF Talk, Collecting
<1>14. Answering'
  BY <1>6 DEF Talk, Answering, Answers
<1>15. ToClient' /\ StreamsCorrespond'
  BY <1>6 DEF ToClient, StreamsCorrespond
<1>16. ClientSound'
  <2>1. done' # <<>> /\ done'[Len(done')].op = cli.op /\ ~ done'[Len(done')].ok
    BY <1>2, <1>3, <1>5
  <2> QED
    BY <1>6, <2>1 DEF ClientSound
<1>17. NewStreamFree'
  <2>1. Opening' => Opening
    BY <1>6 DEF Opening
  <2> QED
    BY <1>6, <1>7, <2>1 DEF Talk, NewStreamFree, Streams
<1>18. ResultsReal'
  <2> SUFFICES ASSUME NEW i \in 1..Len(done)' PROVE (done[i].op.no = i /\ Real(done[i]))'
    BY DEF ResultsReal
  <2>1. CASE i \in 1..Len(done)
    <3>1. done[i].op.no = i /\ Real(done[i]) /\ done'[i] = done[i]
      BY <1>5, <2>1 DEF Talk, ResultsReal
    <3> QED
      BY <3>1 DEF Real
  <2>2. CASE i = Len(done) + 1
    <3>1. done'[i] = r /\ cli.op.no = Len(done) + 1
      BY <1>1, <1>5, <2>2 DEF ClientSound
    <3> QED
      BY <1>3, <2>2, <3>1 DEF Real
  <2> QED
    BY <1>2, <1>5, <2>1, <2>2
<1>19. VersionsMeant'
  <2>1. ASSUME NEW o, NEW n, Meant(o, n) PROVE Meant(o, n)'
    <3>1. CASE o = 0 \/ (o = cli.op.no /\ n = cli.op.size)
      BY <1>6, <3>1 DEF Meant
    <3>2. CASE o \in 1..Len(done) /\ n = done[o].op.size
      <4>1. o \in 1..Len(done') /\ done'[o] = done[o]
        BY <1>2, <1>5, <3>2
      <4> QED
        BY <3>2, <4>1 DEF Meant
    <3> QED
      BY <2>1, <3>1, <3>2 DEF Meant
  <2> QED
    BY <2>1 DEF Talk, VersionsMeant
<1>20. ClientsAreServed'
  <2>1. \A i \in 1..Len(done) : i \in 1..Len(done') /\ done'[i] = done[i]
    BY <1>2, <1>5
  <2> QED
    BY <2>1 DEF Talk, ClientsAreServed
<1> QED
  BY <1>8, <1>9, <1>10, <1>11, <1>12, <1>13, <1>14, <1>15, <1>16, <1>17, <1>18, <1>19, <1>20
  DEF Talk

(* The dispatcher has an answer: it is on the stream of the client's       *)
(* operation, and an upload has been stored.                               *)
LEMMA DispatcherAnswers ==
    ASSUME Talk, strays = 0, srv.at \in {"shell", "get", "store"},
           NEW fs, AnswerShape(fs, srv.id),
           srv' = [srv EXCEPT !.at = "send", !.out = fs],
           cli.op.kind # "get" => \A i \in 1..Len(fs) : fs[i].body.op = cli.op.no,
           cli.op.kind = "put" => Len(fs) = 1 /\ Content(cli.op.no, cli.op.size) \in versions',
           remote' \in [there : BOOLEAN, data : Files], versions' \in SUBSET Files,
           versions \subseteq versions', VersionsMeant',
           UNCHANGED <<sess, chan, closed, cli, done, strays>>
    PROVE  Talk'
<1>1. RemoteTypes /\ Ends /\ Serving /\ ToServer /\ ToClient
  BY DEF Talk
<1>2. srv.at \in Busy
  BY DEF Busy
<1>3. fs \in Seq(SwspFrames) /\ fs # <<>>
  BY DEF AnswerShape
<1>4. /\ srv' \in Dispatchers /\ srv'.at = "send" /\ srv'.why = srv.why /\ srv'.out = fs
      /\ srv'.id = srv.id /\ srv'.req = srv.req
  BY <1>1, <1>3 DEF RemoteTypes, Dispatchers, Busy
<1>5. srv'.at \in Busy
  BY <1>4 DEF Busy
<1>6. RemoteTypes'
  BY <1>1, <1>4 DEF RemoteTypes
<1>7. Ends'
  BY <1>1, <1>4 DEF Ends
<1>8. ToServer'
  <2>1. ASSUME NEW i \in 1..Len(chan[S])
        PROVE  Leaves(i)'
    <3>1. Closes(i) \/ Leaves(i) \/ Asks(i)
      BY <1>1 DEF ToServer
    <3> QED
      BY <3>1 DEF Closes, Leaves, Asks, Listening
  <2> QED
    BY <2>1 DEF ToServer
<1>9. Aligned' /\ Collecting' /\ NewStreamFree'
  BY <1>4 DEF Aligned, Listening, Collecting, NewStreamFree
<1>10. Serving'
  BY <1>1, <1>4, <1>2 DEF Serving, Streams
<1>11. Answering'
  <2>1. srv.id = cli.id /\ cli.id # 0
    BY <1>1, <1>2, StreamIds DEF Serving
  <2>2. ASSUME NEW i \in 1..Len(fs)
        PROVE  Answers(fs[i])' /\ (Fins(fs[i]) <=> i = Len(fs))
    <3>1. fs[i].id = srv.id /\ (Fins(fs[i]) <=> i = Len(fs))
      BY DEF AnswerShape
    <3>2. ASSUME cli.op.kind = "put" PROVE Fins(fs[i])
      <4>1. Len(fs) = 1
        BY <3>2
      <4>2. i = Len(fs)
        BY <4>1
      <4> QED
        BY <3>1, <4>2
    <3> QED
      BY <2>1, <3>1, <3>2 DEF Answers, Fins
  <2> QED
    BY <1>3, <1>4, <2>2 DEF Answering, Fins
<1>12. ToClient'
  <2>1. ASSUME NEW i \in 1..Len(chan[C]), Answered(i) PROVE FALSE
    BY <1>2, <2>1 DEF Answered
  <2>2. ASSUME NEW i \in 1..Len(chan[C]), Answers(chan[C][i]) PROVE Answers(chan[C][i])'
    BY <2>2 DEF Answers
  <2> QED
    BY <1>1, <2>1, <2>2 DEF ToClient, Fins
<1>13. ClientSound'
  BY DEF Talk, ClientSound, Streams, Asked, Sent
<1>14. StreamsCorrespond'
  BY <1>4 DEF Talk, StreamsCorrespond, Streams
<1>15. ResultsReal'
  BY DEF Talk, ResultsReal, Real
<1>16. ClientsAreServed'
  BY <1>4 DEF Talk, ClientsAreServed
<1> QED
  BY <1>6, <1>7, <1>8, <1>9, <1>10, <1>11, <1>12, <1>13, <1>14, <1>15, <1>16 DEF Talk

(* Nothing was stored.                                                     *)
LEMMA VersionsKept ==
    ASSUME Talk, UNCHANGED <<remote, versions, cli, done>>
    PROVE  VersionsMeant'
  BY DEF Talk, VersionsMeant, Meant

-----------------------------------------------------------------------------
(* The steps of the dispatcher                                             *)

(* ShellStreamHandler::run returned.                                       *)
LEMMA RunsKeeps ==
    ASSUME Talk, strays = 0, ServerRuns
    PROVE  Talk'
<1>1. RemoteTypes /\ Serving
  BY DEF Talk
<1>2. srv.at = "shell" /\ srv.at \in Busy
  BY DEF ServerRuns, Busy
<1>3. cli.op.kind = "shell" /\ srv.req = Body(cli.op.kind, cli.op.no, cli.op.size, cli.op.over)
  BY <1>1, <1>2 DEF Serving
<1>4. srv.req.op = cli.op.no /\ cli.op.no \in Nat /\ srv.id \in U32
  BY <1>1, <1>3, Parts DEF Body, Ops
<1>5. /\ UNCHANGED <<sess, chan, closed, cli, remote, versions, strays, done>>
      /\ remote' \in [there : BOOLEAN, data : Files] /\ versions' \in SUBSET Files
      /\ versions \subseteq versions'
  BY <1>1 DEF ServerRuns, RemoteTypes
<1>6. VersionsMeant'
  BY <1>5, VersionsKept
<1>7. ASSUME NEW fs, AnswerShape(fs, srv.id), \A i \in 1..Len(fs) : fs[i].body.op = cli.op.no,
             srv' = [srv EXCEPT !.at = "send", !.out = fs]
      PROVE  Talk'
  BY <1>2, <1>3, <1>5, <1>6, <1>7, DispatcherAnswers
<1>8. CASE \E stdout, stderr \in Outputs :
              srv' = [srv EXCEPT !.at = "send",
                          !.out = ShellFrames(srv.id, srv.req.op, stdout, stderr)]
  <2> PICK stdout \in Outputs, stderr \in Outputs :
              srv' = [srv EXCEPT !.at = "send",
                          !.out = ShellFrames(srv.id, srv.req.op, stdout, stderr)]
    BY <1>8
  <2> DEFINE fs == ShellFrames(srv.id, srv.req.op, stdout, stderr)
  <2>1. AnswerShape(fs, srv.id) /\ \A i \in 1..Len(fs) : fs[i].body.op = cli.op.no
    BY <1>4, ShellAnswer
  <2>2. srv' = [srv EXCEPT !.at = "send", !.out = fs]
    OBVIOUS
  <2> HIDE DEF fs
  <2> QED
    BY <1>7, <2>1, <2>2
<1>9. CASE srv' = [srv EXCEPT !.at = "send", !.out = ShellErrorFrames(srv.id, srv.req.op)]
  <2> DEFINE fs == ShellErrorFrames(srv.id, srv.req.op)
  <2>1. AnswerShape(fs, srv.id) /\ Len(fs) = 1 /\ fs[1].body.op = cli.op.no
    <3>1. srv.req.op \in Nat /\ "error" \in {"info", "error", "exit"}
      BY <1>4
    <3>2. AnswerShape(fs, srv.id) /\ Len(fs) = 1 /\ fs[1].body.op = srv.req.op
      BY <1>4, <3>1, OneFrameAnswer DEF ShellErrorFrames
    <3> QED
      BY <1>4, <3>2
  <2>2. srv' = [srv EXCEPT !.at = "send", !.out = fs]
    BY <1>9
  <2> HIDE DEF fs
  <2>3. \A i \in 1..Len(fs) : fs[i].body.op = cli.op.no
    BY <2>1
  <2> QED
    BY <1>7, <2>1, <2>2, <2>3
<1> QED
  BY <1>8, <1>9 DEF ServerRuns

(* FileTransferService::execute for a download returned.                   *)
LEMMA LoadsKeeps ==
    ASSUME Talk, strays = 0, ServerLoads
    PROVE  Talk'
<1>1. RemoteTypes /\ Serving
  BY DEF Talk
<1>2. srv.at = "get" /\ srv.at \in Busy
  BY DEF ServerLoads, Busy
<1>3. cli.op.kind = "get" /\ srv.req.op \in Nat /\ srv.id \in U32
  BY <1>1, <1>2, Parts DEF Serving, Bodies
<1>4. /\ UNCHANGED <<sess, chan, closed, cli, remote, versions, strays, done>>
      /\ remote' \in [there : BOOLEAN, data : Files] /\ versions' \in SUBSET Files
      /\ versions \subseteq versions' /\ chan' \in [Sides -> Seq(SwspFrames)]
      /\ chan'[C] = chan[C]
  BY <1>1 DEF ServerLoads, RemoteTypes
<1>5. VersionsMeant'
  BY <1>4, VersionsKept
<1>6. CASE ServerEnds("failed")
  BY <1>2, <1>4, <1>5, <1>6, DispatcherEnds
<1>7. CASE srv' = [srv EXCEPT !.at = "send",
                       !.out = DownloadFrames(srv.id, srv.req.op, remote.data)]
  <2> DEFINE fs == DownloadFrames(srv.id, srv.req.op, remote.data)
  <2>1. remote.data \in Files
    BY <1>1 DEF RemoteTypes
  <2>2. AnswerShape(fs, srv.id)
    BY <1>3, <2>1, DownloadAnswer
  <2>3. srv' = [srv EXCEPT !.at = "send", !.out = fs]
    BY <1>7
  <2> HIDE DEF fs
  <2> QED
    BY <1>2, <1>3, <1>4, <1>5, <2>2, <2>3, DispatcherAnswers
<1> QED
  BY <1>6, <1>7 DEF ServerLoads

(* collect_data_frames and FileTransferService::execute for an upload: the *)
(* body that is stored is the whole content of the client's file.          *)
LEMMA StoresKeeps ==
    ASSUME Talk, strays = 0, ServerStores
    PROVE  Talk'
<1> DEFINE new == File(srv.got)
           c == Content(cli.op.no, cli.op.size)
<1>1. RemoteTypes /\ Serving /\ Collecting /\ VersionsMeant
  BY DEF Talk
<1>2. srv.at = "store" /\ srv.at \in Busy
  BY DEF ServerStores, Busy
<1>3. /\ cli.op.kind = "put" /\ srv.got = c /\ srv.got \in Files
      /\ srv.req = Body(cli.op.kind, cli.op.no, cli.op.size, cli.op.over)
  BY <1>1, <1>2, Parts DEF Serving, Collecting
<1>4. srv.req.op = cli.op.no /\ cli.op.no \in Nat /\ cli.op.size \in Nat /\ srv.id \in U32
  BY <1>1, <1>3, Parts DEF Body, Ops
<1>5. /\ UNCHANGED <<sess, chan, closed, cli, strays, done>>
      /\ chan' \in [Sides -> Seq(SwspFrames)] /\ chan'[C] = chan[C]
      /\ versions' = IF remote'.there THEN versions \cup {remote'.data} ELSE versions
  BY <1>1 DEF ServerStores, RemoteTypes
<1>6. new.there /\ new.data = c /\ new \in [there : BOOLEAN, data : Files]
  BY <1>3 DEF File
<1>7. NoFile \in [there : BOOLEAN, data : Files] /\ ~ NoFile.there
  BY DEF NoFile, Files
<1> HIDE DEF new, c
<1>8. c \in Files
  BY <1>3
<1>9. ASSUME versions' = versions \/ versions' = versions \cup {c},
             remote'.there => remote'.data \in versions'
      PROVE  VersionsMeant' /\ versions' \in SUBSET Files /\ versions \subseteq versions'
  <2>1. versions' \in SUBSET Files /\ versions \subseteq versions'
    BY <1>1, <1>8, <1>9 DEF RemoteTypes
  <2>2. ASSUME NEW v \in versions' PROVE \E o, n \in Nat : v = Content(o, n) /\ Meant(o, n)'
    <3>1. CASE v \in versions
      <4>1. PICK o \in Nat, n \in Nat : v = Content(o, n) /\ Meant(o, n)
        BY <1>1, <3>1 DEF VersionsMeant
      <4>2. Meant(o, n)'
        BY <1>5, <4>1 DEF Meant
      <4> QED
        BY <4>1, <4>2
    <3>2. CASE v = c
      <4>1. \A o, n \in Nat : o = cli.op.no /\ n = cli.op.size => Meant(o, n)'
        BY <1>5 DEF Meant
      <4>2. v = Content(cli.op.no, cli.op.size)
        BY <3>2 DEF c
      <4> QED
        BY <1>4, <4>1, <4>2
    <3> QED
      BY <1>9, <3>1, <3>2
  <2> QED
    BY <1>9, <2>1, <2>2 DEF VersionsMeant
<1>10. ASSUME remote' \in {remote, NoFile, new}
       PROVE  remote' \in [there : BOOLEAN, data : Files]
  BY <1>1, <1>6, <1>7, <1>10 DEF RemoteTypes
<1>11. CASE remote' = new /\ srv' = [srv EXCEPT !.at = "send",
                                        !.out = UploadFrames(srv.id, srv.req.op)]
  <2> DEFINE fs == UploadFrames(srv.id, srv.req.op)
  <2>1. AnswerShape(fs, srv.id) /\ Len(fs) = 1 /\ fs[1].body.op = cli.op.no
    <3>1. srv.req.op \in Nat /\ "info" \in {"info", "error", "exit"}
      BY <1>4
    <3>2. AnswerShape(fs, srv.id) /\ Len(fs) = 1 /\ fs[1].body.op = srv.req.op
      BY <1>4, <3>1, OneFrameAnswer DEF UploadFrames
    <3> QED
      BY <1>4, <3>2
  <2>2. srv' = [srv EXCEPT !.at = "send", !.out = fs]
    BY <1>11
  <2> HIDE DEF fs
  <2>3. \A i \in 1..Len(fs) : fs[i].body.op = cli.op.no
    BY <2>1
  <2>4. versions' = versions \cup {c} /\ remote'.data \in versions'
    BY <1>5, <1>6, <1>11
  <2>5. Content(cli.op.no, cli.op.size) \in versions'
    BY <2>4 DEF c
  <2> QED
    BY <1>2, <1>5, <1>9, <1>10, <1>11, <2>1, <2>2, <2>3, <2>4, <2>5, DispatcherAnswers
<1>12. CASE remote' \in {remote, NoFile, new} /\ ServerEnds("failed")
  <2>1. /\ versions' = versions \/ versions' = versions \cup {c}
        /\ remote'.there => remote'.data \in versions'
    BY <1>1, <1>5, <1>6, <1>7, <1>12 DEF VersionsMeant
  <2> QED
    BY <1>2, <1>5, <1>9, <1>10, <1>12, <2>1, DispatcherEnds
<1> QED
  BY <1>11, <1>12 DEF ServerStores, new

(* The receive loop is closed and drained.                                 *)
LEMMA DisconnectKeeps ==
    ASSUME Talk, strays = 0, ServerDisconnected \/ ServerShutsDown
    PROVE  Talk'
<1>1. /\ UNCHANGED <<sess, chan, closed, cli, remote, versions, strays, done>>
      /\ remote' \in [there : BOOLEAN, data : Files] /\ versions' \in SUBSET Files
      /\ versions \subseteq versions' /\ chan' \in [Sides -> Seq(SwspFrames)]
      /\ chan'[C] = chan[C]
  BY DEF Talk, RemoteTypes, ServerDisconnected, ServerShutsDown
<1>2. VersionsMeant'
  BY <1>1, VersionsKept
<1>3. srv.at \notin {"ended", "closed"}
  BY DEF ServerDisconnected, ServerShutsDown
<1>4. ServerEnds("done") \/ ServerEnds("failed")
  BY DEF ServerDisconnected, ServerShutsDown
<1>5. CASE ServerEnds("done")
  BY <1>1, <1>2, <1>3, <1>5, DispatcherEnds
<1>6. CASE ServerEnds("failed")
  BY <1>1, <1>2, <1>3, <1>6, DispatcherEnds
<1> QED
  BY <1>4, <1>5, <1>6

(* While the dispatcher works on a request that it has taken as a whole,   *)
(* nothing but the end of the session is on the way to it.                 *)
LEMMA NothingAsked ==
    ASSUME Talk, srv.at \in {"shell", "get", "store", "send"}
    PROVE  /\ \A i \in 1..Len(chan[S]) : Leaves(i)
           /\ \A i \in 1..Len(chan[S]) : chan[S][i] = Fin(0) /\ chan[S][i].flags = {"FIN"}
           /\ C \notin closed => chan[S] = <<>>
<1>1. ASSUME NEW i \in 1..Len(chan[S]) PROVE Leaves(i)
  <2>1. Closes(i) \/ Leaves(i) \/ Asks(i)
    BY DEF Talk, ToServer
  <2> QED
    BY <2>1 DEF Closes, Leaves, Asks, Listening
<1>2. ASSUME NEW i \in 1..Len(chan[S])
      PROVE  chan[S][i] = Fin(0) /\ chan[S][i].flags = {"FIN"}
  BY <1>1, ZeroId, FinFits DEF Leaves
<1>3. ASSUME C \notin closed, chan[S] # <<>> PROVE FALSE
  <2>1. chan[S] \in Seq(SwspFrames)
    BY Parts DEF Talk
  <2>2. 1 \in 1..Len(chan[S])
    BY <1>3, <2>1, Shifted
  <2> QED
    BY <1>1, <1>3, <2>2 DEF Leaves
<1> QED
  BY <1>1, <1>2, <1>3

(* The next frame of an answer goes out, or its send fails.                *)
LEMMA SendsKeeps ==
    ASSUME Talk, strays = 0, ServerSends
    PROVE  Talk'
<1> DEFINE f == Head(srv.out)
<1>1. RemoteTypes /\ Ends /\ Serving /\ Answering /\ ToClient
  BY DEF Talk
<1>2. srv.at = "send" /\ srv.at \in Busy
  BY DEF ServerSends, Busy
<1>3. /\ UNCHANGED <<sess, closed, cli, remote, versions, strays, done>>
      /\ remote' \in [there : BOOLEAN, data : Files] /\ versions' \in SUBSET Files
      /\ versions \subseteq versions'
  BY <1>1 DEF ServerSends, RemoteTypes
<1>4. VersionsMeant'
  BY <1>3, VersionsKept
<1>5. /\ \A i \in 1..Len(chan[S]) : Leaves(i)
      /\ \A i \in 1..Len(chan[S]) : chan[S][i] = Fin(0) /\ chan[S][i].flags = {"FIN"}
      /\ C \notin closed => chan[S] = <<>>
  BY <1>2, NothingAsked
<1>6. /\ srv.out \in Seq(SwspFrames) /\ srv.out # <<>>
      /\ \A i \in 1..Len(srv.out) :
             Answers(srv.out[i]) /\ (Fins(srv.out[i]) <=> i = Len(srv.out))
  BY <1>1, <1>2, Parts DEF Answering
<1>7. /\ f = srv.out[1] /\ f \in SwspFrames /\ Len(srv.out) \in Nat /\ Len(srv.out) >= 1
      /\ 1 \in 1..Len(srv.out)
      /\ Tail(srv.out) \in Seq(SwspFrames) /\ Len(Tail(srv.out)) = Len(srv.out) - 1
      /\ \A i \in 1..Len(Tail(srv.out)) : /\ Tail(srv.out)[i] = srv.out[i + 1]
                                          /\ i + 1 \in 1..Len(srv.out)
  BY <1>6, Shifted
<1>8. S \notin closed
  BY <1>1, <1>2 DEF Ends
<1> HIDE DEF f
<1>9. CASE ServerEnds("failed") /\ UNCHANGED chan
  <2>1. chan' \in [Sides -> Seq(SwspFrames)] /\ chan'[C] = chan[C]
    BY <1>1, <1>9 DEF RemoteTypes
  <2> QED
    BY <1>2, <1>3, <1>4, <1>9, <2>1, DispatcherEnds
<1>10. CASE /\ chan' = Put(S, <<f>>)
            /\ srv' = [srv EXCEPT !.out = Tail(@),
                                  !.at = IF Len(srv.out) = 1 THEN "loop" ELSE @]
  <2>1. /\ srv' \in Dispatchers /\ srv'.at \in {"loop", "send"} /\ srv'.out = Tail(srv.out)
        /\ srv'.at = "loop" <=> Len(srv.out) = 1
        /\ srv'.id = srv.id /\ srv'.req = srv.req /\ srv'.why = srv.why
    BY <1>1, <1>2, <1>7, <1>10 DEF RemoteTypes, Dispatchers, Busy
  <2>2. /\ chan' \in [Sides -> Seq(SwspFrames)] /\ chan'[S] = chan[S]
        /\ chan'[C] = IF C \in closed THEN chan[C] ELSE chan[C] \o <<f>>
    <3>1. chan \in [Sides -> Seq(SwspFrames)] /\ <<f>> \in Seq(SwspFrames)
      BY <1>1, <1>7, OneFrame DEF RemoteTypes
    <3>2. chan[C] \in Seq(SwspFrames) /\ chan[C] \o <<f>> \in Seq(SwspFrames)
      BY <3>1, TwoSides, ConcatProperties
    <3>3. chan' = [chan EXCEPT ![C] = IF C \in closed THEN @ ELSE @ \o <<f>>]
      BY <1>10, TwoSides DEF Put
    <3> QED
      BY <3>1, <3>2, <3>3, TwoSides
  <2>3. RemoteTypes'
    BY <1>1, <1>3, <2>1, <2>2 DEF RemoteTypes
  <2>4. Ends'
    <3>1. \A x \in Sides : x \in closed => chan'[x] = chan[x]
      BY <1>8, <2>2, TwoSides
    <3> QED
      BY <1>1, <1>2, <1>3, <2>1, <3>1 DEF Ends
  <2>5. cli.at # "send" /\ cli.at # "idle" /\ srv.id = cli.id /\ cli.id \in Streams(S)
    BY <1>1, <1>2 DEF Serving
  <2>6. ToServer'
    BY <1>3, <1>5, <2>2 DEF ToServer, Leaves
  <2>7. Aligned'
    <3>1. \A i \in 1..Len(chan'[S]) : "DAT" \notin chan'[S][i].flags
      BY <1>5, <2>2
    <3> QED
      BY <1>3, <2>1, <2>5, <3>1 DEF Aligned
  <2>8. Serving' /\ Collecting'
    BY <1>1, <1>2, <1>3, <2>1 DEF Serving, Collecting, Streams, Busy
  <2>9. Answering'
    <3> SUFFICES ASSUME srv'.at = "send"
                 PROVE  /\ srv'.out # <<>>
                        /\ \A i \in 1..Len(srv'.out) :
                               /\ Answers(srv.out[i])'
                               /\ Fins(srv'.out[i]) <=> i = Len(srv'.out)
      BY DEF Answering, Fins
    <3>1. Len(srv.out) # 1
      BY <2>1
    <3>2. srv'.out # <<>>
      <4>1. Len(Tail(srv.out)) # 0
        BY <1>7, <3>1
      <4>2. Len(srv'.out) # 0
        BY <2>1, <4>1
      <4> QED
        BY <4>2
    <3>3. ASSUME NEW i \in 1..Len(srv'.out)
          PROVE  Answers(srv.out[i])' /\ (Fins(srv'.out[i]) <=> i = Len(srv'.out))
      <4>1. srv'.out[i] = srv.out[i + 1] /\ i + 1 \in 1..Len(srv.out)
        BY <1>7, <2>1
      <4>2. i = Len(srv'.out) <=> i + 1 = Len(srv.out)
        BY <1>7, <2>1
      <4>3. Answers(srv.out[i + 1]) /\ (Fins(srv.out[i + 1]) <=> i + 1 = Len(srv.out))
        BY <1>6, <4>1
      <4> QED
        BY <1>3, <4>1, <4>2, <4>3 DEF Answers, Fins
    <3> QED
      BY <3>2, <3>3
  <2>10. ToClient'
    <3> SUFFICES ASSUME cli.at \in {"idle", "send", "recv"}, NEW i \in 1..Len(chan'[C])
                 PROVE  /\ cli.at = "recv" /\ Answers(chan[C][i])'
                        /\ Fins(chan'[C][i]) => Answered(i)'
      BY <1>3 DEF ToClient, Fins
    <3>1. cli.at = "recv" /\ C \notin closed
      BY <1>1, <2>5 DEF Ends
    <3>2. /\ Len(chan'[C]) = Len(chan[C]) + 1 /\ Len(chan[C]) \in Nat
          /\ \A j \in 1..Len(chan[C]) : chan'[C][j] = chan[C][j]
          /\ chan'[C][Len(chan[C]) + 1] = f
      <4>1. chan[C] \in Seq(SwspFrames) /\ chan'[C] = chan[C] \o <<f>>
        BY <1>1, <2>2, <3>1, Parts
      <4> QED
        BY <1>7, <4>1, Appended
    <3>3. CASE i \in 1..Len(chan[C])
      <4>1. Answers(chan[C][i]) /\ (Fins(chan[C][i]) => Answered(i))
        BY <1>1, <1>8, <3>1, <3>3 DEF ToClient
      <4>2. ~ Fins(chan[C][i])
        BY <1>2, <4>1 DEF Answered
      <4>3. chan'[C][i] = chan[C][i]
        BY <3>2, <3>3
      <4> QED
        BY <1>3, <3>1, <4>1, <4>2, <4>3 DEF Answers, Fins
    <3>4. CASE i = Len(chan[C]) + 1
      <4>1. chan'[C][i] = f /\ Answers(f)
        BY <1>6, <1>7, <3>2, <3>4
      <4>2. Answers(chan[C][i])'
        BY <1>3, <4>1 DEF Answers, Fins
      <4>3. ASSUME Fins(f) PROVE Answered(i)'
        <5>1. Len(srv.out) = 1
          BY <1>6, <1>7, <4>3
        <5>2. srv'.at = "loop" /\ chan'[S] = <<>>
          BY <1>5, <2>1, <2>2, <3>1, <5>1
        <5>3. \A j \in i + 1..Len(chan'[C]) : FALSE
          BY <3>2, <3>4
        <5> QED
          BY <1>3, <2>5, <5>2, <5>3 DEF Answered, Streams, Busy
      <4> QED
        BY <3>1, <4>1, <4>2, <4>3
    <3> QED
      BY <3>2, <3>3, <3>4
  <2>11. ClientSound'
    BY <1>3 DEF Talk, ClientSound, Streams, Asked, Sent
  <2>12. StreamsCorrespond'
    BY <1>2, <1>3, <2>2 DEF Talk, StreamsCorrespond, Streams
  <2>13. NewStreamFree'
    <3>1. \A i \in 1..Len(chan'[S]) : "SYN" \notin chan'[S][i].flags
      BY <1>5, <2>2
    <3> QED
      BY <1>3, <2>5, <3>1 DEF NewStreamFree, Opening
  <2>14. ResultsReal'
    BY <1>3 DEF Talk, ResultsReal, Real
  <2>15. ClientsAreServed'
    BY <1>3, <2>1 DEF Talk, ClientsAreServed
  <2> QED
    BY <1>4, <2>3, <2>4, <2>6, <2>7, <2>8, <2>9, <2>10, <2>11, <2>12, <2>13, <2>14, <2>15
    DEF Talk
<1> QED
  BY <1>9, <1>10 DEF ServerSends, f

(* The frame at the head of the channel to the dispatcher while it reads a *)
(* body: the next one of the request, or the end of the session.           *)
LEMMA NextOfBody ==
    ASSUME Talk, srv.at = "put", chan[S] # <<>>
    PROVE  /\ Lead = 0 /\ Taken + 1 \in Nat
           /\ \/ Leaves(1)
              \/ /\ Taken + 1 \in 1..Sent /\ Taken + 1 \in 1..Len(Asked)
                 /\ chan[S][1] = Asked[Taken + 1]
<1>1. RemoteTypes
  BY DEF Talk
<1>2. 1 \in 1..Len(chan[S])
  BY <1>1, Parts, Shifted
<1>3. /\ Asked \in Seq(SwspFrames) /\ Len(Asked) \in Nat /\ Sent \in Int
      /\ Sent <= Len(Asked) /\ Taken \in Nat /\ Lead \in {0, 1}
  BY <1>1, Places
<1>4. Leaves(1) \/ Asks(1)
  BY <1>2 DEF Talk, ToServer, Closes
<1>5. CASE Leaves(1)
  <2>1. chan[S][1].id = 0
    BY <1>5, ZeroId, FinFits DEF Leaves
  <2> QED
    BY <1>3, <1>5, <2>1 DEF Lead
<1>6. CASE Asks(1)
  <2> DEFINE k == Taken + 1 - Lead
  <2>1. k \in 1..Sent /\ chan[S][1] = Asked[k]
    BY <1>6 DEF Asks
  <2>2. k \in Int /\ k \in 1..Len(Asked)
    BY <1>3, <2>1
  <2> HIDE DEF k
  <2>3. chan[S][1].flags # {"FIN"}
    BY <1>1, <2>1, <2>2, AskedFrames
  <2>4. Lead = 0
    BY <2>3 DEF Lead
  <2>5. k = Taken + 1
    BY <1>3, <2>4 DEF k
  <2> QED
    BY <1>3, <2>1, <2>2, <2>4, <2>5
<1> QED
  BY <1>4, <1>5, <1>6

(* A body grows by the data of its next frame, and is whole at the FIN.    *)
LEMMA BodyGrows ==
    ASSUME Talk, srv.at = "put", NEW k \in 1..Len(Asked), k = Taken + 1
    PROVE  LET f == Asked[k]
               g == srv.got \o Data(f)
           IN  /\ Plain(f) /\ g \in Files
               /\ Fins(f) <=> k = Len(Asked)
               /\ Fins(f) => g = Content(cli.op.no, cli.op.size)
               /\ ~ Fins(f) => g = Content(cli.op.no, Len(g)) /\ Len(g) = Len(srv.got) + 1
<1> DEFINE f == Asked[k]
           g == srv.got \o Data(f)
<1>1. RemoteTypes /\ Serving /\ Collecting
  BY DEF Talk
<1>2. cli.op.kind = "put" /\ srv.got = Content(cli.op.no, Len(srv.got))
  BY <1>1 DEF Serving, Collecting, Busy
<1>3. /\ cli.op.no \in Nat /\ cli.op.size \in Nat /\ cli.op \in Ops
      /\ srv.got \in Files /\ Len(srv.got) \in Nat
  BY <1>1, Parts DEF Ops
<1>4. /\ Len(Asked) \in Nat /\ Len(Asked) = RequestLen(cli.op)
      /\ Taken = 1 + Len(srv.got)
  BY <1>1, Places DEF Taken
<1>5. k \in Nat /\ k >= 2 /\ k = Len(srv.got) + 2
  BY <1>3, <1>4
<1>6. /\ f \in SwspFrames /\ "DAT" \in f.flags /\ ("SYN" \in f.flags <=> k = 1)
      /\ Fins(f) <=> k # 1 /\ k = Len(Asked)
      /\ f.body = RequestBody(cli.op, k)
  BY <1>1, <1>5, AskedFrames
<1>7. Plain(f) /\ (Fins(f) <=> k = Len(Asked))
  BY <1>5, <1>6 DEF Plain
<1> HIDE DEF f
<1>8. CASE cli.op.size = 0
  <2>1. RequestLen(cli.op) = 2
    BY <1>2, <1>8 DEF RequestLen
  <2>2. k = Len(Asked) /\ Len(srv.got) = 0
    BY <1>3, <1>4, <1>5, <2>1
  <2>3. f.body = Empty
    BY <1>5, <1>6, <1>8 DEF RequestBody
  <2>4. Data(f) = <<>>
    BY <2>3, EmptyFits DEF Data
  <2>5. srv.got \in Seq(Nat \X Nat)
    BY <1>3 DEF Files
  <2>6. g = srv.got
    BY <2>4, <2>5, ConcatEmptySeq
  <2>7. srv.got = Content(cli.op.no, cli.op.size)
    BY <1>2, <1>8, <2>2
  <2> QED
    BY <1>3, <1>7, <2>2, <2>6, <2>7 DEF f
<1>9. CASE cli.op.size # 0
  <2> DEFINE n == Len(srv.got)
  <2>1. RequestLen(cli.op) = cli.op.size + 1
    BY <1>2, <1>9 DEF RequestLen
  <2>2. k - 1 = n + 1 /\ n + 1 \in Nat
    BY <1>3, <1>5
  <2>3. f.body = Body("chunk", cli.op.no, n + 1, FALSE)
    <3>1. k # 1
      BY <1>5
    <3>2. RequestBody(cli.op, k) = Body("chunk", cli.op.no, k - 1, FALSE)
      BY <1>9, <3>1 DEF RequestBody
    <3> QED
      BY <1>6, <2>2, <3>2
  <2>4. f.body.what = "chunk" /\ f.body.op = cli.op.no /\ f.body.n = n + 1
    BY <2>3 DEF Body
  <2>5. Data(f) = <<<<cli.op.no, n + 1>>>>
    BY <2>4 DEF Data
  <2>6. g = Content(cli.op.no, n) \o <<<<cli.op.no, n + 1>>>>
    BY <1>2, <2>5
  <2> HIDE DEF g
  <2>7. g = Content(cli.op.no, n + 1)
    BY <1>3, <2>6, ContentGrows
  <2>8. g \in Files /\ Len(g) = n + 1
    BY <1>3, <2>2, <2>7, ContentFits
  <2>9. k = Len(Asked) => n + 1 = cli.op.size
    BY <1>3, <1>4, <2>1, <2>2
  <2>10. Fins(f) => g = Content(cli.op.no, cli.op.size)
    BY <1>7, <2>7, <2>9
  <2>11. g = Content(cli.op.no, Len(g)) /\ Len(g) = Len(srv.got) + 1
    BY <2>7, <2>8
  <2> QED
    BY <1>7, <2>8, <2>10, <2>11 DEF f, g
<1> QED
  BY <1>8, <1>9

(* The dispatcher takes the first frame of its channel.                    *)
LEMMA TakesFirst ==
    ASSUME RemoteTypes, chan[S] # <<>>, chan' = [chan EXCEPT ![S] = Tail(@)]
    PROVE  /\ chan' \in [Sides -> Seq(SwspFrames)] /\ chan'[C] = chan[C]
           /\ Len(chan'[S]) = Len(chan[S]) - 1 /\ Len(chan[S]) \in Nat /\ Len(chan[S]) >= 1
           /\ chan'[S] \in Seq(SwspFrames)
           /\ \A i \in 1..Len(chan'[S]) : /\ chan'[S][i] = chan[S][i + 1]
                                          /\ i + 1 \in 1..Len(chan[S])
           /\ Head(chan[S]) = chan[S][1] /\ chan[S][1] \in SwspFrames /\ 1 \in 1..Len(chan[S])
<1>1. chan \in [Sides -> Seq(SwspFrames)] /\ chan[S] \in Seq(SwspFrames)
  BY Parts DEF RemoteTypes
<1>2. /\ Head(chan[S]) = chan[S][1] /\ chan[S][1] \in SwspFrames /\ Len(chan[S]) \in Nat
      /\ Len(chan[S]) >= 1 /\ 1 \in 1..Len(chan[S])
      /\ Tail(chan[S]) \in Seq(SwspFrames) /\ Len(Tail(chan[S])) = Len(chan[S]) - 1
      /\ \A i \in 1..Len(Tail(chan[S])) : /\ Tail(chan[S])[i] = chan[S][i + 1]
                                          /\ i + 1 \in 1..Len(chan[S])
  BY <1>1, Shifted
<1>3. /\ chan' \in [Sides -> Seq(SwspFrames)] /\ chan'[C] = chan[C]
      /\ chan'[S] = Tail(chan[S])
  BY <1>1, <1>2, TwoSides
<1> QED
  BY <1>2, <1>3

(* Behind the first frame there is no end of an earlier stream.            *)
LEMMA NoSecondLead ==
    ASSUME Talk, srv.at \notin {"ended", "closed"}, chan[S] # <<>>,
           chan' = [chan EXCEPT ![S] = Tail(@)]
    PROVE  Lead' = 0
<1>1. RemoteTypes
  BY DEF Talk
<1>2. /\ chan'[S] \in Seq(SwspFrames)
      /\ \A i \in 1..Len(chan'[S]) : /\ chan'[S][i] = chan[S][i + 1]
                                     /\ i + 1 \in 1..Len(chan[S])
  BY <1>1, TakesFirst
<1>3. CASE chan'[S] = <<>>
  BY <1>3 DEF Lead
<1>4. CASE chan'[S] # <<>>
  <2>1. 1 \in 1..Len(chan'[S])
    BY <1>2, <1>4, Shifted
  <2>2. chan'[S][1] = chan[S][2] /\ 2 \in 1..Len(chan[S])
    BY <1>2, <2>1
  <2>3. Leaves(2) \/ Asks(2)
    BY <2>2 DEF Talk, ToServer, Closes
  <2>4. CASE Leaves(2)
    <3>1. chan[S][2].id = 0
      BY <2>4, ZeroId, FinFits DEF Leaves
    <3> QED
      BY <2>2, <3>1 DEF Lead
  <2>5. CASE Asks(2)
    <3> DEFINE k == Taken + 2 - Lead
    <3>1. k \in 1..Sent /\ chan[S][2] = Asked[k]
      BY <2>5 DEF Asks
    <3>2. k \in Int /\ k \in 1..Len(Asked)
      BY <1>1, <3>1, Places
    <3> HIDE DEF k
    <3>3. chan[S][2].flags # {"FIN"}
      BY <1>1, <3>1, <3>2, AskedFrames
    <3> QED
      BY <2>2, <3>3 DEF Lead
  <2> QED
    BY <2>3, <2>4, <2>5
<1> QED
  BY <1>3, <1>4

(* dispatch_file takes a frame of a body.                                  *)
LEMMA CollectsKeeps ==
    ASSUME Talk, strays = 0, ServerCollects
    PROVE  Talk'
<1> DEFINE f == chan[S][1]
           k == Taken + 1
           g == srv.got \o Data(f)
<1>1. RemoteTypes /\ Ends /\ Serving /\ Collecting /\ ToServer /\ Aligned /\ ToClient /\ ClientSound
  BY DEF Talk
<1>2. srv.at = "put" /\ srv.at \in Busy /\ chan[S] # <<>>
  BY DEF ServerCollects, Busy
<1>3. /\ UNCHANGED <<sess, closed, cli, remote, versions, strays, done>>
      /\ remote' \in [there : BOOLEAN, data : Files] /\ versions' \in SUBSET Files
      /\ versions \subseteq versions' /\ chan' = [chan EXCEPT ![S] = Tail(@)]
  BY <1>1 DEF ServerCollects, RemoteTypes
<1>4. VersionsMeant'
  BY <1>3, VersionsKept
<1>5. /\ chan' \in [Sides -> Seq(SwspFrames)] /\ chan'[C] = chan[C]
      /\ Len(chan'[S]) = Len(chan[S]) - 1 /\ Len(chan[S]) \in Nat /\ Len(chan[S]) >= 1
      /\ \A i \in 1..Len(chan'[S]) : /\ chan'[S][i] = chan[S][i + 1]
                                     /\ i + 1 \in 1..Len(chan[S])
      /\ Head(chan[S]) = f /\ f \in SwspFrames /\ 1 \in 1..Len(chan[S])
  BY <1>1, <1>2, <1>3, TakesFirst
<1>6. /\ Lead = 0 /\ k \in Nat
      /\ Leaves(1) \/ (k \in 1..Sent /\ k \in 1..Len(Asked) /\ f = Asked[k])
  BY <1>2, NextOfBody
<1>7. Lead = 0
  BY <1>6, Zenon
<1>8. /\ srv.id = cli.id /\ cli.id # 0 /\ cli.op.kind = "put" /\ cli.at # "idle"
      /\ cli.id \in Streams(S)
  BY <1>1, <1>2, StreamIds DEF Serving
<1>9. /\ Len(Asked) \in Nat /\ Sent \in Int /\ Sent <= Len(Asked) /\ Taken \in Nat
      /\ Sent = Len(Asked) - Len(cli.left) /\ Len(cli.left) \in Nat
      /\ Taken = 1 + Len(srv.got) /\ Len(srv.got) \in Nat
  BY <1>1, <1>2, Places, Parts DEF Taken
<1>10. Lead' = 0
  BY <1>2, <1>3, NoSecondLead
<1> HIDE DEF f, k, g
<1>11. CASE f.id # srv.id
  <2>1. ServerEnds("protocol")
    BY <1>5, <1>11 DEF ServerCollects
  <2>2. Leaves(1)
    <3>1. ASSUME k \in 1..Len(Asked), f = Asked[k] PROVE FALSE
      <4>1. f.id = cli.id
        BY <1>1, <1>6, <3>1, AskedFrames
      <4> QED
        BY <1>8, <1>11, <4>1
    <3> QED
      BY <1>6, <3>1
  <2>3. f.id = 0 /\ C \in closed
    BY <2>2, ZeroId, FinFits DEF Leaves, f
  <2>4. Taken + 1 - 1 - Lead = Sent
    BY <1>1, <1>2, <1>5, <2>3 DEF Aligned, Listening, f
  <2>5. Taken < Len(Asked)
    BY <1>1, <1>2 DEF Collecting
  <2>6. Len(cli.left) # 0
    <3>1. Taken + 1 - 1 - Lead = Taken
      BY <1>9, <1>7
    <3>2. Taken = Sent
      BY <2>4, <3>1
    <3> QED
      BY <1>9, <2>5, <3>2
  <2>7. cli.left # <<>> /\ cli.at = "closed"
    BY <1>1, <2>3, <2>6 DEF Ends
  <2>8. done # <<>> /\ ~ done[Len(done)].ok /\ done[Len(done)].op = cli.op
    BY <1>1, <2>7 DEF ClientSound
  <2>9. Len(done) \in 1..Len(done)
    <3>1. done \in Seq(Results)
      BY <1>1, Parts
    <3> QED
      BY <2>8, <3>1
  <2>10. \E i \in 1..Len(done) : ~ done[i].ok /\ done[i].op.kind = "put"
    BY <1>8, <2>8, <2>9
  <2> QED
    BY <1>2, <1>3, <1>4, <1>5, <2>1, <2>10, DispatcherEnds
<1>12. CASE f.id = srv.id
  <2>1. srv' = [srv EXCEPT !.got = @ \o Data(f), !.plain = @ /\ Plain(f),
                           !.at = IF Fins(f) THEN "store" ELSE @]
    BY <1>5, <1>12 DEF ServerCollects
  <2>2. k \in 1..Sent /\ k \in 1..Len(Asked) /\ f = Asked[k]
    <3>1. ASSUME Leaves(1) PROVE FALSE
      <4>1. f.id = 0
        BY <3>1, ZeroId, FinFits DEF Leaves, f
      <4> QED
        BY <1>8, <1>12, <4>1
    <3> QED
      BY <1>6, <3>1
  <2>3. /\ Plain(f) /\ g \in Files
        /\ Fins(f) <=> k = Len(Asked)
        /\ Fins(f) => g = Content(cli.op.no, cli.op.size)
        /\ ~ Fins(f) => g = Content(cli.op.no, Len(g)) /\ Len(g) = Len(srv.got) + 1
    BY <1>2, <2>2, BodyGrows DEF g, k
  <2>4. srv.plain = TRUE
    BY <1>1, <1>2 DEF Collecting
  <2>5. /\ srv' \in Dispatchers /\ srv'.at = (IF Fins(f) THEN "store" ELSE "put")
        /\ srv'.got = g /\ srv'.plain
        /\ srv'.id = srv.id /\ srv'.req = srv.req /\ srv'.why = srv.why
    BY <1>1, <1>2, <2>1, <2>3, <2>4 DEF RemoteTypes, Dispatchers, Busy, g
  <2>6. srv'.at \in Busy /\ srv'.at \in {"put", "store"}
    BY <2>5 DEF Busy
  <2>7. Asked' = Asked /\ Sent' = Sent
    BY <1>3 DEF Asked, Sent
  <2>8. Taken' = IF Fins(f) THEN 0 ELSE Taken + 1
    BY <1>9, <2>3, <2>5 DEF Taken
  <2>9. "DAT" \in f.flags
    BY <2>3 DEF Plain
  <2>10. RemoteTypes'
    BY <1>1, <1>3, <1>5, <2>5 DEF RemoteTypes
  <2>11. Ends'
    <3>1. S \notin closed /\ \A x \in Sides : x \in closed => chan'[x] = chan[x]
      BY <1>1, <1>2, <1>5, TwoSides DEF Ends
    <3> QED
      BY <1>1, <1>2, <1>3, <2>6, <3>1 DEF Ends
  <2>12. ToServer'
    <3> SUFFICES ASSUME NEW i \in 1..Len(chan'[S]) PROVE Leaves(i)' \/ Asks(i)'
      BY DEF ToServer
    <3>1. chan'[S][i] = chan[S][i + 1] /\ i + 1 \in 1..Len(chan[S]) /\ i \in Nat
      BY <1>5
    <3>2. Leaves(i + 1) \/ Asks(i + 1)
      BY <1>1, <1>2, <3>1 DEF ToServer, Closes
    <3>3. CASE Leaves(i + 1)
      <4>1. i = Len(chan'[S])
        BY <1>5, <3>1, <3>3 DEF Leaves
      <4> QED
        BY <1>3, <3>1, <3>3, <4>1 DEF Leaves
    <3>4. CASE Asks(i + 1)
      <4>1. Taken + (i + 1) - Lead \in 1..Sent /\ chan[S][i + 1] = Asked[Taken + (i + 1) - Lead]
        BY <3>4 DEF Asks
      <4>2. Taken + (i + 1) - Lead = Taken + 1 + i
        <5>1. Taken \in Nat /\ i \in Nat /\ Lead = 0
          BY <1>9, <1>7, <3>1
        <5> QED
          BY <5>1
      <4>3. ~ Fins(f)
        BY <1>9, <2>3, <3>1, <4>1, <4>2 DEF k
      <4>4. Taken' = Taken + 1 /\ srv'.at = "put"
        BY <2>5, <2>8, <4>3
      <4>5. Taken' + i - Lead' = Taken + 1 + i
        BY <1>9, <1>10, <3>1, <4>4
      <4> QED
        BY <1>3, <1>8, <2>7, <3>1, <4>1, <4>2, <4>4, <4>5 DEF Asks, Listening
    <3> QED
      BY <3>2, <3>3, <3>4
  <2>13. Aligned'
    <3> SUFFICES ASSUME Listening'
                 PROVE  /\ C \notin closed => Taken' + Len(chan'[S]) - Lead' = Sent
                        /\ \A i \in 1..Len(chan'[S]) :
                               chan'[S][i].id = 0 => Taken' + i - 1 - Lead' = Sent
      BY <1>3, <2>7 DEF Aligned
    <3>1. Taken' = Taken + 1
      BY <2>5, <2>8 DEF Listening
    <3>2. /\ C \notin closed => Taken + Len(chan[S]) - Lead = Sent
          /\ \A i \in 1..Len(chan[S]) : chan[S][i].id = 0 => Taken + i - 1 - Lead = Sent
      BY <1>1, <1>2 DEF Aligned, Listening
    <3>3. ASSUME C \notin closed PROVE Taken' + Len(chan'[S]) - Lead' = Sent
      <4>1. /\ Taken \in Nat /\ Len(chan[S]) \in Nat /\ Len(chan'[S]) = Len(chan[S]) - 1
            /\ Taken' = Taken + 1 /\ Lead' = 0 /\ Lead = 0
        BY <1>5, <1>9, <1>10, <1>7, <3>1
      <4>2. Taken + Len(chan[S]) - Lead = Sent
        BY <3>2, <3>3
      <4> DEFINE n == Len(chan[S])
                 m == Len(chan'[S])
      <4>3. n \in Nat /\ m = n - 1 /\ Taken + n - 0 = Sent
        BY <4>1, <4>2
      <4> HIDE DEF n, m
      <4>4. Taken + 1 + m - 0 = Sent
        BY <4>1, <4>3
      <4> QED
        BY <4>1, <4>4 DEF m
    <3>4. ASSUME NEW i \in 1..Len(chan'[S]), chan'[S][i].id = 0
          PROVE  Taken' + i - 1 - Lead' = Sent
      <4>1. chan[S][i + 1].id = 0 /\ i + 1 \in 1..Len(chan[S])
        BY <1>5, <3>4
      <4>2. Taken + (i + 1) - 1 - Lead = Sent
        BY <3>2, <4>1
      <4>3. i \in Int /\ Taken \in Int /\ Lead' = 0 /\ Lead = 0 /\ Taken' = Taken + 1
        BY <1>9, <1>10, <1>7, <3>1
      <4>4. Taken + 1 + i - 1 - 0 = Taken + (i + 1) - 1 - 0
        BY ONLY <4>3
      <4> QED
        BY ONLY <4>2, <4>3, <4>4
    <3> QED
      BY <3>3, <3>4
  <2>14. Serving'
    <3>1. Fins(f) => cli.at # "send"
      <4>1. Fins(f) => Len(cli.left) = 0
        BY <1>9, <2>2, <2>3
      <4>2. cli.at = "send" => cli.left # <<>>
        BY <1>1 DEF ClientSound
      <4>3. cli.left \in Seq(SwspFrames)
        BY <1>1, Parts
      <4> QED
        BY <4>1, <4>2, <4>3
    <3>2. /\ cli.at # "idle" /\ srv.id = cli.id /\ cli.id \in Streams(S)
          /\ srv.req = Body(cli.op.kind, cli.op.no, cli.op.size, cli.op.over)
      BY <1>1, <1>2 DEF Serving
    <3> QED
      BY <1>3, <1>8, <2>5, <3>1, <3>2 DEF Serving, Streams
  <2>15. Collecting'
    <3>1. CASE Fins(f)
      BY <1>3, <2>3, <2>5, <3>1 DEF Collecting
    <3>2. CASE ~ Fins(f)
      <4>1. Taken' < Len(Asked)
        BY <1>9, <2>2, <2>3, <2>8, <3>2 DEF k
      <4> QED
        BY <1>3, <2>3, <2>5, <2>7, <3>2, <4>1 DEF Collecting
    <3> QED
      BY <3>1, <3>2
  <2>16. Answering' /\ NewStreamFree'
    BY <2>6 DEF Answering, NewStreamFree
  <2>17. ToClient'
    <3>1. ASSUME NEW i \in 1..Len(chan[C]), Answered(i) PROVE FALSE
      BY <1>2, <3>1 DEF Answered
    <3>2. ASSUME NEW i \in 1..Len(chan[C]), Answers(chan[C][i]) PROVE Answers(chan[C][i])'
      BY <1>3, <1>5, <3>2 DEF Answers, Fins
    <3> QED
      BY <1>1, <1>3, <1>5, <3>1, <3>2 DEF ToClient, Fins
  <2>18. ClientSound'
    BY <1>1, <1>3, <2>7 DEF ClientSound, Streams
  <2>19. StreamsCorrespond'
    <3> SUFFICES ASSUME cli.at \in {"idle", "send", "recv"}, NEW id \in Streams(S)
                 PROVE  id \in Streams(C) \/ \E i \in 1..Len(chan'[S]) : chan'[S][i] = Fin(id)
      BY <1>3 DEF StreamsCorrespond, Streams
    <3>1. CASE \E i \in 1..Len(chan[S]) : chan[S][i] = Fin(id)
      <4>1. PICK i \in 1..Len(chan[S]) : chan[S][i] = Fin(id)
        BY <3>1
      <4>2. id \in U32
        BY <1>1, StreamIds
      <4>3. chan[S][i].flags = {"FIN"}
        BY <4>1, <4>2, FinFits
      <4>4. i # 1
        BY <2>9, <4>3 DEF f
      <4>5. i - 1 \in 1..Len(chan'[S]) /\ (i - 1) + 1 = i
        BY <1>5, <4>4
      <4>6. chan'[S][i - 1] = Fin(id)
        BY <1>5, <4>1, <4>5
      <4> QED
        BY <4>5, <4>6
    <3> QED
      BY <1>2, <3>1 DEF Talk, StreamsCorrespond
  <2>20. ResultsReal'
    BY <1>3 DEF Talk, ResultsReal, Real
  <2>21. ClientsAreServed'
    BY <1>3, <2>5 DEF Talk, ClientsAreServed
  <2> QED
    BY <1>4, <2>10, <2>11, <2>12, <2>13, <2>14, <2>15, <2>16, <2>17, <2>18, <2>19, <2>20, <2>21
    DEF Talk
<1> QED
  BY <1>11, <1>12

(* The frame at the head of the channel to a dispatcher between two        *)
(* requests: the end of the stream before, the end of the session, or the  *)
(* opener of the client's request.                                         *)
Opener(f) ==
    /\ Lead = 0 /\ Sent >= 1 /\ cli.at # "idle"
    /\ f.id = cli.id /\ f.id # 0 /\ f.flags = {"SYN", "DAT"}
    /\ f.body = Body(cli.op.kind, cli.op.no, cli.op.size, cli.op.over)

(* The frame serve_session_collected takes next ends a stream that it has, *)
(* ends the session, or opens the client's operation.                      *)
LEMMA NextAtLoop ==
    ASSUME Talk, srv.at = "loop", chan[S] # <<>>
    PROVE  LET f == chan[S][1]
           IN  /\ Taken = 0
               /\ \/ f = Fin(f.id) /\ f.id \in Streams(S) /\ f.id # 0 /\ f.flags = {"FIN"} /\ Lead = 1
                  \/ f.id = 0 /\ f.flags = {"FIN"}
                  \/ Opener(f)
<1> DEFINE f == chan[S][1]
<1>1. RemoteTypes /\ Aligned
  BY DEF Talk
<1>2. 1 \in 1..Len(chan[S]) /\ f \in SwspFrames
  BY <1>1, Parts, Shifted
<1>3. /\ Asked \in Seq(SwspFrames) /\ Len(Asked) \in Nat /\ Len(Asked) >= 1 /\ Sent \in Int
      /\ Sent <= Len(Asked) /\ Lead \in {0, 1}
  BY <1>1, Places
<1>4. Taken = 0
  BY DEF Taken
<1>5. Closes(1) \/ Leaves(1) \/ Asks(1)
  BY <1>2 DEF Talk, ToServer
<1> HIDE DEF f
<1>6. CASE Closes(1)
  <2>1. f = Fin(f.id) /\ f.id \in Streams(S)
    BY <1>6 DEF Closes, f
  <2>2. f.id \in U32 /\ f.id # 0
    BY <1>1, <2>1, StreamIds
  <2>3. f.flags = {"FIN"}
    BY <2>1, <2>2, FinFits
  <2>4. Lead = 1
    BY <2>2, <2>3 DEF Lead, f
  <2> QED
    BY <1>4, <2>1, <2>2, <2>3, <2>4 DEF f
<1>7. CASE Leaves(1)
  <2>1. f.id = 0 /\ f.flags = {"FIN"}
    BY <1>7, ZeroId, FinFits DEF Leaves, f
  <2> QED
    BY <1>4, <2>1 DEF f
<1>8. CASE Asks(1)
  <2>1. /\ Taken + 1 - Lead \in 1..Sent /\ f = Asked[Taken + 1 - Lead] /\ cli.at # "idle"
    BY <1>8 DEF Asks, f
  <2>2. Lead = 0
    BY <1>3, <1>4, <2>1
  <2>3. Sent >= 1 /\ f = Asked[1]
    BY <1>3, <1>4, <2>1, <2>2
  <2>4. 1 \in 1..Len(Asked)
    BY <1>3
  <2>5. f.id = cli.id /\ f.flags = {"SYN", "DAT"} /\ f.body = RequestBody(cli.op, 1)
    BY <1>1, <2>3, <2>4, AskedFrames
  <2>6. f.body = Body(cli.op.kind, cli.op.no, cli.op.size, cli.op.over)
    BY <2>5 DEF RequestBody
  <2>7. f.id # 0
    <3>1. SUFFICES ASSUME f.id = 0 PROVE FALSE
      OBVIOUS
    <3>2. "DAT" \in chan[S][1].flags /\ Listening
      BY <2>5 DEF f, Listening
    <3>3. Taken + 1 - 1 - Lead = Sent
      BY <1>1, <1>2, <3>1, <3>2 DEF Aligned, f
    <3> QED
      BY <1>3, <1>4, <2>2, <2>3, <3>3
  <2>8. Opener(f)
    BY <2>1, <2>2, <2>3, <2>5, <2>6, <2>7 DEF Opener
  <2> QED
    BY <1>4, <2>8 DEF f
<1> QED
  BY <1>5, <1>6, <1>7, <1>8

(* The dispatcher forgets a stream at its FIN.                             *)
LEMMA FinKeeps ==
    ASSUME Talk, strays = 0, ServerReceives, Fins(chan[S][1]), chan[S][1].id # 0
    PROVE  Talk'
<1> DEFINE f == chan[S][1]
<1>1. RemoteTypes /\ Ends /\ ToServer /\ Aligned /\ ToClient /\ ClientSound /\ NewStreamFree
  BY DEF Talk
<1>2. srv.at = "loop" /\ chan[S] # <<>>
  BY DEF ServerReceives
<1>3. /\ UNCHANGED <<closed, cli, remote, versions, strays, done>>
      /\ chan' = [chan EXCEPT ![S] = Tail(@)]
  BY <1>1 DEF ServerReceives
<1>4. VersionsMeant'
  BY <1>3, VersionsKept
<1>5. /\ chan' \in [Sides -> Seq(SwspFrames)] /\ chan'[C] = chan[C]
      /\ Len(chan'[S]) = Len(chan[S]) - 1 /\ Len(chan[S]) \in Nat /\ Len(chan[S]) >= 1
      /\ \A i \in 1..Len(chan'[S]) : /\ chan'[S][i] = chan[S][i + 1]
                                     /\ i + 1 \in 1..Len(chan[S])
      /\ Head(chan[S]) = f /\ f \in SwspFrames /\ 1 \in 1..Len(chan[S])
  BY <1>1, <1>2, <1>3, TakesFirst
<1>6. /\ Taken = 0
      /\ f = Fin(f.id) /\ f.id \in Streams(S) /\ f.id # 0 /\ f.flags = {"FIN"} /\ Lead = 1
  BY <1>2, NextAtLoop DEF Opener, Fins
<1>7. Lead' = 0
  BY <1>2, <1>3, NoSecondLead
<1>8. f.id \in U32 /\ sess[S].state = "Ready" /\ Sound(sess[S])
  BY <1>1, <1>2, <1>6, StreamIds, Parts, TwoSides DEF Ends
<1> HIDE DEF f
<1>9. UNCHANGED srv /\ sess' = [sess EXCEPT ![S] = CloseStream(@, f.id).session]
  <2>1. ServerFin(f)
    BY <1>5, <1>6 DEF ServerReceives, Fins, f
  <2> QED
    BY <1>6, <2>1 DEF ServerFin, Streams
<1>10. /\ Sound(sess'[S]) /\ sess'[S].state = "Ready" /\ sess'[C] = sess[C]
       /\ Live(sess'[S].registry) = Streams(S) \ {f.id}
       /\ sess' \in [Sides -> Sessions] /\ \A x \in Sides : Sound(sess'[x])
  <2> DEFINE t == CloseStream(sess[S], f.id).session
  <2>1. /\ Sound(t) /\ t.state = "Ready"
        /\ Live(t.registry) = Live(sess[S].registry) \ {f.id}
    BY <1>8, CloseStreamFits
  <2>2. t \in Sessions
    BY <2>1 DEF Sound
  <2>3. sess \in [Sides -> Sessions] /\ \A x \in Sides : Sound(sess[x])
    BY <1>1 DEF RemoteTypes
  <2>4. sess' = [sess EXCEPT ![S] = t]
    BY <1>9
  <2> HIDE DEF t
  <2>5. sess'[S] = t /\ sess'[C] = sess[C] /\ sess' \in [Sides -> Sessions]
    BY <2>2, <2>3, <2>4, TwoSides
  <2>6. \A x \in Sides : x = S \/ x = C
    BY TwoSides
  <2>7. \A x \in Sides : Sound(sess'[x])
    BY <2>1, <2>3, <2>5, <2>6
  <2> QED
    BY <2>1, <2>5, <2>7 DEF Streams
<1>11. Streams(S)' = Streams(S) \ {f.id} /\ Streams(C)' = Streams(C)
  BY <1>10 DEF Streams, S, C
<1>12. Asked' = Asked /\ Sent' = Sent /\ Taken' = 0 /\ Listening' = Listening /\ Sent \in Int
  BY <1>1, <1>2, <1>3, <1>9, Places DEF Asked, Sent, Taken, Listening
<1>13. RemoteTypes'
  BY <1>1, <1>3, <1>5, <1>9, <1>10 DEF RemoteTypes
<1>14. Ends'
  <2>1. S \notin closed /\ \A x \in Sides : x \in closed => chan'[x] = chan[x]
    BY <1>1, <1>2, <1>5, TwoSides DEF Ends
  <2>2. \A x \in Sides : sess'[x].state = sess[x].state
    BY <1>8, <1>10, TwoSides
  <2> QED
    BY <1>1, <1>2, <1>3, <1>9, <2>1, <2>2 DEF Ends
<1>15. ToServer'
  <2> SUFFICES ASSUME NEW i \in 1..Len(chan'[S]) PROVE Leaves(i)' \/ Asks(i)'
    BY DEF ToServer
  <2>1. chan'[S][i] = chan[S][i + 1] /\ i + 1 \in 1..Len(chan[S]) /\ i \in Nat /\ i >= 1
    BY <1>5
  <2>2. Leaves(i + 1) \/ Asks(i + 1)
    BY <1>1, <1>2, <2>1 DEF ToServer, Closes
  <2>3. CASE Leaves(i + 1)
    <3>1. i = Len(chan'[S])
      BY <1>5, <2>1, <2>3 DEF Leaves
    <3> QED
      BY <1>3, <2>1, <2>3, <3>1 DEF Leaves
  <2>4. CASE Asks(i + 1)
    <3>1. /\ Taken + (i + 1) - Lead \in 1..Sent /\ cli.at # "idle"
          /\ chan[S][i + 1] = Asked[Taken + (i + 1) - Lead]
      BY <2>4 DEF Asks
    <3>2. Taken + (i + 1) - Lead = i /\ Taken' + i - Lead' = i
      BY <1>6, <1>7, <1>12, <2>1
    <3> QED
      BY <1>2, <1>3, <1>9, <1>12, <2>1, <3>1, <3>2 DEF Asks, Listening
  <2> QED
    BY <2>2, <2>3, <2>4
<1>16. Aligned'
  <2> SUFFICES ASSUME cli.at = "send" \/ \E i \in 1..Len(chan'[S]) : "DAT" \in chan'[S][i].flags
               PROVE  /\ C \notin closed => Taken' + Len(chan'[S]) - Lead' = Sent
                      /\ \A i \in 1..Len(chan'[S]) :
                             chan'[S][i].id = 0 => Taken' + i - 1 - Lead' = Sent
    BY <1>2, <1>3, <1>9, <1>12 DEF Aligned
  <2>1. /\ C \notin closed => Taken + Len(chan[S]) - Lead = Sent
        /\ \A i \in 1..Len(chan[S]) : chan[S][i].id = 0 => Taken + i - 1 - Lead = Sent
    <3>1. cli.at = "send" \/ \E i \in 1..Len(chan[S]) : "DAT" \in chan[S][i].flags
      BY <1>5
    <3> QED
      BY <1>1, <1>2, <3>1 DEF Aligned, Listening
  <2> DEFINE n == Len(chan[S])
             m == Len(chan'[S])
  <2>2. n \in Nat /\ m = n - 1
    BY <1>5
  <2>3. C \notin closed => 0 + n - 1 = Sent
    BY <1>6, <2>1
  <2>4. ASSUME NEW i \in 1..m, chan'[S][i].id = 0 PROVE 0 + i - 1 - 0 = Sent
    <3>1. chan[S][i + 1].id = 0 /\ i + 1 \in 1..Len(chan[S])
      BY <1>5, <2>4
    <3>2. 0 + (i + 1) - 1 - 1 = Sent
      BY <1>6, <2>1, <3>1
    <3> QED
      BY <2>2, <3>2
  <2> HIDE DEF n, m
  <2>5. C \notin closed => 0 + m - 0 = Sent
    BY <2>2, <2>3
  <2> QED
    BY <1>7, <1>12, <2>4, <2>5 DEF m
<1>17. Serving' /\ Collecting' /\ Answering'
  BY <1>2, <1>9 DEF Serving, Collecting, Answering, Busy
<1>18. ToClient'
  <2>1. ASSUME NEW i \in 1..Len(chan[C]), Answered(i) PROVE FALSE
    BY <1>2, <2>1 DEF Answered
  <2>2. ASSUME NEW i \in 1..Len(chan[C]), Answers(chan[C][i]) PROVE Answers(chan[C][i])'
    BY <1>3, <1>5, <2>2 DEF Answers, Fins
  <2> QED
    BY <1>1, <1>3, <1>5, <2>1, <2>2 DEF ToClient, Fins
<1>19. ClientSound'
  BY <1>1, <1>3, <1>11, <1>12 DEF ClientSound
<1>20. StreamsCorrespond'
  <2> SUFFICES ASSUME cli.at \in {"idle", "send", "recv"}, NEW id \in Streams(S), id # f.id
               PROVE  id \in Streams(C) \/ \E i \in 1..Len(chan'[S]) : chan'[S][i] = Fin(id)
    BY <1>3, <1>11 DEF StreamsCorrespond
  <2>1. CASE \E i \in 1..Len(chan[S]) : chan[S][i] = Fin(id)
    <3>1. PICK i \in 1..Len(chan[S]) : chan[S][i] = Fin(id)
      BY <2>1
    <3>2. id \in U32
      BY <1>1, StreamIds
    <3>3. chan[S][i].id = id
      BY <3>1, <3>2, FinFits
    <3>4. i # 1
      BY <3>3 DEF f
    <3>5. i - 1 \in 1..Len(chan'[S]) /\ (i - 1) + 1 = i
      BY <1>5, <3>4
    <3>6. chan'[S][i - 1] = Fin(id)
      BY <1>5, <3>1, <3>5
    <3> QED
      BY <3>5, <3>6
  <2> QED
    BY <1>2, <2>1 DEF Talk, StreamsCorrespond
<1>21. NewStreamFree'
  <2> SUFFICES ASSUME Opening', cli.id \in Streams(S), cli.id # f.id PROVE FALSE
    BY <1>3, <1>11 DEF NewStreamFree
  <2>1. Opening
    <3>1. (\E i \in 1..Len(chan'[S]) : "SYN" \in chan'[S][i].flags)
              => \E i \in 1..Len(chan[S]) : "SYN" \in chan[S][i].flags
      BY <1>5
    <3> QED
      BY <1>3, <1>12, <3>1 DEF Opening
  <2> QED
    BY <1>1, <1>2, <2>1 DEF NewStreamFree, f
<1>22. ResultsReal'
  BY <1>3 DEF Talk, ResultsReal, Real
<1>23. ClientsAreServed'
  BY <1>3, <1>9 DEF Talk, ClientsAreServed
<1> QED
  BY <1>4, <1>13, <1>14, <1>15, <1>16, <1>17, <1>18, <1>19, <1>20, <1>21, <1>22, <1>23 DEF Talk

(* accept_shell_stream and accept_file_stream never refuse the opener of a *)
(* client: the id is free when it arrives.                                 *)
LEMMA OpenerKeeps ==
    ASSUME Talk, strays = 0, ServerReceives, Opener(chan[S][1])
    PROVE  Talk'
<1> DEFINE f == chan[S][1]
           kind == IF f.body.what = "shell" THEN "Shell" ELSE "File"
           res == AcceptStream(sess[S], f.id, kind, "/")
<1>1. RemoteTypes /\ Ends /\ ToServer /\ Aligned /\ ToClient /\ ClientSound /\ NewStreamFree
  BY DEF Talk
<1>2. srv.at = "loop" /\ chan[S] # <<>> /\ Taken = 0
  BY DEF ServerReceives, Taken
<1>3. /\ UNCHANGED <<closed, cli, remote, versions, strays, done>>
      /\ chan' = [chan EXCEPT ![S] = Tail(@)]
  BY <1>1 DEF ServerReceives
<1>4. VersionsMeant'
  BY <1>3, VersionsKept
<1>5. /\ chan' \in [Sides -> Seq(SwspFrames)] /\ chan'[C] = chan[C]
      /\ Len(chan'[S]) = Len(chan[S]) - 1 /\ Len(chan[S]) \in Nat /\ Len(chan[S]) >= 1
      /\ \A i \in 1..Len(chan'[S]) : /\ chan'[S][i] = chan[S][i + 1]
                                     /\ i + 1 \in 1..Len(chan[S])
      /\ Head(chan[S]) = f /\ f \in SwspFrames /\ 1 \in 1..Len(chan[S])
  BY <1>1, <1>2, <1>3, TakesFirst
<1>6. /\ Lead = 0 /\ Sent >= 1 /\ cli.at # "idle"
      /\ f.id = cli.id /\ f.id # 0 /\ f.flags = {"SYN", "DAT"}
      /\ f.body = Body(cli.op.kind, cli.op.no, cli.op.size, cli.op.over)
  BY DEF Opener
<1>7. Lead' = 0
  BY <1>2, <1>3, NoSecondLead
<1>8. /\ cli.op.kind \in {"shell", "get", "put"} /\ cli.op.no \in Nat /\ cli.op.size \in Nat
      /\ cli.id \in U32 /\ cli.op \in Ops /\ Len(cli.left) \in Nat
      /\ cli.left \in Seq(SwspFrames)
  BY <1>1, Parts DEF Ops
<1>9. f.body.what = cli.op.kind /\ f.body \in Bodies
  <2>1. f.body \in Bodies
    BY <1>5 DEF SwspFrames
  <2> QED
    BY <1>6, <2>1 DEF Body
<1>10. ServerAccepts(f)
  BY <1>5, <1>6, <1>8, <1>9 DEF ServerReceives, Fins
<1>11. Sound(sess[S]) /\ sess[S].state = "Ready"
  BY <1>1, <1>2, Parts, TwoSides DEF Ends
<1>12. cli.id \in Free(sess[S].registry)
  <2>1. Opening
    BY <1>5, <1>6 DEF Opening
  <2>2. cli.id \notin Streams(S)
    BY <1>1, <1>2, <1>6, <2>1 DEF NewStreamFree
  <2> QED
    BY <1>6, <1>8, <2>2, RegistryConstants DEF Streams, Free, U32
<1> HIDE DEF f
<1>13. /\ Sound(res.session) /\ res.session.state = "Ready" /\ res.ok
       /\ Live(res.session.registry) = Live(sess[S].registry) \cup {cli.id}
  <2>1. kind \in Kinds /\ "/" \in Paths \ {Blank}
    BY RemoteStreamsConstants DEF Blank
  <2> HIDE DEF kind
  <2>2. f.id \in Free(sess[S].registry)
    BY <1>6, <1>12
  <2>3. /\ Sound(res.session) /\ res.session.state = "Ready" /\ res.ok
        /\ Live(res.session.registry) = Live(sess[S].registry) \cup {f.id}
    <3>1. res = AcceptStream(sess[S], f.id, kind, "/")
      OBVIOUS
    <3> HIDE DEF res
    <3> QED
      BY <1>11, <2>1, <2>2, <3>1, AcceptStreamFits
  <2> QED
    BY <1>6, <2>3
<1>14. /\ sess' = [sess EXCEPT ![S] = res.session]
       /\ srv' = [srv EXCEPT !.at = f.body.what, !.id = f.id,
                             !.req = f.body, !.got = <<>>, !.plain = TRUE]
  BY <1>10, <1>13 DEF ServerAccepts
<1> HIDE DEF res, kind
<1>15. /\ sess'[S].state = "Ready" /\ sess'[C] = sess[C]
       /\ Live(sess'[S].registry) = Streams(S) \cup {cli.id}
       /\ sess' \in [Sides -> Sessions] /\ \A x \in Sides : Sound(sess'[x])
  <2>1. res.session \in Sessions
    BY <1>13 DEF Sound
  <2>2. sess \in [Sides -> Sessions] /\ \A x \in Sides : Sound(sess[x])
    BY <1>1 DEF RemoteTypes
  <2>3. sess'[S] = res.session /\ sess'[C] = sess[C] /\ sess' \in [Sides -> Sessions]
    BY <1>14, <2>1, <2>2, TwoSides
  <2>4. \A x \in Sides : x = S \/ x = C
    BY TwoSides
  <2>5. \A x \in Sides : Sound(sess'[x])
    BY <1>13, <2>2, <2>3, <2>4
  <2> QED
    BY <1>13, <2>3, <2>5 DEF Streams
<1>16. Streams(S)' = Streams(S) \cup {cli.id} /\ Streams(C)' = Streams(C)
  BY <1>15 DEF Streams, S, C
<1>17. /\ srv' \in Dispatchers /\ srv'.at = cli.op.kind /\ srv'.id = cli.id
       /\ srv'.req = Body(cli.op.kind, cli.op.no, cli.op.size, cli.op.over)
       /\ srv'.got = <<>> /\ srv'.plain /\ srv'.why = srv.why
  <2>1. <<>> \in Files
    BY DEF Files
  <2>2. srv' \in Dispatchers
    BY <1>1, <1>6, <1>8, <1>9, <1>14, <2>1 DEF RemoteTypes, Dispatchers, Busy
  <2>3. /\ srv'.at = f.body.what /\ srv'.id = f.id /\ srv'.req = f.body
        /\ srv'.got = <<>> /\ srv'.plain = TRUE /\ srv'.why = srv.why
    BY <1>1, <1>14 DEF RemoteTypes, Dispatchers
  <2> QED
    BY <1>6, <1>9, <2>2, <2>3
<1>18. srv'.at \in Busy /\ srv'.at \in {"shell", "get", "put"}
  BY <1>8, <1>17 DEF Busy
<1>19. Asked' = Asked /\ Sent' = Sent /\ Sent \in Int /\ Sent <= Len(Asked) /\ Len(Asked) \in Nat
       /\ Len(Asked) = RequestLen(cli.op) /\ Sent = Len(Asked) - Len(cli.left)
  BY <1>1, <1>3, Places DEF Asked, Sent
<1>20. Taken' = IF cli.op.kind = "put" THEN 1 ELSE 0
  BY <1>17 DEF Taken
<1>21. cli.op.kind # "put" => Len(Asked) = 1
  BY <1>19 DEF RequestLen
<1>22. cli.op.kind = "put" => Len(Asked) >= 2
  BY <1>8, <1>19 DEF RequestLen
<1>23. RemoteTypes'
  BY <1>1, <1>3, <1>5, <1>15, <1>17 DEF RemoteTypes
<1>24. Ends'
  <2>1. S \notin closed /\ \A x \in Sides : x \in closed => chan'[x] = chan[x]
    BY <1>1, <1>2, <1>5, TwoSides DEF Ends
  <2>2. \A x \in Sides : sess'[x].state = sess[x].state
    BY <1>11, <1>15, TwoSides
  <2> QED
    BY <1>1, <1>2, <1>3, <1>18, <2>1, <2>2 DEF Ends
<1>25. ToServer'
  <2> SUFFICES ASSUME NEW i \in 1..Len(chan'[S]) PROVE Leaves(i)' \/ Asks(i)'
    BY DEF ToServer
  <2>1. chan'[S][i] = chan[S][i + 1] /\ i + 1 \in 1..Len(chan[S]) /\ i \in Nat /\ i >= 1
    BY <1>5
  <2>2. Leaves(i + 1) \/ Asks(i + 1)
    BY <1>1, <1>2, <2>1 DEF ToServer, Closes
  <2>3. CASE Leaves(i + 1)
    <3>1. i = Len(chan'[S])
      BY <1>5, <2>1, <2>3 DEF Leaves
    <3> QED
      BY <1>3, <2>1, <2>3, <3>1 DEF Leaves
  <2>4. CASE Asks(i + 1)
    <3>1. /\ Taken + (i + 1) - Lead \in 1..Sent /\ cli.at # "idle"
          /\ chan[S][i + 1] = Asked[Taken + (i + 1) - Lead]
      BY <2>4 DEF Asks
    <3>2. Taken + (i + 1) - Lead = i + 1
      BY <1>2, <1>6, <2>1
    <3>3. cli.op.kind = "put"
      BY <1>19, <1>21, <2>1, <3>1, <3>2
    <3>4. Taken' + i - Lead' = i + 1 /\ srv'.at = "put"
      BY <1>7, <1>17, <1>20, <2>1, <3>3
    <3> QED
      BY <1>3, <1>19, <2>1, <3>1, <3>2, <3>4 DEF Asks, Listening
  <2> QED
    BY <2>2, <2>3, <2>4
<1>26. Aligned'
  <2> SUFFICES ASSUME Listening'
               PROVE  /\ C \notin closed => Taken' + Len(chan'[S]) - Lead' = Sent
                      /\ \A i \in 1..Len(chan'[S]) :
                             chan'[S][i].id = 0 => Taken' + i - 1 - Lead' = Sent
    BY <1>3, <1>19 DEF Aligned
  <2>1. Taken' = 1
    BY <1>17, <1>18, <1>20 DEF Listening
  <2>2. /\ C \notin closed => Taken + Len(chan[S]) - Lead = Sent
        /\ \A i \in 1..Len(chan[S]) : chan[S][i].id = 0 => Taken + i - 1 - Lead = Sent
    <3>1. "DAT" \in chan[S][1].flags
      BY <1>6 DEF f
    <3> QED
      BY <1>1, <1>2, <1>5, <3>1 DEF Aligned, Listening
  <2> DEFINE n == Len(chan[S])
             m == Len(chan'[S])
  <2>3. n \in Nat /\ m = n - 1
    BY <1>5
  <2>4. C \notin closed => 0 + n - 0 = Sent
    BY <1>2, <1>6, <2>2
  <2>5. ASSUME NEW i \in 1..m, chan'[S][i].id = 0 PROVE 1 + i - 1 - 0 = Sent
    <3>1. chan[S][i + 1].id = 0 /\ i + 1 \in 1..Len(chan[S])
      BY <1>5, <2>5
    <3>2. 0 + (i + 1) - 1 - 0 = Sent
      BY <1>2, <1>6, <2>2, <3>1
    <3> QED
      BY <2>3, <3>2
  <2> HIDE DEF n, m
  <2>6. C \notin closed => 1 + m - 0 = Sent
    BY <2>3, <2>4
  <2> QED
    BY <1>7, <2>1, <2>5, <2>6 DEF m
<1>27. Serving'
  <2>1. ASSUME cli.op.kind # "put", cli.at = "send" PROVE FALSE
    <3>1. Len(cli.left) = 0
      BY <1>6, <1>8, <1>19, <1>21, <2>1
    <3>2. cli.left # <<>>
      BY <1>1, <2>1 DEF ClientSound
    <3> QED
      BY <1>8, <3>1, <3>2
  <2>2. srv'.at # "store"
    BY <1>18
  <2> QED
    BY <1>3, <1>6, <1>16, <1>17, <2>1, <2>2 DEF Serving
<1>28. Collecting'
  <2>1. Len(<<>>) = 0
    OBVIOUS
  <2>2. Content(cli.op.no, 0) = <<>>
    BY DEF Content
  <2>3. srv'.at = "put" => Taken' < Len(Asked)
    BY <1>17, <1>19, <1>20, <1>22
  <2>4. srv'.got = Content(cli.op.no, Len(srv'.got))
    BY <1>17, <2>1, <2>2
  <2>5. srv'.at # "store"
    BY <1>18
  <2> QED
    BY <1>3, <1>17, <1>19, <2>3, <2>4, <2>5 DEF Collecting
<1>29. Answering' /\ NewStreamFree'
  BY <1>18 DEF Answering, NewStreamFree
<1>30. ToClient'
  <2>1. ASSUME NEW i \in 1..Len(chan[C]), Answered(i) PROVE FALSE
    BY <1>2, <2>1 DEF Answered
  <2>2. ASSUME NEW i \in 1..Len(chan[C]), Answers(chan[C][i]) PROVE Answers(chan[C][i])'
    BY <1>3, <1>5, <2>2 DEF Answers, Fins
  <2> QED
    BY <1>1, <1>3, <1>5, <2>1, <2>2 DEF ToClient, Fins
<1>31. ClientSound'
  BY <1>1, <1>3, <1>16, <1>19 DEF ClientSound
<1>32. StreamsCorrespond'
  <2> SUFFICES ASSUME cli.at \in {"idle", "send", "recv"}, NEW id \in Streams(S) \cup {cli.id}
               PROVE  id \in Streams(C) \/ \E i \in 1..Len(chan'[S]) : chan'[S][i] = Fin(id)
    BY <1>3, <1>16 DEF StreamsCorrespond
  <2>1. CASE id = cli.id
    BY <1>1, <1>6, <2>1 DEF ClientSound
  <2>2. CASE id \in Streams(S) /\ \E i \in 1..Len(chan[S]) : chan[S][i] = Fin(id)
    <3>1. PICK i \in 1..Len(chan[S]) : chan[S][i] = Fin(id)
      BY <2>2
    <3>2. id \in U32
      BY <1>1, <2>2, StreamIds
    <3>3. chan[S][i].flags = {"FIN"}
      BY <3>1, <3>2, FinFits
    <3>4. i # 1
      BY <1>6, <3>3 DEF f
    <3>5. i - 1 \in 1..Len(chan'[S]) /\ (i - 1) + 1 = i
      BY <1>5, <3>4
    <3>6. chan'[S][i - 1] = Fin(id)
      BY <1>5, <3>1, <3>5
    <3> QED
      BY <3>5, <3>6
  <2> QED
    BY <1>2, <2>1, <2>2 DEF Talk, StreamsCorrespond
<1>33. ResultsReal'
  BY <1>3 DEF Talk, ResultsReal, Real
<1>34. ClientsAreServed'
  BY <1>3, <1>17 DEF Talk, ClientsAreServed
<1> QED
  BY <1>4, <1>23, <1>24, <1>25, <1>26, <1>27, <1>28, <1>29, <1>30, <1>31, <1>32, <1>33, <1>34
  DEF Talk

(* serve_session_collected takes a frame: it forgets a stream, accepts one *)
(* or ends with the session, and finds fault with nothing.                 *)
LEMMA ReceivesKeeps ==
    ASSUME Talk, strays = 0, ServerReceives
    PROVE  Talk'
<1> DEFINE f == chan[S][1]
<1>1. RemoteTypes
  BY DEF Talk
<1>2. srv.at = "loop" /\ chan[S] # <<>>
  BY DEF ServerReceives
<1>3. \/ f.id # 0 /\ f.flags = {"FIN"}
      \/ f.id = 0 /\ f.flags = {"FIN"}
      \/ Opener(f)
  BY <1>2, NextAtLoop
<1>4. CASE f.id # 0 /\ f.flags = {"FIN"}
  BY <1>4, FinKeeps DEF Fins
<1>5. CASE Opener(f)
  BY <1>5, OpenerKeeps
<1>6. CASE f.id = 0 /\ f.flags = {"FIN"}
  <2>1. /\ UNCHANGED <<closed, cli, remote, versions, strays, done>>
        /\ chan' = [chan EXCEPT ![S] = Tail(@)]
        /\ remote' \in [there : BOOLEAN, data : Files] /\ versions' \in SUBSET Files
        /\ versions \subseteq versions'
    BY <1>1 DEF ServerReceives, RemoteTypes
  <2>2. chan' \in [Sides -> Seq(SwspFrames)] /\ chan'[C] = chan[C] /\ Head(chan[S]) = f
    BY <1>1, <1>2, <2>1, TakesFirst
  <2>3. ServerEnds("done") /\ UNCHANGED sess
    BY <1>6, <2>2 DEF ServerReceives, Fins
  <2>4. VersionsMeant'
    BY <2>1, VersionsKept
  <2> QED
    BY <1>2, <2>1, <2>2, <2>3, <2>4, DispatcherEnds
<1> QED
  BY <1>3, <1>4, <1>5, <1>6

-----------------------------------------------------------------------------
(* SessionRuntime::close                                                   *)

(* What a close leaves of the channel: a part of what was under way, and   *)
(* behind it the FIN of the session unless something was lost.             *)
KeptOf(a, b, open) ==
    /\ b \in Seq(SwspFrames) /\ Len(b) \in Nat /\ Len(b) <= Len(a) + 1
    /\ \A i \in 1..Len(b) :
           \/ i \in 1..Len(a) /\ b[i] = a[i]
           \/ i = Len(a) + 1 /\ i = Len(b) /\ b[i] = Fin(0) /\ open

(* A close adds at most its FIN and may lose a tail of the channel.        *)
LEMMA CloseLeaves ==
    ASSUME NEW a \in Seq(SwspFrames), NEW open \in BOOLEAN, NEW sent \in BOOLEAN,
           NEW all, all = IF ~ open THEN a ELSE a \o (IF sent THEN <<Fin(0)>> ELSE <<>>),
           NEW lost \in Nat, lost <= Len(all),
           NEW b, b = SubSeq(all, 1, Len(all) - lost)
    PROVE  KeptOf(a, b, open)
<1>1. Fin(0) \in SwspFrames
  BY ZeroId, FinFits
<1>2. CASE open /\ sent
  <2>1. all = a \o <<Fin(0)>>
    BY <1>2
  <2>2. /\ all \in Seq(SwspFrames) /\ Len(all) = Len(a) + 1 /\ Len(a) \in Nat
        /\ \A i \in 1..Len(a) : all[i] = a[i]
        /\ all[Len(a) + 1] = Fin(0)
    BY <1>1, <2>1, Appended
  <2> DEFINE n == Len(all) - lost
  <2>3. n \in 0..Len(all)
    BY <2>2
  <2> HIDE DEF n
  <2>4. b \in Seq(SwspFrames) /\ Len(b) = n /\ \A i \in 1..n : b[i] = all[i]
    BY <2>2, <2>3, Cut DEF n
  <2>5. Len(b) \in Nat /\ Len(b) <= Len(a) + 1
    BY <2>2, <2>3, <2>4
  <2>6. ASSUME NEW i \in 1..Len(b)
        PROVE  \/ i \in 1..Len(a) /\ b[i] = a[i]
               \/ i = Len(a) + 1 /\ i = Len(b) /\ b[i] = Fin(0) /\ open
    <3>1. i \in 1..n /\ n \in 0..Len(a) + 1 /\ Len(a) \in Nat
      BY ONLY <2>2, <2>3, <2>4, i \in 1..Len(b)
    <3>2. b[i] = all[i] /\ Len(b) = n
      BY <2>4, <3>1
    <3>3. i \in 1..Len(a) \/ (i = Len(a) + 1 /\ i = n)
      BY ONLY <3>1
    <3>4. CASE i \in 1..Len(a)
      BY <2>2, <3>2, <3>4
    <3>5. CASE i = Len(a) + 1 /\ i = n
      BY <1>2, <2>2, <3>2, <3>5
    <3> QED
      BY <3>3, <3>4, <3>5
  <2> QED
    BY <2>4, <2>5, <2>6 DEF KeptOf
<1>3. CASE ~ open \/ ~ sent
  <2>1. all = a
    BY <1>3, ConcatEmptySeq
  <2> DEFINE n == Len(all) - lost
  <2>2. n \in 0..Len(a) /\ Len(a) \in Nat
    BY <2>1
  <2>3. b = SubSeq(a, 1, n)
    BY <2>1
  <2> HIDE DEF n
  <2>4. b \in Seq(SwspFrames) /\ Len(b) = n /\ \A i \in 1..n : b[i] = a[i]
    BY <2>2, <2>3, Cut
  <2>5. Len(b) \in Nat /\ Len(b) <= Len(a) + 1
    BY <2>2, <2>4
  <2>6. \A i \in 1..Len(b) : i \in 1..Len(a) /\ b[i] = a[i]
    BY <2>2, <2>4
  <2> QED
    BY <2>4, <2>5, <2>6 DEF KeptOf
<1> QED
  BY <1>2, <1>3

(* SessionRuntime::close for either end.                                   *)
LEMMA RuntimeCloses ==
    ASSUME RemoteTypes, NEW x \in Sides, CloseRuntime(x)
    PROVE  /\ chan' \in [Sides -> Seq(SwspFrames)] /\ chan'[x] = <<>>
           /\ KeptOf(chan[Other(x)], chan'[Other(x)], Other(x) \notin closed)
           /\ sess' \in [Sides -> Sessions] /\ \A y \in Sides : Sound(sess'[y])
           /\ sess'[Other(x)] = sess[Other(x)]
           /\ closed' = closed \cup {x}
<1> DEFINE y == Other(x)
           a == chan[y]
           b == chan'[y]
           open == y \notin closed
<1>1. x \in Sides /\ y \in Sides /\ x # y /\ \A z \in Sides : z = x \/ z = y
  BY DEF Sides, Other, S, C
<1>2. /\ chan \in [Sides -> Seq(SwspFrames)] /\ sess \in [Sides -> Sessions]
      /\ \A z \in Sides : Sound(sess[z])
  BY DEF RemoteTypes
<1>3. PICK sent \in BOOLEAN, lost \in 0..Len(chan[y]) + 1 :
        LET all == Put(x, IF sent THEN <<Fin(0)>> ELSE <<>>)[y]
        IN  /\ lost <= Len(all)
            /\ chan' = [chan EXCEPT ![x] = <<>>, ![y] = SubSeq(all, 1, Len(all) - lost)]
            /\ sess' = [sess EXCEPT ![x] = CloseSession(@)]
            /\ closed' = closed \cup {x}
  BY DEF CloseRuntime
<1> DEFINE all == Put(x, IF sent THEN <<Fin(0)>> ELSE <<>>)[y]
           b0 == SubSeq(all, 1, Len(all) - lost)
<1> HIDE DEF y
<1>4. /\ lost <= Len(all) /\ chan' = [chan EXCEPT ![x] = <<>>, ![y] = b0]
      /\ sess' = [sess EXCEPT ![x] = CloseSession(@)] /\ closed' = closed \cup {x}
  BY <1>3 DEF y
<1>5. all = IF ~ open THEN a ELSE a \o (IF sent THEN <<Fin(0)>> ELSE <<>>)
  BY <1>1, <1>2 DEF Put, y
<1>6. a \in Seq(SwspFrames) /\ lost \in Nat /\ open \in BOOLEAN
  BY <1>1, <1>2
<1> HIDE DEF all, open, a, b0
<1>7. KeptOf(a, b0, open)
  BY <1>4, <1>5, <1>6, CloseLeaves DEF b0
<1>8. b0 \in Seq(SwspFrames)
  BY <1>7 DEF KeptOf
<1>9. chan' \in [Sides -> Seq(SwspFrames)] /\ chan'[x] = <<>> /\ b = b0
  <2> DEFINE c0 == [chan EXCEPT ![x] = <<>>]
  <2>1. <<>> \in Seq(SwspFrames)
    OBVIOUS
  <2>2. c0 \in [Sides -> Seq(SwspFrames)] /\ c0[x] = <<>>
    BY <1>2, <2>1
  <2>3. chan' = [c0 EXCEPT ![y] = b0]
    BY <1>4
  <2> HIDE DEF c0
  <2> QED
    BY <1>1, <1>8, <2>2, <2>3
<1>10. Sound(CloseSession(sess[x])) /\ CloseSession(sess[x]) \in Sessions
  <2>1. /\ sess[x] \in Sessions /\ WellFormed(sess[x].registry)
        /\ sess[x].pin_required => MaxAuthFails # 0 /\ sess[x].auth_attempts <= MaxAuthFails
    BY <1>2 DEF Sound
  <2>2. Sound(CloseSession(sess[x]))
    BY <2>1, CloseSessionSound
  <2> QED
    BY <2>2 DEF Sound
<1>11. sess' \in [Sides -> Sessions] /\ sess'[x] = CloseSession(sess[x]) /\ sess'[y] = sess[y]
  BY <1>1, <1>2, <1>4, <1>10
<1>12. \A z \in Sides : Sound(sess'[z])
  BY <1>1, <1>2, <1>10, <1>11
<1> QED
  BY <1>4, <1>7, <1>9, <1>11, <1>12 DEF y, a, open

(* A dispatcher that ended closes its runtime.                             *)
LEMMA CleansUpKeeps ==
    ASSUME Talk, strays = 0, ServerCleansUp
    PROVE  Talk'
<1>1. RemoteTypes /\ Ends /\ ToClient
  BY DEF Talk
<1>2. /\ srv.at = "ended" /\ CloseRuntime(S) /\ srv' = [srv EXCEPT !.at = "closed"]
      /\ UNCHANGED <<cli, remote, strays, versions, done>>
  BY DEF ServerCleansUp
<1>3. /\ chan' \in [Sides -> Seq(SwspFrames)] /\ chan'[S] = <<>>
      /\ KeptOf(chan[C], chan'[C], C \notin closed)
      /\ sess' \in [Sides -> Sessions] /\ \A y \in Sides : Sound(sess'[y])
      /\ sess'[C] = sess[C] /\ closed' = closed \cup {S}
  <2>1. S \in Sides /\ Other(S) = C
    BY TwoSides
  <2> QED
    BY <1>1, <1>2, <2>1, RuntimeCloses
<1>4. /\ Len(chan'[C]) \in Nat /\ Len(chan[C]) \in Nat /\ Len(chan'[C]) <= Len(chan[C]) + 1
      /\ \A i \in 1..Len(chan'[C]) :
             \/ i \in 1..Len(chan[C]) /\ chan'[C][i] = chan[C][i]
             \/ /\ i = Len(chan[C]) + 1 /\ i = Len(chan'[C]) /\ chan'[C][i] = Fin(0)
                /\ C \notin closed
  BY <1>1, <1>3, Parts DEF KeptOf
<1>5. srv' \in Dispatchers /\ srv'.at = "closed" /\ srv'.why = srv.why
  BY <1>1, <1>2 DEF RemoteTypes, Dispatchers
<1>6. RemoteTypes'
  BY <1>1, <1>2, <1>3, <1>5, TwoSides DEF RemoteTypes
<1>7. Ends'
  <2>1. C \in closed => chan'[C] = <<>>
    <3>1. SUFFICES ASSUME C \in closed, chan'[C] # <<>> PROVE FALSE
      OBVIOUS
    <3>2. chan[C] = <<>>
      BY <1>1, <3>1, TwoSides DEF Ends
    <3>3. chan'[C] \in Seq(SwspFrames)
      BY <1>3, TwoSides
    <3>4. 1 \in 1..Len(chan'[C])
      BY <3>1, <3>3, Shifted
    <3>5. Len(chan[C]) = 0
      BY <3>2
    <3> QED
      BY <1>4, <3>1, <3>4, <3>5
  <2>2. /\ S \in closed' /\ (C \in closed' <=> C \in closed)
    BY <1>3, TwoSides
  <2>3. \A x \in Sides : x = S \/ x = C
    BY TwoSides
  <2>4. C \notin closed => sess'[C].state = "Ready"
    BY <1>1, <1>3, TwoSides DEF Ends
  <2>5. cli.at = "closed" <=> C \in closed
    BY <1>1 DEF Ends
  <2> QED
    BY <1>2, <1>3, <1>5, <2>1, <2>2, <2>3, <2>4, <2>5 DEF Ends
<1>8. ToServer' /\ Serving' /\ Collecting' /\ Answering' /\ StreamsCorrespond' /\ NewStreamFree'
  BY <1>5 DEF ToServer, Serving, Collecting, Answering, StreamsCorrespond, NewStreamFree, Busy
<1>9. Aligned'
  BY <1>5 DEF Aligned, Listening
<1>10. ToClient'
  <2> SUFFICES ASSUME cli.at \in {"idle", "send", "recv"}, NEW i \in 1..Len(chan'[C])
               PROVE  \/ chan'[C][i] = Fin(0) /\ i = Len(chan'[C])
                      \/ /\ cli.at = "recv" /\ Answers(chan[C][i])'
                         /\ Fins(chan'[C][i]) => Answered(i)'
    <3>1. S \in closed'
      BY <1>3
    <3>2. Fin(0)' = Fin(0)
      BY DEF Fin, Frame, Empty, Body
    <3> QED
      BY <1>2, <3>1, <3>2 DEF ToClient, Fins
  <2>1. CASE i = Len(chan[C]) + 1 /\ i = Len(chan'[C]) /\ chan'[C][i] = Fin(0)
    BY <2>1
  <2>2. CASE i \in 1..Len(chan[C]) /\ chan'[C][i] = chan[C][i]
    <3>1. S \notin closed
      BY <1>1, <1>2 DEF Ends
    <3>2. cli.at = "recv" /\ Answers(chan[C][i]) /\ (Fins(chan[C][i]) => Answered(i))
      BY <1>1, <2>2, <3>1 DEF ToClient
    <3>3. Answers(chan[C][i])'
      BY <1>2, <2>2, <3>2 DEF Answers, Fins
    <3>4. ASSUME Answered(i) PROVE Answered(i)'
      <4>1. ASSUME NEW j \in i + 1..Len(chan'[C]) PROVE chan'[C][j].id = 0
        <5>1. j \in 1..Len(chan'[C])
          BY <1>4, <2>2
        <5>2. CASE j \in 1..Len(chan[C]) /\ chan'[C][j] = chan[C][j]
          <6>1. j \in i + 1..Len(chan[C])
            BY <5>2
          <6> QED
            BY <3>4, <5>2, <6>1 DEF Answered
        <5>3. CASE chan'[C][j] = Fin(0)
          BY <5>3, ZeroId, FinFits
        <5> QED
          BY <1>4, <5>1, <5>2, <5>3
      <4> QED
        BY <1>5, <4>1 DEF Answered, Busy
    <3> QED
      BY <2>2, <3>2, <3>3, <3>4
  <2> QED
    BY <1>4, <2>1, <2>2
<1>11. ClientSound'
  <2>1. Streams(C)' = Streams(C)
    BY <1>3 DEF Streams, C
  <2> QED
    BY <1>2, <2>1 DEF Talk, ClientSound, Asked, Sent
<1>12. ResultsReal'
  BY <1>2 DEF Talk, ResultsReal, Real
<1>13. VersionsMeant'
  BY <1>2, VersionsKept
<1>14. ClientsAreServed'
  BY <1>2, <1>5 DEF Talk, ClientsAreServed
<1> QED
  BY <1>6, <1>7, <1>8, <1>9, <1>10, <1>11, <1>12, <1>13, <1>14 DEF Talk

(* The owner of a client closes its runtime: what is left of its requests  *)
(* on the channel is in its place, with the FIN of the session behind it.  *)
LEMMA LeavesKeeps ==
    ASSUME Talk, strays = 0, ClientLeaves
    PROVE  Talk'
<1>1. RemoteTypes /\ Ends /\ ToServer /\ Aligned /\ ClientSound /\ NewStreamFree
  BY DEF Talk
<1>2. /\ cli.at \in {"idle", "failed"} /\ CloseRuntime(C) /\ cli' = [cli EXCEPT !.at = "closed"]
      /\ UNCHANGED <<srv, remote, strays, versions, done>>
  BY DEF ClientLeaves
<1>3. /\ chan' \in [Sides -> Seq(SwspFrames)] /\ chan'[C] = <<>>
      /\ KeptOf(chan[S], chan'[S], S \notin closed)
      /\ sess' \in [Sides -> Sessions] /\ \A y \in Sides : Sound(sess'[y])
      /\ sess'[S] = sess[S] /\ closed' = closed \cup {C}
  <2>1. C \in Sides /\ Other(C) = S
    BY TwoSides
  <2> QED
    BY <1>1, <1>2, <2>1, RuntimeCloses
<1>4. /\ Len(chan'[S]) \in Nat /\ Len(chan[S]) \in Nat /\ Len(chan'[S]) <= Len(chan[S]) + 1
      /\ \A i \in 1..Len(chan'[S]) :
             \/ i \in 1..Len(chan[S]) /\ chan'[S][i] = chan[S][i]
             \/ /\ i = Len(chan[S]) + 1 /\ i = Len(chan'[S]) /\ chan'[S][i] = Fin(0)
                /\ S \notin closed
      /\ chan[S] \in Seq(SwspFrames) /\ chan'[S] \in Seq(SwspFrames)
  BY <1>1, <1>3, Parts DEF KeptOf
<1>5. /\ cli' \in Clients /\ cli'.at = "closed" /\ cli'.op = cli.op /\ cli'.id = cli.id
      /\ cli'.left = cli.left
  BY <1>1, <1>2 DEF RemoteTypes, Clients
<1>6. C \notin closed
  BY <1>1, <1>2 DEF Ends
<1>7. Asked' = Asked /\ Sent' = Sent /\ Taken' = Taken /\ Listening' = Listening
  BY <1>2, <1>5 DEF Asked, Sent, Taken, Listening
<1>8. Taken \in Nat /\ Lead \in {0, 1} /\ Sent \in Int
  BY <1>1, Places
<1>9. Streams(S)' = Streams(S)
  BY <1>3 DEF Streams, S
<1>10. Fin(0).id = 0 /\ Fin(0).flags = {"FIN"}
  BY ZeroId, FinFits
<1>11. C \in closed'
  BY <1>3
(* The first frame is the same, if it is still there.                      *)
<1>12. ASSUME chan'[S] # <<>> PROVE Lead' = Lead
  <2>1. 1 \in 1..Len(chan'[S])
    BY <1>4, <1>12, Shifted
  <2>2. CASE 1 \in 1..Len(chan[S]) /\ chan'[S][1] = chan[S][1]
    BY <1>12, <2>2 DEF Lead
  <2>3. CASE 1 = Len(chan[S]) + 1 /\ chan'[S][1] = Fin(0)
    <3>1. chan[S] = <<>>
      BY <1>4, <2>3
    <3> QED
      BY <1>10, <2>3, <3>1 DEF Lead
  <2> QED
    BY <1>4, <2>1, <2>2, <2>3
<1>13. RemoteTypes'
  BY <1>1, <1>2, <1>3, <1>5, TwoSides DEF RemoteTypes
<1>14. Ends'
  <2>1. S \in closed => chan'[S] = <<>>
    <3>1. SUFFICES ASSUME S \in closed, chan'[S] # <<>> PROVE FALSE
      OBVIOUS
    <3>2. chan[S] = <<>>
      BY <1>1, <3>1, TwoSides DEF Ends
    <3>3. 1 \in 1..Len(chan'[S])
      BY <1>4, <3>1, Shifted
    <3>4. Len(chan[S]) = 0
      BY <3>2
    <3> QED
      BY <1>4, <3>1, <3>3, <3>4
  <2>2. /\ S \in closed' <=> S \in closed
    BY <1>3, TwoSides
  <2>3. \A x \in Sides : x = S \/ x = C
    BY TwoSides
  <2>4. S \notin closed => sess'[S].state = "Ready"
    BY <1>1, <1>3, TwoSides DEF Ends
  <2>5. srv.at = "closed" <=> S \in closed
    BY <1>1 DEF Ends
  <2> QED
    BY <1>2, <1>3, <1>5, <1>11, <2>1, <2>2, <2>3, <2>4, <2>5 DEF Ends
<1>15. ToServer'
  <2> SUFFICES ASSUME srv.at \notin {"ended", "closed"}, NEW i \in 1..Len(chan'[S])
               PROVE  Closes(i)' \/ Leaves(i)' \/ Asks(i)'
    BY <1>2 DEF ToServer
  <2>1. chan'[S] # <<>> /\ 1 \in 1..Len(chan'[S])
    BY <1>4
  <2>2. CASE i = Len(chan[S]) + 1 /\ i = Len(chan'[S]) /\ chan'[S][i] = Fin(0)
    <3>1. Fin(0)' = Fin(0)
      BY DEF Fin, Frame, Empty, Body
    <3> QED
      BY <1>11, <2>2, <3>1 DEF Leaves
  <2>3. CASE i \in 1..Len(chan[S]) /\ chan'[S][i] = chan[S][i]
    <3>1. Closes(i) \/ Asks(i)
      BY <1>1, <1>6, <2>3 DEF ToServer, Leaves
    <3>2. CASE Closes(i)
      BY <1>2, <1>9, <2>3, <3>2 DEF Closes, Fin, Frame, Empty, Body
    <3>3. CASE Asks(i)
      BY <1>5, <1>7, <1>12, <2>1, <2>3, <3>3 DEF Asks
    <3> QED
      BY <3>1, <3>2, <3>3
  <2> QED
    BY <1>4, <2>2, <2>3
<1>16. Aligned'
  <2> SUFFICES ASSUME Listening,
                      srv.at = "put" \/ \E j \in 1..Len(chan'[S]) : "DAT" \in chan'[S][j].flags,
                      NEW i \in 1..Len(chan'[S]), chan'[S][i].id = 0
               PROVE  Taken + i - 1 - Lead' = Sent
    BY <1>2, <1>5, <1>7, <1>11 DEF Aligned
  <2>1. chan'[S] # <<>>
    BY <1>4
  <2>2. Lead' = Lead
    BY <1>12, <2>1
  <2>3. srv.at = "put" \/ \E j \in 1..Len(chan[S]) : "DAT" \in chan[S][j].flags
    <3>1. ASSUME NEW j \in 1..Len(chan'[S]), "DAT" \in chan'[S][j].flags
          PROVE  j \in 1..Len(chan[S]) /\ chan'[S][j] = chan[S][j]
      BY <1>4, <1>10, <3>1
    <3> QED
      BY <3>1
  <2>4. /\ Taken + Len(chan[S]) - Lead = Sent
        /\ \A j \in 1..Len(chan[S]) : chan[S][j].id = 0 => Taken + j - 1 - Lead = Sent
    BY <1>1, <1>6, <2>3 DEF Aligned
  <2>5. CASE i \in 1..Len(chan[S]) /\ chan'[S][i] = chan[S][i]
    BY <2>2, <2>4, <2>5
  <2>6. CASE i = Len(chan[S]) + 1
    <3> DEFINE n == Len(chan[S])
    <3>1. n \in Nat /\ Taken + n - Lead = Sent /\ i = n + 1
      BY <1>4, <2>4, <2>6
    <3> HIDE DEF n
    <3>2. Taken + i - 1 - Lead = Sent
      BY <1>8, <3>1
    <3> QED
      BY <2>2, <3>2
  <2> QED
    BY <1>4, <2>5, <2>6
<1>17. Serving'
  BY <1>2, <1>5, <1>9 DEF Talk, Serving
<1>18. Collecting'
  BY <1>2, <1>5, <1>7 DEF Talk, Collecting
<1>19. Answering'
  BY <1>2, <1>5 DEF Talk, Answering, Answers, Fins
<1>20. ToClient' /\ StreamsCorrespond'
  BY <1>5 DEF ToClient, StreamsCorrespond
<1>21. ClientSound'
  <2>1. cli.left # <<>> => done # <<>> /\ ~ done[Len(done)].ok
    BY <1>1, <1>2 DEF ClientSound
  <2>2. cli.op = IF done = <<>> THEN NoOp ELSE done[Len(done)].op
    BY <1>1, <1>2 DEF ClientSound
  <2> QED
    BY <1>2, <1>5, <2>1, <2>2 DEF ClientSound, NoOp
<1>22. NewStreamFree'
  <2> SUFFICES ASSUME srv.at = "loop", Opening', cli.id \in Streams(S)
               PROVE  Lead' = 1 /\ chan'[S][1].id = cli.id
    BY <1>2, <1>5, <1>9 DEF NewStreamFree
  <2>1. PICK i \in 1..Len(chan'[S]) : "SYN" \in chan'[S][i].flags
    BY <1>5 DEF Opening
  <2>2. i \in 1..Len(chan[S]) /\ chan'[S][i] = chan[S][i]
    BY <1>4, <1>10, <2>1
  <2>3. Opening
    BY <2>1, <2>2 DEF Opening
  <2>4. Lead = 1 /\ chan[S][1].id = cli.id
    BY <1>1, <2>3 DEF NewStreamFree
  <2>5. chan'[S] # <<>> /\ 1 \in 1..Len(chan'[S]) /\ 1 \in 1..Len(chan[S])
    BY <1>4, <2>2
  <2>6. chan'[S][1] = chan[S][1]
    BY <1>4, <2>5
  <2> QED
    BY <1>12, <2>4, <2>5, <2>6
<1>23. ResultsReal'
  BY <1>2 DEF Talk, ResultsReal, Real
<1>24. VersionsMeant'
  BY <1>2, <1>5 DEF Talk, VersionsMeant, Meant
<1>25. ClientsAreServed'
  BY <1>2 DEF Talk, ClientsAreServed
<1> QED
  BY <1>13, <1>14, <1>15, <1>16, <1>17, <1>18, <1>19, <1>20, <1>21, <1>22, <1>23, <1>24, <1>25
  DEF Talk

-----------------------------------------------------------------------------
(* The steps of the client                                                 *)

(* Between two operations only the end of the one before is on the way to  *)
(* a dispatcher that still serves, and every version of the file comes     *)
(* from an operation that has returned.                                    *)
LEMMA AtIdle ==
    ASSUME Talk, cli.at = "idle"
    PROVE  /\ srv.at \notin Busy /\ C \notin closed /\ cli.left = <<>>
           /\ srv.at \notin {"ended", "closed"} =>
                  /\ srv.at = "loop" /\ Len(chan[S]) = Lead
                  /\ \A i \in 1..Len(chan[S]) :
                         /\ i = 1 /\ Closes(i) /\ Lead = 1
                         /\ chan[S][i].flags = {"FIN"} /\ chan[S][i].id # 0
           /\ \A o, n \in Nat : Meant(o, n) =>
                  o = 0 \/ (o \in 1..Len(done) /\ n = done[o].op.size)
<1>1. RemoteTypes /\ Ends /\ Serving /\ ToServer /\ ClientSound /\ ResultsReal
  BY DEF Talk
<1>2. srv.at \notin Busy /\ C \notin closed /\ cli.left = <<>>
  BY <1>1 DEF Serving, Ends, ClientSound
<1>3. ASSUME srv.at \notin {"ended", "closed"}
      PROVE  /\ srv.at = "loop" /\ Len(chan[S]) = Lead
             /\ \A i \in 1..Len(chan[S]) :
                    /\ i = 1 /\ Closes(i) /\ Lead = 1
                    /\ chan[S][i].flags = {"FIN"} /\ chan[S][i].id # 0
  <2>1. srv.at = "loop"
    BY <1>1, <1>2, <1>3 DEF RemoteTypes, Dispatchers
  <2>2. ASSUME NEW i \in 1..Len(chan[S])
        PROVE  /\ i = 1 /\ Closes(i) /\ Lead = 1
               /\ chan[S][i].flags = {"FIN"} /\ chan[S][i].id # 0
    <3>1. Closes(i)
      BY <1>1, <1>2, <1>3 DEF ToServer, Leaves, Asks
    <3>2. i = 1 /\ chan[S][1] = Fin(chan[S][1].id) /\ chan[S][1].id \in Streams(S)
      BY <3>1 DEF Closes
    <3>3. chan[S][1].id \in U32 /\ chan[S][1].id # 0
      BY <1>1, <3>2, StreamIds
    <3> DEFINE id == chan[S][1].id
    <3>4. chan[S][1].flags = {"FIN"}
      <4>1. id \in U32 /\ chan[S][1] = Fin(id)
        BY <3>2, <3>3
      <4> HIDE DEF id
      <4>2. Fin(id).flags = {"FIN"}
        BY <4>1, FinFits
      <4> QED
        BY <4>1, <4>2
    <3>5. chan[S] # <<>>
      BY <3>2
    <3>6. Lead = 1
      BY <3>3, <3>4, <3>5 DEF Lead
    <3> QED
      BY <3>1, <3>2, <3>3, <3>4, <3>6
  <2>3. Len(chan[S]) = Lead
    <3>1. Len(chan[S]) \in Nat /\ chan[S] \in Seq(SwspFrames)
      BY <1>1, Parts
    <3>2. CASE chan[S] = <<>>
      BY <3>2 DEF Lead
    <3>3. CASE chan[S] # <<>>
      <4>1. 1 \in 1..Len(chan[S]) /\ Len(chan[S]) \in 1..Len(chan[S])
        BY <3>1, <3>3, Shifted
      <4>2. Lead = 1 /\ Len(chan[S]) = 1
        BY <2>2, <4>1
      <4> QED
        BY <4>2
    <3> QED
      BY <3>2, <3>3
  <2> QED
    BY <2>1, <2>2, <2>3
<1>4. ASSUME NEW o \in Nat, NEW n \in Nat, Meant(o, n)
      PROVE  o = 0 \/ (o \in 1..Len(done) /\ n = done[o].op.size)
  <2>1. cli.op = IF done = <<>> THEN NoOp ELSE done[Len(done)].op
    BY <1>1 DEF ClientSound
  <2>2. CASE o = cli.op.no /\ n = cli.op.size /\ done = <<>>
    BY <2>1, <2>2 DEF NoOp
  <2>3. CASE o = cli.op.no /\ n = cli.op.size /\ done # <<>>
    <3>1. Len(done) \in 1..Len(done)
      <4>1. done \in Seq(Results)
        BY <1>1, Parts
      <4> QED
        BY <2>3, <4>1
    <3>2. done[Len(done)].op.no = Len(done)
      BY <1>1, <3>1 DEF ResultsReal
    <3>3. o = Len(done) /\ n = done[Len(done)].op.size
      BY <2>1, <2>3, <3>2
    <3> QED
      BY <3>1, <3>3
  <2> QED
    BY <1>4, <2>2, <2>3 DEF Meant
<1> QED
  BY <1>2, <1>3, <1>4

(* An operation that a client may begin.                                   *)
LEMMA OperationFits ==
    ASSUME RemoteTypes, NEW op \in Operations
    PROVE  op \in Ops /\ op.no = Len(done) + 1
<1>1. Len(done) + 1 \in Nat
  BY Parts
<1> DEFINE no == Len(done) + 1
<1> HIDE DEF no
<1>2. no \in Nat /\ no = Len(done) + 1
  BY <1>1 DEF no
<1>3. \/ \E n \in Sizes, over \in BOOLEAN :
             op = [no |-> no, kind |-> "put", size |-> n, over |-> over]
      \/ \E k \in {"shell", "get"} :
             op = [no |-> no, kind |-> k, size |-> 0, over |-> FALSE]
  BY DEF Operations, no
<1>4. op \in Ops /\ op.no = no
  <2>1. CASE \E n \in Sizes, over \in BOOLEAN :
                 op = [no |-> no, kind |-> "put", size |-> n, over |-> over]
    <3>1. PICK n \in Sizes, over \in BOOLEAN :
                 op = [no |-> no, kind |-> "put", size |-> n, over |-> over]
      BY <2>1
    <3>2. n \in Nat
      BY RemoteStreamsConstants
    <3> QED
      BY <1>2, <3>1, <3>2 DEF Ops
  <2>2. CASE \E k \in {"shell", "get"} :
                 op = [no |-> no, kind |-> k, size |-> 0, over |-> FALSE]
    BY <1>2, <2>2 DEF Ops
  <2> QED
    BY <1>3, <2>1, <2>2
<1> QED
  BY <1>2, <1>4

(* open_shell_stream and open_file_stream: the id of the new stream is     *)
(* free at the dispatcher by the time the request arrives.                 *)
LEMMA OpensKeeps ==
    ASSUME Talk, strays = 0, NEW op \in Operations, ClientOpens(op)
    PROVE  Talk'
<1> DEFINE res == OpenStream(sess[C], Kind(op), "/")
           r == [op |-> op, ok |-> FALSE, of |-> 0, data |-> <<>>]
<1>1. RemoteTypes /\ Ends /\ ToClient /\ ClientSound /\ VersionsMeant /\ StreamsCorrespond
      /\ ResultsReal
  BY DEF Talk
<1>2. cli.at = "idle" /\ UNCHANGED <<chan, closed, srv, remote, strays, versions>>
  BY DEF ClientOpens
<1>3. /\ srv.at \notin Busy /\ C \notin closed /\ cli.left = <<>>
      /\ srv.at \notin {"ended", "closed"} =>
             /\ srv.at = "loop" /\ Len(chan[S]) = Lead
             /\ \A i \in 1..Len(chan[S]) :
                    /\ i = 1 /\ Closes(i) /\ Lead = 1
                    /\ chan[S][i].flags = {"FIN"} /\ chan[S][i].id # 0
      /\ \A o, n \in Nat : Meant(o, n) =>
             o = 0 \/ (o \in 1..Len(done) /\ n = done[o].op.size)
  BY <1>2, AtIdle
<1>4. op \in Ops /\ op.no = Len(done) + 1
  BY <1>1, OperationFits
<1>5. Sound(sess[C]) /\ sess[C].state = "Ready"
  BY <1>1, <1>3, Parts, TwoSides DEF Ends
<1>6. /\ Sound(res.session) /\ res.session.state = "Ready"
      /\ res.ok => /\ res.id \in Free(sess[C].registry)
                   /\ Live(res.session.registry) = Live(sess[C].registry) \cup {res.id}
      /\ ~ res.ok => Live(res.session.registry) = Live(sess[C].registry)
  <2>1. Kind(op) \in Kinds /\ "/" \in Paths
    BY RemoteStreamsConstants DEF Kind
  <2>2. res = OpenStream(sess[C], Kind(op), "/")
    OBVIOUS
  <2> HIDE DEF res
  <2> QED
    BY <1>5, <2>1, <2>2, OpenStreamFits
<1>7. /\ sess' = [sess EXCEPT ![C] = res.session]
      /\ res.ok => /\ cli' = [at |-> "send", op |-> op, id |-> res.id,
                              left |-> Request(res.id, op), meta |-> <<>>, data |-> <<>>]
                   /\ UNCHANGED done
      /\ ~ res.ok => done' = Append(done, r) /\ cli' = [cli EXCEPT !.at = "failed", !.op = op]
  BY DEF ClientOpens
<1> HIDE DEF res
<1>8. /\ sess'[C].state = "Ready" /\ sess'[S] = sess[S]
      /\ Live(sess'[C].registry) = Live(res.session.registry)
      /\ sess' \in [Sides -> Sessions] /\ \A x \in Sides : Sound(sess'[x])
  <2>1. res.session \in Sessions
    BY <1>6 DEF Sound
  <2>2. sess \in [Sides -> Sessions] /\ \A x \in Sides : Sound(sess[x])
    BY <1>1 DEF RemoteTypes
  <2>3. sess'[C] = res.session /\ sess'[S] = sess[S] /\ sess' \in [Sides -> Sessions]
    BY <1>7, <2>1, <2>2, TwoSides
  <2>4. \A x \in Sides : x = S \/ x = C
    BY TwoSides
  <2>5. \A x \in Sides : Sound(sess'[x])
    BY <1>6, <2>2, <2>3, <2>4
  <2> QED
    BY <1>6, <2>3, <2>5
<1>9. Streams(S)' = Streams(S) /\ Streams(C)' = Live(res.session.registry)
  BY <1>8 DEF Streams, S, C
<1>10. Lead' = Lead /\ Taken' = Taken /\ Listening' = Listening
  BY <1>2 DEF Lead, Taken, Listening
<1>11. \A i \in 1..Len(chan[S]) : Closes(i) => Closes(i)'
  BY <1>2, <1>9 DEF Closes
<1>12. ToServer'
  BY <1>2, <1>3, <1>11 DEF ToServer
<1>13. Serving' /\ Collecting' /\ Answering'
  BY <1>2, <1>3 DEF Serving, Collecting, Answering, Busy
<1>14. \A x \in Sides : sess'[x].state = sess[x].state
  BY <1>5, <1>8, TwoSides
<1>15. CASE res.ok
  <2>1. res.id \in U32 /\ res.id # 0 /\ res.id \notin Streams(C)
    BY <1>6, <1>15, RegistryConstants DEF Free, U32, Streams
  <2>2. /\ Request(res.id, op) \in Seq(SwspFrames)
        /\ Len(Request(res.id, op)) \in Nat /\ Len(Request(res.id, op)) >= 1
    BY <1>4, <2>1, RequestFits
  <2>3. /\ cli' \in Clients /\ cli'.at = "send" /\ cli'.op = op /\ cli'.id = res.id
        /\ cli'.left = Request(res.id, op) /\ cli'.meta = <<>> /\ done' = done
    <3>1. <<>> \in Seq(Nat) /\ <<>> \in Files
      BY DEF Files
    <3> DEFINE q == Request(res.id, op)
               id == res.id
               e == <<>>
    <3>2. /\ cli' = [at |-> "send", op |-> op, id |-> id, left |-> q, meta |-> e, data |-> e]
          /\ done' = done
      BY <1>7, <1>15
    <3>3. q \in Seq(SwspFrames) /\ id \in U32 /\ e \in Seq(Nat) /\ e \in Files
      BY <2>1, <2>2, <3>1
    <3> HIDE DEF q, id, e
    <3>4. /\ cli' \in Clients /\ cli'.at = "send" /\ cli'.op = op /\ cli'.id = id
          /\ cli'.left = q /\ cli'.meta = e
      BY <1>4, <3>2, <3>3 DEF Clients
    <3> QED
      BY <3>2, <3>4 DEF q, id, e
  <2>4. Asked' = Request(res.id, op) /\ cli'.left = Asked' /\ Sent' = 0
    BY <2>2, <2>3 DEF Asked, Sent
  <2>5. RemoteTypes'
    BY <1>1, <1>2, <1>8, <2>3 DEF RemoteTypes
  <2>6. Ends'
    BY <1>1, <1>2, <1>3, <1>14, <2>3 DEF Ends
  <2>7. Aligned'
    <3> SUFFICES ASSUME Listening
                 PROVE  /\ Taken + Len(chan[S]) - Lead = 0
                        /\ \A i \in 1..Len(chan[S]) : chan[S][i].id # 0
      BY <1>2, <1>10, <2>4 DEF Aligned
    <3>1. srv.at = "loop" /\ Taken = 0
      BY <1>3 DEF Listening, Taken, Busy
    <3>2. Len(chan[S]) = Lead /\ Lead \in {0, 1}
      BY <1>1, <1>3, <3>1, Places
    <3>3. Taken + Len(chan[S]) - Lead = 0
      BY <3>1, <3>2
    <3> QED
      BY <1>3, <3>1, <3>3
  <2>8. ToClient'
    BY <1>1, <1>2, <2>3 DEF ToClient
  <2>9. ClientSound'
    <3>1. cli'.left # <<>>
      BY <2>2, <2>3
    <3>2. \A i \in 1..Len(cli'.left) : cli'.left[i] = Asked'[0 + i]
      BY <2>2, <2>4
    <3>3. cli'.id \in Streams(C)' /\ cli'.op.no = Len(done') + 1
      BY <1>4, <1>6, <1>9, <1>15, <2>3
    <3>4. Sent' \in Nat
      BY <2>4
    <3> QED
      BY <2>3, <2>4, <3>1, <3>2, <3>3, <3>4 DEF ClientSound
  <2>10. StreamsCorrespond'
    BY <1>1, <1>2, <1>6, <1>9, <1>15 DEF StreamsCorrespond, Streams
  <2>11. NewStreamFree'
    <3> SUFFICES ASSUME srv.at = "loop", res.id \in Streams(S)
                 PROVE  Lead = 1 /\ chan[S][1].id = res.id
      BY <1>2, <1>9, <1>10, <2>3 DEF NewStreamFree
    <3>1. PICK i \in 1..Len(chan[S]) : chan[S][i] = Fin(res.id)
      BY <1>1, <1>2, <2>1 DEF StreamsCorrespond
    <3>2. i = 1 /\ Lead = 1
      BY <1>3, <3>1
    <3>3. Fin(res.id).id = res.id
      BY <2>1, FinFits
    <3> QED
      BY <3>1, <3>2, <3>3
  <2>12. ResultsReal'
    BY <1>1, <1>2, <2>3 DEF ResultsReal, Real
  <2>13. VersionsMeant'
    <3>1. ASSUME NEW o \in Nat, NEW n \in Nat, Meant(o, n) PROVE Meant(o, n)'
      <4>1. o = 0 \/ (o \in 1..Len(done) /\ n = done[o].op.size)
        BY <1>3, <3>1
      <4> QED
        BY <2>3, <4>1 DEF Meant
    <3> QED
      BY <1>1, <1>2, <3>1 DEF VersionsMeant
  <2>14. ClientsAreServed'
    BY <1>2, <2>3 DEF Talk, ClientsAreServed
  <2> QED
    BY <1>12, <1>13, <2>5, <2>6, <2>7, <2>8, <2>9, <2>10, <2>11, <2>12, <2>13, <2>14 DEF Talk
<1>16. CASE ~ res.ok
  <2>1. r \in Results /\ r.op = op /\ ~ r.ok
    <3>1. <<>> \in Files
      BY DEF Files
    <3> QED
      BY <1>4, <3>1 DEF Results
  <2>2. done \in Seq(Results) /\ Len(done) \in Nat /\ done' = Append(done, r)
    BY <1>1, <1>7, <1>16, Parts
  <2> HIDE DEF r
  <2>3. /\ done' \in Seq(Results) /\ Len(done') = Len(done) + 1
        /\ done'[Len(done) + 1] = r /\ \A i \in 1..Len(done) : done'[i] = done[i]
    BY <2>1, <2>2
  <2>4. cli' \in Clients /\ cli'.at = "failed" /\ cli'.op = op /\ cli'.left = cli.left
    BY <1>1, <1>4, <1>7, <1>16 DEF RemoteTypes, Clients
  <2>5. RemoteTypes'
    BY <1>1, <1>2, <1>8, <2>3, <2>4 DEF RemoteTypes
  <2>6. Ends'
    BY <1>1, <1>2, <1>3, <1>14, <2>4 DEF Ends
  <2>7. Aligned'
    <3> SUFFICES ASSUME Listening,
                        srv.at = "put" \/ \E i \in 1..Len(chan[S]) : "DAT" \in chan[S][i].flags
                 PROVE  FALSE
      BY <1>2, <1>10, <2>4 DEF Aligned
    <3>1. srv.at = "loop"
      BY <1>3 DEF Listening, Busy
    <3> QED
      BY <1>3, <3>1
  <2>8. ToClient' /\ StreamsCorrespond'
    BY <2>4 DEF ToClient, StreamsCorrespond
  <2>9. ClientSound'
    <3>1. done' # <<>> /\ done'[Len(done')].op = op /\ ~ done'[Len(done')].ok
      BY <2>1, <2>2, <2>3
    <3> QED
      BY <2>4, <3>1 DEF ClientSound
  <2>10. NewStreamFree'
    <3> SUFFICES ASSUME srv.at = "loop", Opening' PROVE FALSE
      BY <1>2 DEF NewStreamFree
    <3>1. \A i \in 1..Len(chan[S]) : "SYN" \notin chan[S][i].flags
      BY <1>3
    <3> QED
      BY <1>2, <2>4, <3>1 DEF Opening
  <2>11. ResultsReal'
    <3> SUFFICES ASSUME NEW i \in 1..Len(done)' PROVE (done[i].op.no = i /\ Real(done[i]))'
      BY DEF ResultsReal
    <3>1. CASE i \in 1..Len(done)
      <4>1. done[i].op.no = i /\ Real(done[i]) /\ done'[i] = done[i]
        BY <1>1, <2>3, <3>1 DEF ResultsReal
      <4> QED
        BY <1>2, <4>1 DEF Real
    <3>2. CASE i = Len(done) + 1
      <4>1. done'[i] = r
        BY <2>3, <3>2
      <4> QED
        BY <1>4, <2>1, <3>2, <4>1 DEF Real
    <3> QED
      BY <2>2, <2>3, <3>1, <3>2
  <2>12. VersionsMeant'
    <3>1. ASSUME NEW o \in Nat, NEW n \in Nat, Meant(o, n) PROVE Meant(o, n)'
      <4>1. o = 0 \/ (o \in 1..Len(done) /\ n = done[o].op.size)
        BY <1>3, <3>1
      <4>2. o = 0 \/ (o \in 1..Len(done') /\ n = done'[o].op.size)
        BY <2>2, <2>3, <4>1
      <4> QED
        BY <4>2 DEF Meant
    <3> QED
      BY <1>1, <1>2, <3>1 DEF VersionsMeant
  <2>13. ClientsAreServed'
    <3>1. \A i \in 1..Len(done) : i \in 1..Len(done') /\ done'[i] = done[i]
      BY <2>2, <2>3
    <3> QED
      BY <1>2, <3>1 DEF Talk, ClientsAreServed
  <2> QED
    BY <1>12, <1>13, <2>5, <2>6, <2>7, <2>8, <2>9, <2>10, <2>11, <2>12, <2>13 DEF Talk
<1> QED
  BY <1>15, <1>16

(* The next frame of a request goes out: it takes its place behind those   *)
(* that are on the way.                                                    *)
LEMMA SendsOn ==
    ASSUME Talk, strays = 0, cli.at = "send", chan' = Put(C, <<Head(cli.left)>>),
           cli' = [cli EXCEPT !.left = Tail(@),
                              !.at = IF Len(cli.left) = 1 THEN "recv" ELSE @],
           UNCHANGED <<sess, closed, srv, remote, strays, versions, done>>
    PROVE  Talk'
<1> DEFINE f == Head(cli.left)
           n == Len(chan[S])
<1>1. /\ RemoteTypes /\ Ends /\ ToServer /\ Aligned /\ Serving /\ ToClient /\ ClientSound
      /\ NewStreamFree
  BY DEF Talk
<1>2. /\ cli.left \in Seq(SwspFrames) /\ cli.left # <<>> /\ Sent \in Nat
      /\ \A i \in 1..Len(cli.left) : cli.left[i] = Asked[Sent + i]
      /\ cli.id \in Streams(C) /\ cli.op.no = Len(done) + 1
      /\ cli.op.kind = "put" => cli.meta = <<>>
  BY <1>1, Parts DEF ClientSound
<1>3. /\ f = cli.left[1] /\ f \in SwspFrames /\ Len(cli.left) \in Nat /\ Len(cli.left) >= 1
      /\ 1 \in 1..Len(cli.left)
      /\ Tail(cli.left) \in Seq(SwspFrames) /\ Len(Tail(cli.left)) = Len(cli.left) - 1
      /\ \A i \in 1..Len(Tail(cli.left)) : /\ Tail(cli.left)[i] = cli.left[i + 1]
                                           /\ i + 1 \in 1..Len(cli.left)
  BY <1>2, Shifted
<1>4. /\ Len(Asked) \in Nat /\ Taken \in Nat /\ Lead \in {0, 1}
      /\ Sent = Len(Asked) - Len(cli.left)
  BY <1>1, Places
<1>5. f = Asked[Sent + 1] /\ Sent + 1 \in Int /\ Sent + 1 \in 1..Len(Asked)
  <2>1. Sent + 1 \in Int /\ Sent + 1 \in 1..Len(Asked)
    BY <1>2, <1>3, <1>4
  <2> QED
    BY <1>2, <1>3, <2>1
<1> HIDE DEF f
<1>6. /\ f.id = cli.id /\ "DAT" \in f.flags /\ f.flags # {"FIN"}
      /\ "SYN" \in f.flags <=> Sent + 1 = 1
  BY <1>1, <1>5, AskedFrames
<1>7. cli.id # 0 /\ C \notin closed
  BY <1>1, <1>2, StreamIds DEF Ends
<1>8. /\ cli' \in Clients /\ cli'.left = Tail(cli.left) /\ cli'.op = cli.op /\ cli'.id = cli.id
      /\ cli'.meta = cli.meta /\ cli'.at \in {"send", "recv"}
      /\ cli'.at = "recv" <=> Len(cli.left) = 1
  BY <1>1, <1>3 DEF RemoteTypes, Clients
<1>9. /\ chan' \in [Sides -> Seq(SwspFrames)] /\ chan'[C] = chan[C]
      /\ chan'[S] = IF S \in closed THEN chan[S] ELSE chan[S] \o <<f>>
  <2>1. chan \in [Sides -> Seq(SwspFrames)] /\ <<f>> \in Seq(SwspFrames)
    BY <1>1, <1>3, OneFrame DEF RemoteTypes
  <2>2. chan[S] \in Seq(SwspFrames) /\ chan[S] \o <<f>> \in Seq(SwspFrames)
    BY <2>1, TwoSides, ConcatProperties
  <2>3. chan' = [chan EXCEPT ![S] = IF S \in closed THEN @ ELSE @ \o <<f>>]
    BY TwoSides DEF Put, f
  <2> QED
    BY <2>1, <2>2, <2>3, TwoSides
<1>10. Asked' = Asked /\ Taken' = Taken /\ Listening' = Listening /\ Sent' = Sent + 1
  <2>1. Asked' = Asked /\ Taken' = Taken /\ Listening' = Listening
    BY <1>8 DEF Asked, Taken, Listening
  <2> DEFINE t == Len(Tail(cli.left))
             l == Len(cli.left)
             a == Len(Asked)
  <2>2. Sent' = a - t
    BY <1>8, <2>1 DEF Sent
  <2>3. t = l - 1 /\ l \in Nat /\ a \in Nat /\ Sent = a - l
    BY <1>3, <1>4
  <2> HIDE DEF t, l, a
  <2>4. a - (l - 1) = (a - l) + 1
    BY ONLY <2>3
  <2>5. Sent' = Sent + 1
    BY ONLY <2>2, <2>3, <2>4
  <2> QED
    BY <2>1, <2>5
<1>11. RemoteTypes'
  BY <1>1, <1>8, <1>9 DEF RemoteTypes
<1>12. Ends'
  <2>1. \A x \in Sides : x \in closed => chan'[x] = chan[x]
    BY <1>7, <1>9, TwoSides
  <2> QED
    BY <1>1, <1>8, <2>1 DEF Ends
<1>13. ToClient'
  BY <1>1, <1>8, <1>9 DEF ToClient, Fin, Frame, Empty, Body
<1>14. ClientSound'
  <2>1. Sent' \in Nat
    BY <1>2, <1>10
  <2>2. ASSUME cli'.at = "send" PROVE cli'.left # <<>>
    <3>1. Len(cli.left) # 1
      BY <1>8, <2>2
    <3>2. Len(Tail(cli.left)) # 0
      BY <1>3, <3>1
    <3>3. \A t \in Seq(SwspFrames) : Len(t) # 0 => t # <<>>
      OBVIOUS
    <3> QED
      BY <1>3, <1>8, <3>2, <3>3
  <2>3. ASSUME NEW i \in 1..Len(cli'.left) PROVE cli'.left[i] = Asked'[Sent' + i]
    <3>1. cli'.left[i] = cli.left[i + 1] /\ i + 1 \in 1..Len(cli.left)
      BY <1>3, <1>8
    <3>2. cli.left[i + 1] = Asked[Sent + (i + 1)]
      BY <1>2, <3>1
    <3>3. Sent + (i + 1) = Sent + 1 + i
      BY <1>2, <1>3
    <3> QED
      BY <1>10, <3>1, <3>2, <3>3
  <2>4. ASSUME cli'.at = "recv" PROVE cli'.left = <<>>
    <3>1. Len(Tail(cli.left)) = 0
      BY <1>3, <1>8, <2>4
    <3> QED
      BY <1>3, <1>8, <3>1
  <2>5. Streams(C)' = Streams(C)
    BY DEF Streams
  <2> QED
    BY <1>2, <1>8, <2>1, <2>2, <2>3, <2>4, <2>5 DEF ClientSound
<1>15. Serving'
  BY <1>1, <1>8 DEF Serving, Streams
<1>16. Collecting'
  BY <1>8, <1>10 DEF Talk, Collecting
<1>17. Answering'
  BY <1>8 DEF Talk, Answering, Answers
<1>18. ResultsReal' /\ ClientsAreServed'
  BY DEF Talk, ResultsReal, Real, ClientsAreServed
<1>19. VersionsMeant'
  BY <1>8 DEF Talk, VersionsMeant, Meant
<1>20. ToServer' /\ Aligned' /\ StreamsCorrespond' /\ NewStreamFree'
  <2>1. CASE srv.at \in {"ended", "closed"}
    BY <2>1 DEF ToServer, Aligned, StreamsCorrespond, NewStreamFree, Listening
  <2>2. CASE srv.at \notin {"ended", "closed"}
    <3>1. S \notin closed
      BY <1>1, <2>2 DEF Ends
    <3>2. /\ Len(chan'[S]) = n + 1 /\ n \in Nat
          /\ \A i \in 1..n : chan'[S][i] = chan[S][i]
          /\ chan'[S][n + 1] = f
      <4>1. chan[S] \in Seq(SwspFrames) /\ chan'[S] = chan[S] \o <<f>>
        BY <1>1, <1>9, <3>1, Parts
      <4> QED
        BY <1>3, <4>1, Appended
    <3>3. Listening
      <4>1. srv.at \in Busy => srv.at = "put"
        BY <1>1 DEF Serving
      <4> QED
        BY <1>1, <2>2, <4>1 DEF RemoteTypes, Dispatchers, Listening
    <3>4. /\ Taken + n - Lead = Sent
          /\ \A i \in 1..n : chan[S][i].id = 0 => Taken + i - 1 - Lead = Sent
      BY <1>1, <1>7, <3>3 DEF Aligned
    <3> HIDE DEF n
    <3>5. Taken + (n + 1) - Lead = Sent + 1
      <4>1. Taken \in Int /\ n \in Int /\ Lead \in Int /\ Sent \in Int
        BY <1>2, <1>4, <3>2
      <4>2. Taken + n - Lead = Sent
        BY <3>4
      <4> QED
        BY ONLY <4>1, <4>2
    <3>6. Lead' = Lead
      <4>1. CASE n = 0
        <5>1. chan'[S][1] = f
          BY <3>2, <4>1
        <5>2. Lead = 0
          BY <4>1 DEF Lead, n
        <5> QED
          BY <1>6, <5>1, <5>2 DEF Lead
      <4>2. CASE n # 0
        <5>1. n \in Nat
          BY <3>2
        <5>2. 1 \in 1..n
          BY ONLY <5>1, <4>2
        <5>3. chan'[S][1] = chan[S][1]
          BY <3>2, <5>2
        <5>4. chan[S] # <<>> /\ chan'[S] # <<>>
          BY <3>2, <5>2 DEF n
        <5> QED
          BY <5>3, <5>4 DEF Lead
      <4> QED
        BY <4>1, <4>2
    <3>7. \A i \in 1..Len(chan'[S]) : i \in 1..n \/ i = n + 1
      BY <3>2
    <3>8. ToServer'
      <4> SUFFICES ASSUME NEW i \in 1..Len(chan'[S]) PROVE Closes(i)' \/ Leaves(i)' \/ Asks(i)'
        BY DEF ToServer
      <4>1. CASE i \in 1..n
        <5>1. Closes(i) \/ Asks(i)
          BY <1>1, <1>7, <2>2, <4>1 DEF ToServer, Leaves, n
        <5>2. chan'[S][i] = chan[S][i]
          BY <3>2, <4>1
        <5>3. CASE Closes(i)
          BY <5>2, <5>3 DEF Closes, Streams, Fin, Frame, Empty, Body
        <5>4. CASE Asks(i)
          <6>1. Taken + i - Lead \in 1..Sent /\ chan[S][i] = Asked[Taken + i - Lead]
            BY <5>4 DEF Asks
          <6>2. Taken + i - Lead \in 1..Sent + 1
            BY <1>2, <6>1
          <6> QED
            BY <1>8, <1>10, <3>3, <3>6, <5>2, <6>1, <6>2 DEF Asks
        <5> QED
          BY <5>1, <5>3, <5>4
      <4>2. CASE i = n + 1
        <5>1. Taken + (n + 1) - Lead = Sent + 1
          BY <3>5
        <5>2. Taken' + i - Lead' = Sent + 1 /\ Sent + 1 \in 1..Sent'
          BY <1>2, <1>10, <3>6, <4>2, <5>1
        <5>3. chan'[S][i] = Asked[Sent + 1]
          BY <1>5, <3>2, <4>2
        <5> QED
          BY <1>8, <1>10, <3>3, <5>2, <5>3 DEF Asks
      <4> QED
        BY <3>7, <4>1, <4>2
    <3>9. Aligned'
      <4> SUFFICES /\ Taken + (n + 1) - Lead = Sent + 1
                   /\ \A i \in 1..Len(chan'[S]) : chan'[S][i].id # 0
        BY <1>10, <3>2, <3>6 DEF Aligned
      <4>1. Taken + (n + 1) - Lead = Sent + 1
        BY <3>5
      <4>2. ASSUME NEW i \in 1..n, chan[S][i].id = 0 PROVE FALSE
        <5>1. Taken + i - 1 - Lead = Sent
          BY <3>4, <4>2
        <5> QED
          BY <1>2, <1>4, <3>2, <3>4, <5>1
      <4> QED
        BY <1>6, <1>7, <3>2, <3>7, <4>1, <4>2
    <3>10. StreamsCorrespond'
      <4>1. \A i \in 1..n : i \in 1..Len(chan'[S])
        BY <3>2
      <4>2. ASSUME NEW id \in Streams(S)
            PROVE  id \in Streams(C) \/ \E i \in 1..Len(chan'[S]) : chan'[S][i] = Fin(id)
        <5>1. id \in Streams(C) \/ \E i \in 1..Len(chan[S]) : chan[S][i] = Fin(id)
          BY <2>2 DEF Talk, StreamsCorrespond
        <5> QED
          BY <3>2, <4>1, <5>1 DEF n
      <4> QED
        BY <4>2 DEF StreamsCorrespond, Streams
    <3>11. NewStreamFree'
      <4> SUFFICES ASSUME srv.at = "loop", Opening', cli.id \in Streams(S)
                   PROVE  Lead = 1 /\ chan'[S][1].id = cli.id
        BY <1>8, <3>6 DEF NewStreamFree, Streams
      <4>1. Sent' # 0
        BY <1>2, <1>10
      <4>2. PICK i \in 1..Len(chan'[S]) : "SYN" \in chan'[S][i].flags
        BY <4>1 DEF Opening
      <4>3. CASE i \in 1..n
        <5>1. Opening
          BY <3>2, <4>2, <4>3 DEF Opening, n
        <5>2. Lead = 1 /\ chan[S][1].id = cli.id
          BY <1>1, <5>1 DEF NewStreamFree
        <5>3. 1 \in 1..n
          BY <3>2, <4>3
        <5> QED
          BY <3>2, <5>2, <5>3
      <4>4. CASE i = n + 1
        <5>1. Sent = 0
          BY <1>2, <1>6, <3>2, <4>2, <4>4
        <5>2. Opening
          BY <5>1 DEF Opening
        <5>3. Lead = 1 /\ chan[S][1].id = cli.id
          BY <1>1, <5>2 DEF NewStreamFree
        <5>4. n # 0
          BY <5>3 DEF Lead, n
        <5>5. 1 \in 1..n
          BY <3>2, <5>4
        <5> QED
          BY <3>2, <5>3, <5>5
      <4> QED
        BY <3>7, <4>3, <4>4
    <3> QED
      BY <3>8, <3>9, <3>10, <3>11
  <2> QED
    BY <2>1, <2>2
<1> QED
  BY <1>11, <1>12, <1>13, <1>14, <1>15, <1>16, <1>17, <1>18, <1>19, <1>20 DEF Talk

(* The request goes on, or a send fails and with it the operation.         *)
LEMMA ClientSendsKeeps ==
    ASSUME Talk, strays = 0, ClientSends
    PROVE  Talk'
<1>1. RemoteTypes /\ cli.at = "send" /\ UNCHANGED <<sess, closed, srv, remote, strays, versions>>
  BY DEF Talk, ClientSends
<1>2. CASE ClientReturns(FALSE, 0, <<>>) /\ UNCHANGED chan
  <2>1. chan' \in [Sides -> Seq(SwspFrames)] /\ chan'[S] = chan[S]
    BY <1>1, <1>2 DEF RemoteTypes
  <2>2. 0 \in Nat /\ <<>> \in Files
    BY DEF Files
  <2> QED
    BY <1>1, <1>2, <2>1, <2>2, ClientFails
<1>3. CASE /\ chan' = Put(C, <<Head(cli.left)>>)
           /\ cli' = [cli EXCEPT !.left = Tail(@),
                                 !.at = IF Len(cli.left) = 1 THEN "recv" ELSE @]
           /\ UNCHANGED done
  BY <1>1, <1>3, SendsOn
<1> QED
  BY <1>2, <1>3 DEF ClientSends

(* The receive loop is closed and drained.                                 *)
LEMMA ClientDisconnectKeeps ==
    ASSUME Talk, strays = 0, ClientDisconnected
    PROVE  Talk'
<1>1. /\ cli.at = "recv" /\ ClientReturns(FALSE, 0, <<>>)
      /\ UNCHANGED <<sess, chan, closed, srv, remote, strays, versions>>
      /\ chan' \in [Sides -> Seq(SwspFrames)] /\ chan'[S] = chan[S]
  BY DEF Talk, RemoteTypes, ClientDisconnected
<1>2. 0 \in Nat /\ <<>> \in Files
  BY DEF Files
<1> QED
  BY <1>1, <1>2, ClientFails

-----------------------------------------------------------------------------
(* The client's receive loops                                              *)

(* What an operation is told when it returns: it is recorded under its own *)
(* number, and the versions of the file stay accounted for.                *)
LEMMA OperationReturns ==
    ASSUME Talk, cli.at \in {"send", "recv"}, NEW ok \in BOOLEAN, NEW of \in Nat,
           NEW data \in Files, ClientReturns(ok, of, data),
           ok /\ cli.op.kind # "get" => of = cli.op.no,
           ok /\ cli.op.kind = "put" => Content(cli.op.no, cli.op.size) \in versions,
           UNCHANGED <<srv, remote, strays, versions>>
    PROVE  /\ done' \in Seq(Results) /\ done' # <<>> /\ done'[Len(done')].op = cli.op
           /\ cli' \in Clients /\ cli'.at = IF ok THEN "idle" ELSE "failed"
           /\ cli'.op = cli.op /\ cli'.id = cli.id /\ cli'.left = cli.left
           /\ ResultsReal' /\ VersionsMeant' /\ ClientsAreServed'
<1> DEFINE r == [op |-> cli.op, ok |-> ok, of |-> of, data |-> data]
<1>1. RemoteTypes /\ ClientSound
  BY DEF Talk
<1>2. cli.op \in Ops /\ done \in Seq(Results) /\ Len(done) \in Nat
  BY <1>1, Parts
<1>3. r \in Results /\ r.op = cli.op /\ r.ok = ok /\ r.of = of
  BY <1>2 DEF Results
<1>4. done' = Append(done, r)
  BY DEF ClientReturns
<1> HIDE DEF r
<1>5. /\ done' \in Seq(Results) /\ Len(done') = Len(done) + 1
      /\ done'[Len(done) + 1] = r /\ \A i \in 1..Len(done) : done'[i] = done[i]
  BY <1>2, <1>3, <1>4
<1>6. /\ cli' \in Clients /\ cli'.at = IF ok THEN "idle" ELSE "failed"
      /\ cli'.op = cli.op /\ cli'.id = cli.id /\ cli'.left = cli.left
  BY <1>1 DEF RemoteTypes, Clients, ClientReturns
<1>7. done' # <<>> /\ done'[Len(done')].op = cli.op
  BY <1>2, <1>3, <1>5
<1>8. ResultsReal'
  <2> SUFFICES ASSUME NEW i \in 1..Len(done)' PROVE (done[i].op.no = i /\ Real(done[i]))'
    BY DEF ResultsReal
  <2>1. CASE i \in 1..Len(done)
    <3>1. done[i].op.no = i /\ Real(done[i]) /\ done'[i] = done[i]
      BY <1>5, <2>1 DEF Talk, ResultsReal
    <3> QED
      BY <3>1 DEF Real
  <2>2. CASE i = Len(done) + 1
    <3>1. done'[i] = r /\ cli.op.no = Len(done) + 1
      BY <1>1, <1>5, <2>2 DEF ClientSound
    <3> QED
      BY <1>3, <2>2, <3>1 DEF Real
  <2> QED
    BY <1>2, <1>5, <2>1, <2>2
<1>9. VersionsMeant'
  <2>1. ASSUME NEW o, NEW n, Meant(o, n) PROVE Meant(o, n)'
    <3>1. CASE o = 0 \/ (o = cli.op.no /\ n = cli.op.size)
      BY <1>6, <3>1 DEF Meant
    <3>2. CASE o \in 1..Len(done) /\ n = done[o].op.size
      <4>1. o \in 1..Len(done') /\ done'[o] = done[o]
        BY <1>2, <1>5, <3>2
      <4> QED
        BY <3>2, <4>1 DEF Meant
    <3> QED
      BY <2>1, <3>1, <3>2 DEF Meant
  <2> QED
    BY <2>1 DEF Talk, VersionsMeant
<1>10. ClientsAreServed'
  <2>1. \A i \in 1..Len(done) : i \in 1..Len(done') /\ done'[i] = done[i]
    BY <1>2, <1>5
  <2> QED
    BY <2>1 DEF Talk, ClientsAreServed
<1> QED
  BY <1>5, <1>6, <1>7, <1>8, <1>9, <1>10

(* The frame that a waiting client takes next is the end of the session of *)
(* a server that has closed, with nothing behind it, or a frame of the     *)
(* answer to its operation.                                                *)
LEMMA NextAnswer ==
    ASSUME Talk, cli.at = "recv", chan[C] # <<>>
    PROVE  LET f == chan[C][1]
           IN  /\ f \in SwspFrames /\ cli.id # 0 /\ Head(chan[C]) = f
               /\ Tail(chan[C]) \in Seq(SwspFrames)
               /\ \/ f.id = 0 /\ f.flags = {"FIN"} /\ Tail(chan[C]) = <<>> /\ S \in closed
                  \/ Answers(f) /\ (Fins(f) => Answered(1))
<1> DEFINE f == chan[C][1]
           n == Len(chan[C])
<1>1. RemoteTypes /\ ToClient /\ ClientSound /\ chan[C] \in Seq(SwspFrames)
  BY Parts DEF Talk
<1>2. /\ f \in SwspFrames /\ Head(chan[C]) = f /\ 1 \in 1..n /\ n \in Nat
      /\ Tail(chan[C]) \in Seq(SwspFrames) /\ Len(Tail(chan[C])) = n - 1
  BY <1>1, Shifted
<1>3. cli.id # 0
  BY <1>1, StreamIds DEF ClientSound
<1>4. \/ f = Fin(0) /\ 1 = n /\ S \in closed
      \/ Answers(f) /\ (Fins(f) => Answered(1))
  BY <1>1, <1>2 DEF ToClient
<1>5. ASSUME f = Fin(0), 1 = n
      PROVE  f.id = 0 /\ f.flags = {"FIN"} /\ Tail(chan[C]) = <<>>
  <2>1. f.id = 0 /\ f.flags = {"FIN"}
    BY <1>5, ZeroId, FinFits
  <2>2. Len(Tail(chan[C])) = 0
    BY <1>2, <1>5
  <2>3. \A t \in Seq(SwspFrames) : Len(t) = 0 => t = <<>>
    OBVIOUS
  <2> QED
    BY <1>2, <2>1, <2>2, <2>3
<1> QED
  BY <1>2, <1>3, <1>4, <1>5

(* The last frame of an answer: the client closes its stream, and the FIN  *)
(* it sends finds a dispatcher that reads and still has the stream.        *)
LEMMA FinishesKeeps ==
    ASSUME Talk, strays = 0, cli.at = "recv", chan[C] # <<>>, Fins(chan[C][1]),
           NEW sent \in BOOLEAN, NEW ok \in BOOLEAN, NEW of \in Nat, NEW data \in Files,
           ok /\ cli.op.kind # "get" => chan[C][1].id # 0 /\ of = chan[C][1].body.op,
           ClientCloses(sent, Tail(chan[C])), ClientReturns(ok, of, data),
           UNCHANGED <<closed, srv, remote, strays, versions>>
    PROVE  Talk'
<1> DEFINE f == chan[C][1]
           rest == Tail(chan[C])
<1>1. RemoteTypes /\ Ends /\ ToClient /\ ClientSound /\ StreamsCorrespond
  BY DEF Talk
<1>2. /\ rest \in Seq(SwspFrames) /\ cli.id # 0
      /\ \/ f.id = 0 /\ rest = <<>> /\ S \in closed
         \/ Answers(f) /\ Answered(1)
  BY NextAnswer
<1>3. /\ cli.left = <<>> /\ cli.id \in Streams(C) /\ cli.id \in U32
      /\ C \notin closed /\ sess[C].state = "Ready" /\ Sound(sess[C])
      /\ S \in closed <=> srv.at = "closed"
      /\ S \in closed => chan[S] = <<>>
  BY <1>1, Parts, TwoSides DEF ClientSound, Ends
<1>4. ASSUME f.id # 0
      PROVE  /\ cli.op.kind # "get" => f.body.op = cli.op.no
             /\ cli.op.kind = "put" => Content(cli.op.no, cli.op.size) \in versions
  BY <1>2, <1>4 DEF Answers
<1>5. /\ done' \in Seq(Results) /\ done' # <<>> /\ done'[Len(done')].op = cli.op
      /\ cli' \in Clients /\ cli'.at = IF ok THEN "idle" ELSE "failed"
      /\ cli'.op = cli.op /\ cli'.id = cli.id /\ cli'.left = cli.left
      /\ ResultsReal' /\ VersionsMeant' /\ ClientsAreServed'
  <2>1. ok /\ cli.op.kind # "get" => of = cli.op.no
    BY <1>4
  <2>2. ok /\ cli.op.kind = "put" => Content(cli.op.no, cli.op.size) \in versions
    BY <1>4
  <2> QED
    BY <2>1, <2>2, OperationReturns
<1>6. /\ srv.at \notin Busy
      /\ srv.at \notin {"ended", "closed"} =>
             srv.at = "loop" /\ chan[S] = <<>> /\ cli.id \in Streams(S)
  <2>1. srv.at \in Busy \cup {"loop", "ended", "closed"}
    BY <1>1 DEF RemoteTypes, Dispatchers
  <2>2. CASE S \in closed
    BY <1>3, <2>2 DEF Busy
  <2>3. CASE Answered(1)
    BY <2>1, <2>3 DEF Answered
  <2> QED
    BY <1>2, <2>2, <2>3
<1>7. /\ chan' \in [Sides -> Seq(SwspFrames)] /\ chan'[C] = rest
      /\ chan'[S] = IF S \in closed \/ ~ sent THEN chan[S] ELSE chan[S] \o <<Fin(cli.id)>>
  <2>1. chan \in [Sides -> Seq(SwspFrames)] /\ chan[S] \in Seq(SwspFrames)
    BY <1>1, Parts DEF RemoteTypes
  <2>2. Fin(cli.id) \in SwspFrames
    BY <1>3, FinFits
  <2>3. <<Fin(cli.id)>> \in Seq(SwspFrames)
    BY <2>2, OneFrame
  <2>4. chan[S] \o <<Fin(cli.id)>> \in Seq(SwspFrames)
    BY <2>1, <2>3, ConcatProperties
  <2>5. chan[S] \o <<>> = chan[S]
    BY <2>1
  <2>6. chan' = [Put(C, IF sent THEN <<Fin(cli.id)>> ELSE <<>>) EXCEPT ![C] = rest]
    BY DEF ClientCloses
  <2>7. Put(C, IF sent THEN <<Fin(cli.id)>> ELSE <<>>) =
            [chan EXCEPT ![S] = IF S \in closed \/ ~ sent THEN chan[S]
                                ELSE chan[S] \o <<Fin(cli.id)>>]
    <3>1. Put(C, IF sent THEN <<Fin(cli.id)>> ELSE <<>>) =
              [chan EXCEPT ![S] = IF S \in closed THEN chan[S]
                                  ELSE chan[S] \o (IF sent THEN <<Fin(cli.id)>> ELSE <<>>)]
      BY TwoSides DEF Put
    <3>2. (IF S \in closed THEN chan[S]
           ELSE chan[S] \o (IF sent THEN <<Fin(cli.id)>> ELSE <<>>)) =
              IF S \in closed \/ ~ sent THEN chan[S] ELSE chan[S] \o <<Fin(cli.id)>>
      BY <2>5
    <3> QED
      BY <3>1, <3>2
  <2> HIDE DEF rest
  <2> QED
    BY <1>2, <2>1, <2>4, <2>6, <2>7, TwoSides
<1> HIDE DEF rest
<1>8. /\ sess' \in [Sides -> Sessions] /\ \A x \in Sides : Sound(sess'[x])
      /\ \A x \in Sides : x \notin closed => sess'[x].state = "Ready"
      /\ sess'[S] = sess[S]
      /\ Live(sess'[C].registry) = IF sent THEN Streams(C) \ {cli.id} ELSE Streams(C)
  <2> DEFINE t == CloseStream(sess[C], cli.id).session
  <2>1. /\ Sound(t) /\ t.state = "Ready"
        /\ Live(t.registry) = Live(sess[C].registry) \ {cli.id}
    <3>1. Sound(sess[C]) /\ sess[C].state = "Ready" /\ cli.id \in U32
      BY <1>3
    <3> QED
      BY ONLY <3>1, CloseStreamFits
  <2>2. t \in Sessions
    BY <2>1 DEF Sound
  <2>3. /\ sess \in [Sides -> Sessions] /\ \A x \in Sides : Sound(sess[x])
        /\ \A x \in Sides : x \notin closed => sess[x].state = "Ready"
    BY <1>1 DEF RemoteTypes, Ends
  <2>4. sess' = IF sent THEN [sess EXCEPT ![C] = t] ELSE sess
    BY DEF ClientCloses
  <2> HIDE DEF t
  <2>5. \A x \in Sides : x = S \/ x = C
    BY TwoSides
  <2>6. CASE sent
    <3>1. sess'[C] = t /\ sess'[S] = sess[S] /\ sess' \in [Sides -> Sessions]
      BY <2>2, <2>3, <2>4, <2>6, TwoSides
    <3>2. \A x \in Sides : Sound(sess'[x])
      BY <2>1, <2>3, <2>5, <3>1
    <3>3. \A x \in Sides : x \notin closed => sess'[x].state = "Ready"
      BY <2>1, <2>3, <2>5, <3>1
    <3> QED
      BY <2>1, <2>6, <3>1, <3>2, <3>3 DEF Streams
  <2>7. CASE ~ sent
    BY <2>3, <2>4, <2>7 DEF Streams
  <2> QED
    BY <2>6, <2>7
<1>9. /\ Streams(S)' = Streams(S)
      /\ Streams(C)' = IF sent THEN Streams(C) \ {cli.id} ELSE Streams(C)
  BY <1>8 DEF Streams, S, C
<1>10. RemoteTypes'
  BY <1>1, <1>5, <1>7, <1>8 DEF RemoteTypes
<1>11. Ends'
  <2>1. S \in closed => chan'[S] = <<>>
    BY <1>3, <1>7
  <2>2. C \notin closed /\ cli'.at # "closed"
    BY <1>3, <1>5
  <2>3. \A x \in Sides : x = S \/ x = C
    BY TwoSides
  <2> QED
    BY <1>3, <1>8, <2>1, <2>2, <2>3 DEF Ends
<1>12. /\ Serving' /\ Collecting' /\ Answering'
  BY <1>6 DEF Serving, Collecting, Answering, Busy
<1>13. ASSUME srv.at \notin {"ended", "closed"}
       PROVE  /\ ~ sent => Len(chan'[S]) = 0
              /\ sent => Len(chan'[S]) = 1 /\ chan'[S][1] = Fin(cli.id)
              /\ Fin(cli.id).id = cli.id /\ Fin(cli.id).flags = {"FIN"}
              /\ cli.id \in Streams(S)
  <2>1. chan[S] = <<>> /\ cli.id \in Streams(S) /\ S \notin closed
    BY <1>3, <1>6, <1>13
  <2>2. Fin(cli.id) \in SwspFrames /\ Fin(cli.id).id = cli.id /\ Fin(cli.id).flags = {"FIN"}
    BY <1>3, FinFits
  <2>3. \A a \in SwspFrames : <<>> \o <<a>> = <<a>>
    OBVIOUS
  <2>4. ~ sent => chan'[S] = <<>>
    BY <1>7, <2>1
  <2>5. sent => chan'[S] = <<Fin(cli.id)>>
    BY <1>7, <2>1, <2>2, <2>3
  <2>6. Len(<<Fin(cli.id)>>) = 1 /\ <<Fin(cli.id)>>[1] = Fin(cli.id) /\ Len(<<>>) = 0
    BY <2>2, OneFrame
  <2>7. /\ ~ sent => Len(chan'[S]) = 0
        /\ sent => Len(chan'[S]) = 1 /\ chan'[S][1] = Fin(cli.id)
    BY ONLY <2>4, <2>5, <2>6
  <2> QED
    BY <2>1, <2>2, <2>7
<1>14. ASSUME srv.at \notin {"ended", "closed"}, NEW i \in 1..Len(chan'[S])
       PROVE  sent /\ i = 1 /\ chan'[S][i] = Fin(cli.id) /\ chan'[S][i].flags = {"FIN"}
  BY <1>6, <1>13, <1>14
<1>15. ToServer'
  <2> SUFFICES ASSUME srv.at \notin {"ended", "closed"}, NEW i \in 1..Len(chan'[S])
               PROVE  Closes(i)'
    BY DEF ToServer
  <2>1. i = 1 /\ chan'[S][1] = Fin(cli.id)
    BY <1>14
  <2>2. chan'[S][1].id = cli.id /\ cli.id \in Streams(S) /\ srv.at = "loop"
    BY <1>6, <1>13, <2>1
  <2> QED
    BY <1>9, <2>1, <2>2 DEF Closes, Fin, Frame, Empty, Body
<1>16. Aligned'
  <2> SUFFICES ASSUME Listening,
                      \/ srv.at = "put"
                      \/ \E i \in 1..Len(chan'[S]) : "DAT" \in chan'[S][i].flags
               PROVE  FALSE
    BY <1>5 DEF Aligned, Listening
  <2>1. srv.at = "loop"
    BY <1>6 DEF Listening, Busy
  <2>2. PICK i \in 1..Len(chan'[S]) : "DAT" \in chan'[S][i].flags
    BY <2>1
  <2> QED
    BY <1>14, <2>1, <2>2
<1>17. ToClient'
  <2> SUFFICES ASSUME NEW i \in 1..Len(rest)
               PROVE  rest[i] = Fin(0) /\ i = Len(rest) /\ S \in closed
    BY <1>7 DEF ToClient, Fin, Frame, Empty, Body
  <2>1. /\ Len(rest) = Len(chan[C]) - 1 /\ Len(chan[C]) \in Nat
        /\ rest[i] = chan[C][i + 1] /\ i + 1 \in 1..Len(chan[C])
    BY <1>1, Parts, Shifted DEF rest
  <2>2. rest # <<>>
    OBVIOUS
  <2>3. Answered(1)
    BY <1>2, <2>2
  <2>4. i + 1 \in 1 + 1..Len(chan[C])
    BY <2>1
  <2>5. chan[C][i + 1].id = 0
    BY <2>3, <2>4 DEF Answered
  <2>6. ~ Answers(chan[C][i + 1])
    BY <2>5 DEF Answers
  <2>7. chan[C][i + 1] = Fin(0) /\ i + 1 = Len(chan[C]) /\ S \in closed
    BY <1>1, <2>1, <2>6 DEF ToClient
  <2> QED
    BY <2>1, <2>7
<1>18. ClientSound'
  BY <1>3, <1>5 DEF ClientSound
<1>19. StreamsCorrespond'
  <2> SUFFICES ASSUME srv.at \notin {"ended", "closed"}, NEW id \in Streams(S)
               PROVE  \/ id \in Streams(C)'
                      \/ \E i \in 1..Len(chan'[S]) : chan'[S][i] = Fin(id)
    BY <1>9 DEF StreamsCorrespond, Fin, Frame, Empty, Body
  <2>1. chan[S] = <<>>
    BY <1>6
  <2>2. id \in Streams(C)
    BY <1>1, <2>1 DEF StreamsCorrespond
  <2>3. CASE sent /\ id = cli.id
    <3>1. 1 \in 1..Len(chan'[S]) /\ chan'[S][1] = Fin(id)
      BY <1>13, <2>3
    <3> QED
      BY <3>1
  <2>4. CASE ~ (sent /\ id = cli.id)
    BY <1>9, <2>2, <2>4
  <2> QED
    BY <2>3, <2>4
<1>20. NewStreamFree'
  <2> SUFFICES ASSUME srv.at = "loop", Opening' PROVE FALSE
    BY DEF NewStreamFree
  <2>1. PICK i \in 1..Len(chan'[S]) : "SYN" \in chan'[S][i].flags
    BY <1>5 DEF Opening
  <2> QED
    BY <1>14, <2>1
<1> QED
  BY <1>5, <1>10, <1>11, <1>12, <1>15, <1>16, <1>17, <1>18, <1>19, <1>20 DEF Talk

(* A frame of an answer that more frames follow: the client keeps on       *)
(* reading.                                                                *)
LEMMA WaitsKeeps ==
    ASSUME Talk, strays = 0, cli.at = "recv", chan[C] # <<>>,
           chan' = [chan EXCEPT ![C] = Tail(chan[C])],
           cli' \in Clients, cli'.at = cli.at, cli'.op = cli.op, cli'.id = cli.id,
           cli'.left = cli.left, cli.op.kind = "put" => cli'.meta = <<>>,
           UNCHANGED <<sess, closed, srv, remote, strays, versions, done>>
    PROVE  Talk'
<1> DEFINE rest == Tail(chan[C])
<1>1. RemoteTypes /\ Ends /\ ToServer /\ Aligned /\ ToClient /\ ClientSound
  BY DEF Talk
<1>2. chan \in [Sides -> Seq(SwspFrames)] /\ chan[C] \in Seq(SwspFrames)
  BY <1>1, Parts DEF RemoteTypes
<1>3. /\ rest \in Seq(SwspFrames) /\ Len(rest) = Len(chan[C]) - 1 /\ Len(chan[C]) \in Nat
      /\ \A i \in 1..Len(rest) : rest[i] = chan[C][i + 1] /\ i + 1 \in 1..Len(chan[C])
  BY <1>2, Shifted
<1> HIDE DEF rest
<1>4. chan' \in [Sides -> Seq(SwspFrames)] /\ chan'[C] = rest /\ chan'[S] = chan[S]
  BY <1>2, <1>3, TwoSides DEF rest
<1>5. Asked' = Asked /\ Sent' = Sent /\ Taken' = Taken /\ Lead' = Lead /\ Listening' = Listening
  BY <1>4 DEF Asked, Sent, Taken, Lead, Listening
<1>6. RemoteTypes'
  BY <1>1, <1>4 DEF RemoteTypes
<1>7. Ends'
  <2>1. C \notin closed
    BY <1>1 DEF Ends
  <2>2. \A x \in Sides : x \in closed => chan'[x] = chan[x]
    BY <1>4, <2>1, TwoSides
  <2> QED
    BY <1>1, <2>2 DEF Ends
<1>8. ToServer'
  <2>1. ASSUME NEW i \in 1..Len(chan[S])
        PROVE  /\ Closes(i) => Closes(i)'
               /\ Leaves(i) => Leaves(i)'
               /\ Asks(i) => Asks(i)'
    BY <1>4, <1>5 DEF Closes, Leaves, Asks, Streams
  <2> QED
    BY <1>1, <1>4, <2>1 DEF ToServer
<1>9. Aligned'
  BY <1>1, <1>4, <1>5 DEF Aligned
<1>10. Serving'
  BY DEF Talk, Serving, Streams
<1>11. Collecting'
  BY <1>5 DEF Talk, Collecting
<1>12. Answering'
  BY DEF Talk, Answering, Answers
<1>13. ToClient'
  <2> SUFFICES ASSUME NEW i \in 1..Len(chan'[C])
               PROVE  \/ (chan[C][i] = Fin(0) /\ i = Len(chan[C]) /\ S \in closed)'
                      \/ (Answers(chan[C][i]) /\ (Fins(chan[C][i]) => Answered(i)))'
    BY DEF ToClient
  <2>1. i \in 1..Len(rest) /\ chan'[C][i] = rest[i]
    BY <1>4
  <2>2. rest[i] = chan[C][i + 1] /\ i + 1 \in 1..Len(chan[C])
    BY <1>3, <2>1
  <2>3. \/ chan[C][i + 1] = Fin(0) /\ i + 1 = Len(chan[C]) /\ S \in closed
        \/ Answers(chan[C][i + 1]) /\ (Fins(chan[C][i + 1]) => Answered(i + 1))
    BY <1>1, <2>2 DEF ToClient
  <2>4. CASE chan[C][i + 1] = Fin(0) /\ i + 1 = Len(chan[C]) /\ S \in closed
    <3>1. chan'[C][i] = Fin(0)
      BY <2>2, <2>4, <2>1
    <3>2. i = Len(chan'[C])
      BY <1>3, <1>4, <2>4, <2>1
    <3> QED
      BY <2>4, <3>1, <3>2 DEF Fin, Frame, Empty, Body
  <2>5. CASE Answers(chan[C][i + 1]) /\ (Fins(chan[C][i + 1]) => Answered(i + 1))
    <3>1. PICK g : g = chan[C][i + 1]
      OBVIOUS
    <3>2. chan'[C][i] = g /\ Answers(g)
      BY <2>2, <2>5, <2>1, <3>1
    <3>3. Answers(chan[C][i])'
      BY <3>2 DEF Answers, Fins
    <3>4. ASSUME Fins(g) PROVE Answered(i)'
      <4>1. Answered(i + 1)
        BY <2>5, <3>4, <3>1
      <4>2. ASSUME NEW j \in i + 1..Len(rest) PROVE rest[j].id = 0
        <5>1. j \in 1..Len(rest) /\ j + 1 \in i + 1 + 1..Len(chan[C])
          BY <1>3, <2>1
        <5> QED
          BY <1>3, <4>1, <5>1 DEF Answered
      <4> QED
        BY <1>4, <4>1, <4>2 DEF Answered, Streams
    <3> QED
      BY <3>3, <3>4, <3>2 DEF Fins
  <2> QED
    BY <2>3, <2>4, <2>5
<1>14. ClientSound'
  BY <1>1, <1>5 DEF ClientSound, Streams
<1>15. StreamsCorrespond'
  BY <1>4 DEF Talk, StreamsCorrespond, Streams, Fin, Frame, Empty, Body
<1>16. NewStreamFree'
  BY <1>4, <1>5 DEF Talk, NewStreamFree, Opening, Streams
<1>17. ResultsReal' /\ ClientsAreServed'
  BY DEF Talk, ResultsReal, Real, ClientsAreServed
<1>18. VersionsMeant'
  BY DEF Talk, VersionsMeant, Meant
<1> QED
  BY <1>6, <1>7, <1>8, <1>9, <1>10, <1>11, <1>12, <1>13, <1>14, <1>15, <1>16, <1>17, <1>18 DEF Talk

(* A frame is taken and the operation fails, its stream left open.         *)
LEMMA GivesUp ==
    ASSUME Talk, strays = 0, cli.at = "recv", chan[C] # <<>>,
           chan' = [chan EXCEPT ![C] = Tail(chan[C])],
           NEW of \in Nat, NEW data \in Files, ClientReturns(FALSE, of, data),
           UNCHANGED <<sess, closed, srv, remote, strays, versions>>
    PROVE  Talk'
<1>1. RemoteTypes /\ chan[C] \in Seq(SwspFrames)
  BY Parts DEF Talk
<1>2. Tail(chan[C]) \in Seq(SwspFrames)
  BY <1>1, Shifted
<1>3. chan' \in [Sides -> Seq(SwspFrames)] /\ chan'[S] = chan[S]
  BY <1>1, <1>2, TwoSides DEF RemoteTypes
<1> QED
  BY <1>3, ClientFails

(* A turn of the loop of run_shell_client_collected.                       *)
LEMMA ShellReceivesKeeps ==
    ASSUME Talk, strays = 0, ClientReceivesShell
    PROVE  Talk'
<1> DEFINE f == Head(chan[C])
           rest == Tail(chan[C])
           as == IF Fins(f) THEN "ShellExit" ELSE "ShellOutput"
<1>1. /\ cli.at = "recv" /\ cli.op.kind = "shell" /\ chan[C] # <<>>
      /\ UNCHANGED <<closed, srv, remote, strays, versions>>
  BY DEF ClientReceivesShell
<1>2. f \in SwspFrames /\ chan[C][1] = f
  BY <1>1, NextAnswer
<1>3. f.body.op \in Nat /\ 0 \in Nat /\ <<>> \in Files
  BY <1>2 DEF SwspFrames, Bodies, Files
<1>4. \/ Fins(f) /\ \E sent \in BOOLEAN, d \in Decodings(f.body.what, as) :
                        /\ ClientCloses(sent, rest)
                        /\ ClientReturns(ShellShape(f) /\ d, f.body.op, <<>>)
      \/ chan' = [chan EXCEPT ![C] = rest] /\ UNCHANGED <<sess, cli, done>>
      \/ chan' = [chan EXCEPT ![C] = rest] /\ ClientReturns(FALSE, 0, <<>>) /\ UNCHANGED sess
  BY Zenon DEF ClientReceivesShell
<1>5. CASE Fins(f) /\ \E sent \in BOOLEAN, d \in Decodings(f.body.what, as) :
                          /\ ClientCloses(sent, rest)
                          /\ ClientReturns(ShellShape(f) /\ d, f.body.op, <<>>)
  <2>1. PICK sent \in BOOLEAN, d \in Decodings(f.body.what, as) :
            /\ ClientCloses(sent, rest)
            /\ ClientReturns(ShellShape(f) /\ d, f.body.op, <<>>)
    BY <1>5
  <2> DEFINE ok == ShellShape(f) /\ d
  <2>2. ok \in BOOLEAN /\ (ok => f.id # 0)
    BY DEF ShellShape
  <2>3. ClientReturns(ok, f.body.op, <<>>)
    BY <2>1
  <2> HIDE DEF ok
  <2> QED
    BY <1>1, <1>2, <1>3, <1>5, <2>1, <2>2, <2>3, FinishesKeeps
<1>6. CASE chan' = [chan EXCEPT ![C] = rest] /\ UNCHANGED <<sess, cli, done>>
  <2>1. cli \in Clients
    BY DEF Talk, RemoteTypes
  <2> QED
    BY <1>1, <1>6, <2>1, WaitsKeeps
<1>7. CASE chan' = [chan EXCEPT ![C] = rest] /\ ClientReturns(FALSE, 0, <<>>) /\ UNCHANGED sess
  BY <1>1, <1>3, <1>7, GivesUp
<1> QED
  BY <1>4, <1>5, <1>6, <1>7

(* A turn of the loop of run_file_client_collected.                        *)
LEMMA FileReceivesKeeps ==
    ASSUME Talk, strays = 0, ClientReceivesFile
    PROVE  Talk'
<1> DEFINE f == chan[C][1]
           rest == Tail(chan[C])
           first == cli.meta = <<>>
           meta == IF first THEN <<f.body.op>> ELSE cli.meta
           data == IF first \/ cli.op.kind # "get" THEN cli.data ELSE cli.data \o Data(f)
<1>1. /\ cli.at = "recv" /\ cli.op.kind # "shell" /\ chan[C] # <<>>
      /\ UNCHANGED <<closed, srv, remote, strays, versions>>
  BY DEF ClientReceivesFile
<1>2. /\ f \in SwspFrames /\ Head(chan[C]) = f
      /\ f.flags = {"FIN"} \/ Answers(f)
  BY <1>1, NextAnswer
<1>3. /\ cli \in Clients /\ cli.meta \in Seq(Nat) /\ cli.data \in Files
      /\ cli.op.kind \in {"shell", "get", "put"}
      /\ cli.op.kind = "put" => first
  BY <1>1 DEF Talk, RemoteTypes, Clients, Ops, ClientSound
<1>4. f.body.op \in Nat /\ f.body.n \in Nat /\ 0 \in Nat /\ <<>> \in Files
  BY <1>2 DEF SwspFrames, Bodies, Files
<1>5. meta \in Seq(Nat) /\ meta[1] \in Nat /\ (first => meta[1] = f.body.op)
  <2>1. CASE first
    BY <1>4, <2>1
  <2>2. CASE ~ first
    BY <1>3, <2>2
  <2> QED
    BY <2>1, <2>2
<1>6. data \in Files
  <2>1. <<f.body.op, f.body.n>> \in Nat \X Nat
    BY <1>4
  <2>2. <<<<f.body.op, f.body.n>>>> \in Seq(Nat \X Nat)
    BY <2>1
  <2>3. <<>> \in Seq(Nat \X Nat)
    OBVIOUS
  <2>4. Data(f) = <<>> \/ Data(f) = <<<<f.body.op, f.body.n>>>>
    BY DEF Data
  <2>5. Data(f) \in Seq(Nat \X Nat)
    BY ONLY <2>2, <2>3, <2>4, Zenon
  <2>6. cli.data \o Data(f) \in Seq(Nat \X Nat)
    BY <1>3, <2>5, ConcatProperties DEF Files
  <2> QED
    BY <1>3, <2>6 DEF Files
<1>7. \/ /\ Fins(f) /\ (first => TRUE \in Metadata(f))
         /\ ClientFinishesFile(meta[1], data, rest)
      \/ /\ ~ Fins(f)
         /\ cli' = [cli EXCEPT !.meta = meta, !.data = data]
         /\ chan' = [chan EXCEPT ![C] = rest] /\ UNCHANGED <<sess, done>>
      \/ chan' = [chan EXCEPT ![C] = rest] /\ ClientReturns(FALSE, 0, <<>>) /\ UNCHANGED sess
  BY <1>2 DEF ClientReceivesFile
<1>8. CASE /\ Fins(f) /\ (first => TRUE \in Metadata(f))
           /\ ClientFinishesFile(meta[1], data, rest)
  <2>1. first => f.id # 0
    BY <1>8 DEF Metadata, InfoShape
  <2>2. cli.op.kind # "get" => f.id # 0 /\ meta[1] = f.body.op
    BY <1>1, <1>3, <1>5, <2>1
  <2> HIDE DEF meta, data
  <2>3. CASE \E sent \in BOOLEAN : ClientCloses(sent, rest) /\ ClientReturns(sent, meta[1], data)
    <3>1. PICK sent \in BOOLEAN : ClientCloses(sent, rest) /\ ClientReturns(sent, meta[1], data)
      BY <2>3
    <3> QED
      BY <1>1, <1>5, <1>6, <1>8, <2>2, <3>1, FinishesKeeps
  <2>4. CASE /\ chan' = [chan EXCEPT ![C] = rest]
             /\ ClientReturns(FALSE, meta[1], data) /\ UNCHANGED sess
    BY <1>1, <1>5, <1>6, <2>4, GivesUp
  <2> QED
    BY <1>8, <2>3, <2>4 DEF ClientFinishesFile
<1>9. CASE /\ ~ Fins(f)
           /\ cli' = [cli EXCEPT !.meta = meta, !.data = data]
           /\ chan' = [chan EXCEPT ![C] = rest] /\ UNCHANGED <<sess, done>>
  <2>1. cli.op.kind # "put"
    BY <1>2, <1>9 DEF Answers, Fins
  <2> HIDE DEF meta, data
  <2>2. /\ cli' \in Clients /\ cli'.at = cli.at /\ cli'.op = cli.op /\ cli'.id = cli.id
        /\ cli'.left = cli.left
    BY <1>3, <1>5, <1>6, <1>9 DEF Clients
  <2> QED
    BY <1>1, <1>9, <2>1, <2>2, WaitsKeeps
<1>10. CASE chan' = [chan EXCEPT ![C] = rest] /\ ClientReturns(FALSE, 0, <<>>) /\ UNCHANGED sess
  BY <1>1, <1>4, <1>10, GivesUp
<1> QED
  BY <1>7, <1>8, <1>9, <1>10

-----------------------------------------------------------------------------
(* The invariant and what follows from it                                  *)

(* Two ends that are ready, with nothing on the way.                       *)
LEMMA Starts == Init => RemoteInv
<1> SUFFICES ASSUME Init PROVE RemoteInv
  OBVIOUS
<1> DEFINE new == NewSession(FALSE, NoPin).session
           ready == MarkReady(new).session
<1>1. /\ sess = [x \in Sides |-> ready] /\ chan = [x \in Sides |-> <<>>] /\ closed = {}
      /\ srv = [at |-> "loop", id |-> 0, req |-> Empty, got |-> <<>>,
                plain |-> TRUE, out |-> <<>>, why |-> "none"]
      /\ cli = [at |-> "idle", op |-> NoOp, id |-> 0, left |-> <<>>,
                meta |-> <<>>, data |-> <<>>]
      /\ remote \in {NoFile} \cup {File(Content(0, n)) : n \in Sizes}
      /\ strays = 0 /\ done = <<>>
      /\ versions = {r.data : r \in {r \in {remote} : r.there}}
  BY DEF Init
<1>2. WellFormed(NewRegistry) /\ Live(NewRegistry) = {} /\ NewRegistry \in Registry
  BY NewRegistryKeeps DEF WellFormed
<1>3. new = [state |-> "Connecting", pin_required |-> FALSE, expected_pin |-> NoPin,
             auth_attempts |-> 0, next_auth_allowed_at |-> 0, registry |-> NewRegistry]
  BY DEF NewSession
<1>4. /\ new \in Sessions /\ new.state = "Connecting" /\ ~ new.pin_required
      /\ new.registry = NewRegistry /\ new.auth_attempts = 0
  <2>1. NoPin \in Seq(Bytes)
    BY DEF NoPin
  <2> HIDE DEF new
  <2>2. "Connecting" \in States
    BY DEF States
  <2>3. FALSE \in BOOLEAN /\ 0 \in Nat
    OBVIOUS
  <2> QED
    BY <1>2, <1>3, <2>1, <2>2, <2>3 DEF Sessions
<1> HIDE DEF new
<1>5. ready = [new EXCEPT !.state = "Ready", !.next_auth_allowed_at = 0]
  BY <1>4 DEF MarkReady, Ok
<1>6. Sound(ready) /\ ready.state = "Ready" /\ Live(ready.registry) = {}
  <2>1. /\ ready \in Sessions /\ ready.state = "Ready" /\ ~ ready.pin_required
        /\ ready.registry = NewRegistry /\ ready.auth_attempts = 0
    BY <1>4, <1>5 DEF Sessions, States
  <2> HIDE DEF ready
  <2> QED
    BY <1>2, <2>1, SessionConstants DEF Sound
<1> HIDE DEF ready
<1>7. /\ \A x \in Sides : sess[x] = ready /\ chan[x] = <<>>
      /\ sess[S] = ready /\ sess[C] = ready /\ chan[S] = <<>> /\ chan[C] = <<>>
      /\ Streams(S) = {} /\ Streams(C) = {}
  BY <1>1, <1>6, TwoSides DEF Streams
<1>8. \/ remote = NoFile /\ versions = {}
      \/ \E n \in Nat : remote = File(Content(0, n)) /\ versions = {Content(0, n)}
  <2>1. CASE remote = NoFile
    BY <1>1, <2>1 DEF NoFile
  <2>2. CASE remote \in {File(Content(0, n)) : n \in Sizes}
    <3>1. PICK n \in Sizes : remote = File(Content(0, n))
      BY <2>2
    <3>2. n \in Nat
      BY RemoteStreamsConstants
    <3>3. remote.there /\ remote.data = Content(0, n)
      BY <3>1 DEF File
    <3>4. versions = {Content(0, n)}
      BY <1>1, <3>3
    <3> QED
      BY <3>1, <3>2, <3>4
  <2> QED
    BY <1>1, <2>1, <2>2
<1>9. RemoteTypes
  <2>1. sess \in [Sides -> Sessions] /\ \A x \in Sides : Sound(sess[x])
    BY <1>1, <1>6 DEF Sound
  <2>2. chan \in [Sides -> Seq(SwspFrames)] /\ done \in Seq(Results) /\ closed \in SUBSET Sides
    BY <1>1
  <2>3. srv \in Dispatchers
    BY <1>1, ZeroId, EmptyFits DEF Dispatchers, Files
  <2>4. NoOp \in Ops
    BY DEF NoOp, Ops
  <2>5. cli \in Clients
    BY <1>1, <2>4, ZeroId DEF Clients, Files
  <2>6. remote \in [there : BOOLEAN, data : Files] /\ versions \in SUBSET Files
    <3>1. CASE remote = NoFile /\ versions = {}
      BY <3>1 DEF NoFile, Files
    <3>2. CASE \E n \in Nat : remote = File(Content(0, n)) /\ versions = {Content(0, n)}
      <4>1. PICK n \in Nat : remote = File(Content(0, n)) /\ versions = {Content(0, n)}
        BY <3>2
      <4>2. Content(0, n) \in Files
        BY ContentFits
      <4> QED
        BY <4>1, <4>2 DEF File
    <3> QED
      BY <1>8, <3>1, <3>2
  <2> QED
    BY <2>1, <2>2, <2>3, <2>5, <2>6 DEF RemoteTypes
<1>10. srv.at = "loop" /\ srv.why = "none" /\ cli.at = "idle" /\ cli.left = <<>> /\ cli.op = NoOp
  BY <1>1
<1>11. Ends
  BY <1>1, <1>6, <1>7, <1>10, TwoSides DEF Ends
<1>12. ToServer /\ ToClient /\ Aligned
  BY <1>7, <1>10 DEF ToServer, ToClient, Aligned
<1>13. Serving /\ Collecting /\ Answering
  BY <1>10 DEF Serving, Collecting, Answering, Busy
<1>14. ClientSound /\ StreamsCorrespond /\ NewStreamFree
  BY <1>1, <1>7, <1>10 DEF ClientSound, StreamsCorrespond, NewStreamFree
<1>15. ResultsReal /\ ClientsAreServed
  BY <1>1, <1>10 DEF ResultsReal, ClientsAreServed
<1>16. VersionsMeant
  <2>1. CASE remote = NoFile /\ versions = {}
    BY <2>1 DEF VersionsMeant, NoFile
  <2>2. CASE \E n \in Nat : remote = File(Content(0, n)) /\ versions = {Content(0, n)}
    <3>1. PICK n \in Nat : remote = File(Content(0, n)) /\ versions = {Content(0, n)}
      BY <2>2
    <3>2. remote.data \in versions
      BY <3>1 DEF File
    <3>3. Meant(0, n)
      BY DEF Meant
    <3> QED
      BY <3>1, <3>2, <3>3 DEF VersionsMeant
  <2> QED
    BY <1>8, <2>1, <2>2
<1> QED
  BY <1>1, <1>9, <1>11, <1>12, <1>13, <1>14, <1>15, <1>16 DEF RemoteInv, Talk

(* A step that changes nothing.                                            *)
LEMMA StutterKeeps ==
    ASSUME Talk, UNCHANGED vars
    PROVE  Talk'
<1>1. /\ sess' = sess /\ chan' = chan /\ closed' = closed /\ srv' = srv /\ cli' = cli
      /\ remote' = remote /\ strays' = strays /\ versions' = versions /\ done' = done
  BY DEF vars
<1>2. /\ Asked' = Asked /\ Sent' = Sent /\ Taken' = Taken /\ Lead' = Lead
      /\ Listening' = Listening
  BY <1>1 DEF Asked, Sent, Taken, Lead, Listening
<1>3. RemoteTypes' /\ Ends'
  BY <1>1 DEF Talk, RemoteTypes, Ends
<1>4. ToServer'
  <2>1. ASSUME NEW i \in 1..Len(chan[S])
        PROVE  /\ Closes(i) => Closes(i)'
               /\ Leaves(i) => Leaves(i)'
               /\ Asks(i) => Asks(i)'
    BY <1>1, <1>2 DEF Closes, Leaves, Asks, Streams
  <2> QED
    BY <1>1, <2>1 DEF Talk, ToServer
<1>5. Aligned' /\ Serving' /\ Collecting'
  BY <1>1, <1>2 DEF Talk, Aligned, Serving, Collecting, Streams
<1>6. Answering' /\ ToClient'
  BY <1>1 DEF Talk, Answering, ToClient, Answers, Answered, Streams
<1>7. ClientSound' /\ StreamsCorrespond' /\ NewStreamFree'
  BY <1>1, <1>2 DEF Talk, ClientSound, StreamsCorrespond, NewStreamFree, Opening, Streams
<1>8. ResultsReal' /\ ClientsAreServed'
  BY <1>1 DEF Talk, ResultsReal, Real, ClientsAreServed
<1>9. VersionsMeant'
  BY <1>1, VersionsKept
<1> QED
  BY <1>3, <1>4, <1>5, <1>6, <1>7, <1>8, <1>9 DEF Talk

(* Every step of either end keeps what is said of a session without stray  *)
(* frames.                                                                 *)
LEMMA StepKeeps == RemoteInv /\ [Next]_vars => RemoteInv'
<1> SUFFICES ASSUME RemoteInv, [Next]_vars PROVE RemoteInv'
  OBVIOUS
<1>1. strays \in Nat
  BY DEF RemoteInv
<1>2. ASSUME NEW x \in Sides, NEW f \in StrayFrames, Stray(x, f) PROVE RemoteInv'
  <2>1. strays' = strays + 1
    BY <1>2 DEF Stray
  <2>2. strays' \in Nat /\ strays' # 0
    BY <1>1, <2>1
  <2> QED
    BY <2>2 DEF RemoteInv
<1>3. ASSUME strays' = strays, strays = 0 => Talk' PROVE RemoteInv'
  BY <1>1, <1>3 DEF RemoteInv
<1>4. ASSUME ServerReceives \/ ServerCollects \/ ServerStores \/ ServerLoads \/ ServerRuns
      PROVE  RemoteInv'
  <2>1. strays' = strays
    BY <1>4 DEF ServerReceives, ServerCollects, ServerStores, ServerLoads, ServerRuns
  <2>2. ASSUME strays = 0 PROVE Talk'
    BY <1>4, <2>2, ReceivesKeeps, CollectsKeeps, StoresKeeps, LoadsKeeps, RunsKeeps
    DEF RemoteInv
  <2> QED
    BY <1>3, <2>1, <2>2
<1>5. ASSUME ServerSends \/ ServerDisconnected \/ ServerShutsDown \/ ServerCleansUp
      PROVE  RemoteInv'
  <2>1. strays' = strays
    BY <1>5 DEF ServerSends, ServerDisconnected, ServerShutsDown, ServerCleansUp
  <2>2. ASSUME strays = 0 PROVE Talk'
    BY <1>5, <2>2, SendsKeeps, DisconnectKeeps, CleansUpKeeps DEF RemoteInv
  <2> QED
    BY <1>3, <2>1, <2>2
<1>6. ASSUME NEW op \in Operations, ClientOpens(op) PROVE RemoteInv'
  <2>1. strays' = strays
    BY <1>6 DEF ClientOpens
  <2>2. ASSUME strays = 0 PROVE Talk'
    BY <1>6, <2>2, OpensKeeps DEF RemoteInv
  <2> QED
    BY <1>3, <2>1, <2>2
<1>7. ASSUME \/ ClientSends \/ ClientReceivesShell \/ ClientReceivesFile
             \/ ClientDisconnected \/ ClientLeaves
      PROVE  RemoteInv'
  <2>1. strays' = strays
    BY <1>7 DEF ClientSends, ClientReceivesShell, ClientReceivesFile, ClientDisconnected,
                ClientLeaves
  <2>2. ASSUME strays = 0 PROVE Talk'
    BY <1>7, <2>2, ClientSendsKeeps, ShellReceivesKeeps, FileReceivesKeeps,
       ClientDisconnectKeeps, LeavesKeeps DEF RemoteInv
  <2> QED
    BY <1>3, <2>1, <2>2
<1>8. ASSUME UNCHANGED vars PROVE RemoteInv'
  <2>1. strays' = strays
    BY <1>8 DEF vars
  <2>2. ASSUME strays = 0 PROVE Talk'
    BY <1>8, <2>2, StutterKeeps DEF RemoteInv
  <2> QED
    BY <1>3, <2>1, <2>2
<1> QED
  BY <1>2, <1>4, <1>5, <1>6, <1>7, <1>8 DEF Next, Finished

(* As long as no frame is on the channel that the protocol does not call   *)
(* for, the dispatcher and the client talk about the same operation: what  *)
(* is on the way to either end is, in its place, what that end reads it    *)
(* as, whatever fails and whichever end closes first.                      *)
THEOREM RemoteInvariance == Spec => []RemoteInv
  BY Starts, StepKeeps, PTL DEF Spec

(* run_shell_client_collected and run_file_client_collected take whatever  *)
(* arrives for the answer to their operation.  That is sound: the status   *)
(* of a command is the one of that command, and an upload reported as      *)
(* copied is a version the remote file had, on every session without stray *)
(* frames.                                                                 *)
THEOREM SuccessStaysReal == Spec => []SuccessIsReal
<1>1. RemoteInv => SuccessIsReal
  <2> SUFFICES ASSUME RemoteInv, strays = 0 PROVE SuccessIsReal
    BY DEF SuccessIsReal
  <2>1. ResultsReal
    BY DEF RemoteInv, Talk
  <2>2. ASSUME NEW kind, NEW r \in Succeeded(kind)
        PROVE  r.ok /\ r.op.kind = kind /\ Real(r)
    BY <2>1, <2>2 DEF Succeeded, ResultsReal
  <2>3. ASSUME NEW r \in Succeeded("shell") PROVE r.of = r.op.no
    <3>1. r.ok /\ r.op.kind = "shell" /\ Real(r)
      BY <2>2, <2>3
    <3> QED
      BY <3>1 DEF Real
  <2>4. ASSUME NEW r \in Succeeded("put")
        PROVE  r.of = r.op.no /\ Content(r.op.no, r.op.size) \in versions
    <3>1. r.ok /\ r.op.kind = "put" /\ Real(r)
      BY <2>2, <2>4
    <3> QED
      BY <3>1 DEF Real
  <2> QED
    BY <2>3, <2>4 DEF SuccessIsReal
<1> QED
  BY <1>1, RemoteInvariance, PTL

(* dispatch_file stores a body only when it is whole, so the remote file   *)
(* never has a part of an upload, nor the data of two, for files of every  *)
(* size.                                                                   *)
THEOREM RemoteFileStaysWhole == Spec => []RemoteFileWhole
<1>1. RemoteInv => RemoteFileWhole
  <2> SUFFICES ASSUME RemoteInv, strays = 0, NEW v \in versions, NEW i \in 1..Len(v)
               PROVE  /\ v[i] = <<v[1][1], i>>
                      /\ v[1][1] > 0 =>
                             \/ v[1][1] = cli.op.no /\ Len(v) = cli.op.size
                             \/ \E j \in 1..Len(done) :
                                    v[1][1] = j /\ Len(v) = done[j].op.size
    BY DEF RemoteFileWhole
  <2>1. VersionsMeant
    BY DEF RemoteInv, Talk
  <2>2. PICK o \in Nat, n \in Nat : v = Content(o, n) /\ Meant(o, n)
    BY <2>1 DEF VersionsMeant
  <2>3. Len(v) = n /\ \A k \in 1..n : v[k] = <<o, k>>
    BY <2>2, ContentFits
  <2>4. i \in 1..n /\ 1 \in 1..n
    BY <2>3
  <2>5. v[i] = <<o, i>> /\ v[1] = <<o, 1>>
    BY <2>3, <2>4
  <2>6. v[1][1] = o
    BY <2>5
  <2>7. ASSUME o > 0
        PROVE  \/ o = cli.op.no /\ n = cli.op.size
               \/ \E j \in 1..Len(done) : o = j /\ n = done[j].op.size
    BY <2>2, <2>7 DEF Meant
  <2> QED
    BY <2>3, <2>5, <2>6, <2>7
<1> QED
  BY <1>1, RemoteInvariance, PTL

(* serve_session_collected refuses no stream of a client that keeps to the *)
(* protocol, and calls its frames a protocol error only after an upload    *)
(* was cut off.                                                            *)
THEOREM ClientsStayServed == Spec => []ClientsAreServed
<1>1. RemoteInv => ClientsAreServed
  BY DEF RemoteInv, Talk, ClientsAreServed
<1> QED
  BY <1>1, RemoteInvariance, PTL

(* The two registries of a session stay together: a stream the dispatcher  *)
(* still has is one the client has, or the FIN that ends it is on the way; *)
(* and the id of a stream that the client opens is free at the dispatcher, *)
(* or is freed by the frame ahead of the request.                          *)
THEOREM RegistriesCorrespond ==
    Spec => [](strays = 0 => StreamsCorrespond /\ NewStreamFree)
<1>1. RemoteInv => (strays = 0 => StreamsCorrespond /\ NewStreamFree)
  BY DEF RemoteInv, Talk
<1> QED
  BY <1>1, RemoteInvariance, PTL
=================================================================================
