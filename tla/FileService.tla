------------------------------- MODULE FileService -------------------------------
(* FileTransferService (src/stream/file.rs): concurrent put, get, delete and stat *)
(* on one path under the root.  A file operation awaited through tokio runs on a  *)
(* blocking thread: it is issued, takes effect and is returned in three steps,    *)
(* and it still takes effect when the time limit drops the operation meanwhile.   *)
(* A file is named by the upload that wrote it, so a name stands for an inode;    *)
(* its length is counted in chunks of DEFAULT_MAX_PAYLOAD_LEN.                    *)
EXTENDS Integers, FiniteSets

CONSTANTS Ops,      \* operations
          Old,      \* the file that is there at the start
          OldSize,  \* its length
          NoFile,   \* no file has the path
          MaxSize,  \* max_file_size
          Sizes     \* lengths of uploads

ASSUME FileAssumption ==
    /\ OldSize \in Nat /\ MaxSize \in Nat \ {0} /\ Sizes \subseteq Nat
    /\ Old \notin Ops /\ NoFile \notin Ops \cup {Old}

VARIABLES path,       \* the file that has the path
          temp,       \* uploads whose temporary file has its name
          written,    \* chunks that have reached the file of an upload
          op,         \* Ops -> the operation
          removedBy   \* history: the operation that last removed the path

fileVars == <<path, temp, written, op, removedBy>>

FileKinds == {"put", "get", "delete", "stat"}
Results == {"none", "ok", "error", "timeout", "panic"}

\* What a blocking thread is doing for an operation.
Calls == {"none", "create", "exists", "remove", "rename", "stat", "unlink", "open"}

\* sent counts the chunks given to write_all or got from read; seen and opened are
\* the file that was there when a get looked up the size and when it opened it.
Operation ==
    [kind : FileKinds, phase : {"idle", "run", "write", "read", "ended"}, call : Calls,
     after : Calls, ok : BOOLEAN, overwrite : BOOLEAN, size : Nat, range : SUBSET (Nat \X Nat),
     sent : Nat, seen : Ops \cup {Old, NoFile}, opened : Ops \cup {Old, NoFile},
     cancelled : BOOLEAN, result : Results]

Fresh ==
    [kind |-> "put", phase |-> "idle", call |-> "none", after |-> "none", ok |-> TRUE,
     overwrite |-> FALSE, size |-> 0, range |-> {}, sent |-> 0, seen |-> NoFile,
     opened |-> NoFile, cancelled |-> FALSE, result |-> "none"]

SizeOf(f) == IF f = Old THEN OldSize ELSE op[f].size

FileInit ==
    /\ path \in {Old, NoFile}
    /\ temp = {}
    /\ written = [o \in Ops |-> 0]
    /\ op = [o \in Ops |-> Fresh]
    /\ removedBy = NoFile

---------------------------------------------------------------------------------
(* Calls on blocking threads                                                     *)

Issue(o, call) == op' = [op EXCEPT ![o].phase = "run", ![o].call = call, ![o].after = call]

Ended(o, result) == op' = [op EXCEPT ![o].phase = "ended", ![o].result = result]

Running(o) == op[o].phase \notin {"idle", "ended"}

\* The call of o came back: the code after the await goes on.
Back(o, call) == op[o].phase = "run" /\ op[o].call = "none" /\ op[o].after = call

Done(o, ok) == op' = [op EXCEPT ![o].call = "none", ![o].ok = ok]

\* A call takes effect; whether the operation still waits for it makes no odds.
CreateTakesEffect(o) ==
    /\ op[o].call = "create"
    /\ \/ temp' = temp \cup {o} /\ Done(o, TRUE)
       \/ temp' = temp /\ Done(o, FALSE)
    /\ UNCHANGED <<path, written, removedBy>>

ExistsTakesEffect(o) ==
    /\ op[o].call = "exists"
    /\ Done(o, path # NoFile)
    /\ UNCHANGED <<path, temp, written, removedBy>>

RemoveTakesEffect(o) ==
    /\ op[o].call = "remove"
    /\ path' = NoFile
    /\ removedBy' = IF path = NoFile THEN removedBy ELSE o
    /\ Done(o, path # NoFile)
    /\ UNCHANGED <<temp, written>>

RenameTakesEffect(o) ==
    /\ op[o].call = "rename"
    /\ \/ /\ o \in temp
          /\ path' = o /\ temp' = temp \ {o}
          /\ Done(o, TRUE)
       \/ UNCHANGED <<path, temp>> /\ Done(o, FALSE)
    /\ UNCHANGED <<written, removedBy>>

\* metadata: a get keeps the size of the file it finds.
StatTakesEffect(o) ==
    /\ op[o].call = "stat"
    /\ op' = [op EXCEPT ![o].call = "none", ![o].ok = (path # NoFile), ![o].seen = path]
    /\ UNCHANGED <<path, temp, written, removedBy>>

OpenTakesEffect(o) ==
    /\ op[o].call = "open"
    /\ op' = [op EXCEPT ![o].call = "none", ![o].ok = (path # NoFile), ![o].opened = path]
    /\ UNCHANGED <<path, temp, written, removedBy>>

UnlinkTakesEffect(o) ==
    /\ op[o].call = "unlink"
    /\ temp' = temp \ {o}
    /\ Done(o, TRUE)
    /\ UNCHANGED <<path, written, removedBy>>

\* A chunk that write_all handed over reaches the file.
WriteTakesEffect(o) ==
    /\ op[o].kind = "put" /\ written[o] < op[o].sent
    /\ written' = [written EXCEPT ![o] = @ + 1]
    /\ UNCHANGED <<path, temp, op, removedBy>>

---------------------------------------------------------------------------------
(* What a request names.  "file" is the path of this model; the other places are  *)
(* a spelling with a null byte, an absolute one, one that goes up, one whose       *)
(* parent is missing or a link out of the root, a link, and a directory.           *)

Places == {"file", "null", "absolute", "up", "no_parent", "linked_parent", "link", "directory"}

safe_relative_path(place) == place \notin {"null", "absolute", "up"}

resolve_candidate(place) == safe_relative_path(place) /\ place \notin {"no_parent", "linked_parent"}

resolve_existing(place) ==
    resolve_candidate(place) /\ place # "link" /\ (place = "file" => path # NoFile)

resolve_for_write(place, overwrite) ==
    resolve_candidate(place) /\ place \notin {"link", "directory"} /\ (path = NoFile \/ overwrite)

\* FileTransferRequest::validate_shape
validate_shape(kind, range) ==
    (\A r \in range : r[1] <= r[2]) /\ (kind # "get" => range = {})

---------------------------------------------------------------------------------
(* put                                                                           *)

\* Up to the first await: sizes, then the path is looked at once.
Put(o, place, size, announced, overwrite) ==
    /\ op[o].phase = "idle"
    /\ IF announced <= MaxSize /\ announced = size /\ resolve_for_write(place, overwrite)
       THEN op' = [op EXCEPT ![o] = [Fresh EXCEPT !.phase = "run", !.call = "create",
                                                  !.after = "create", !.size = size,
                                                  !.overwrite = overwrite]]
       ELSE Ended(o, "error")
    /\ UNCHANGED <<path, temp, written, removedBy>>

PutCreated(o) ==
    /\ op[o].kind = "put" /\ Back(o, "create")
    /\ IF op[o].ok THEN op' = [op EXCEPT ![o].phase = "write"] ELSE Ended(o, "error")
    /\ UNCHANGED <<path, temp, written, removedBy>>

\* An error or a cancellation inside the block removes the temporary file.
PutFails(o) == Issue(o, "unlink")

\* write_all hands a chunk over as soon as the one before has reached the file.
PutWrites(o) ==
    /\ op[o].phase = "write"
    /\ op[o].sent < op[o].size
    /\ IF op[o].cancelled THEN PutFails(o)
       ELSE /\ written[o] = op[o].sent
            /\ op' = [op EXCEPT ![o].sent = @ + 1]
    /\ UNCHANGED <<path, temp, written, removedBy>>

\* A write or the flush reports that the disk failed.
PutWriteFails(o) ==
    /\ op[o].phase = "write"
    /\ PutFails(o)
    /\ UNCHANGED <<path, temp, written, removedBy>>

\* Defect used as a mutant: the file is renamed before its data is flushed.
MutFlushSkipped(o) == TRUE

\* flush waits for the chunk in flight.
Flushed(o) == written[o] = op[o].sent

PutFlushed(o) ==
    /\ op[o].phase = "write"
    /\ op[o].sent = op[o].size /\ Flushed(o)
    /\ Issue(o, IF op[o].overwrite THEN "exists" ELSE "rename")
    /\ UNCHANGED <<path, temp, written, removedBy>>

\* Defect used as a mutant: a rename that fails is taken for a success and what is
\* left of the temporary file goes.
MutRenameUnchecked(o) ==
    /\ op[o].kind = "put"
    /\ \/ Back(o, "exists") /\ Issue(o, IF op[o].ok THEN "remove" ELSE "rename") /\ UNCHANGED temp
       \/ Back(o, "remove") /\ (IF op[o].ok THEN Issue(o, "rename") ELSE PutFails(o)) /\ UNCHANGED temp
       \/ Back(o, "rename") /\ Ended(o, "ok") /\ temp' = temp \ {o}
    /\ UNCHANGED <<path, written, removedBy>>

PutReplaces(o) ==
    /\ op[o].kind = "put"
    /\ \/ Back(o, "exists") /\ Issue(o, IF op[o].ok THEN "remove" ELSE "rename")
       \/ Back(o, "remove") /\ IF op[o].ok THEN Issue(o, "rename") ELSE PutFails(o)
       \/ Back(o, "rename") /\ IF op[o].ok THEN Issue(o, "stat") ELSE PutFails(o)
    /\ UNCHANGED <<path, temp, written, removedBy>>

PutEnds(o) ==
    /\ op[o].kind = "put"
    /\ \/ Back(o, "stat") /\ IF op[o].ok THEN Ended(o, "ok") ELSE PutFails(o)
       \/ Back(o, "unlink") /\ Ended(o, "error")
    /\ UNCHANGED <<path, temp, written, removedBy>>

---------------------------------------------------------------------------------
(* get, delete and stat                                                          *)

\* resolve_existing, then metadata is issued; a directory is refused next.
Ask(o, kind, place, range) ==
    /\ op[o].phase = "idle"
    /\ IF validate_shape(kind, range) /\ resolve_existing(place) /\ place # "directory"
       THEN op' = [op EXCEPT ![o] = [Fresh EXCEPT !.kind = kind, !.phase = "run", !.call = "stat",
                                                  !.after = "stat", !.range = range]]
       ELSE Ended(o, "error")
    /\ UNCHANGED <<path, temp, written, removedBy>>

GetOpens(o) ==
    /\ op[o].kind = "get"
    /\ \/ Back(o, "stat") /\ IF op[o].ok /\ SizeOf(op[o].seen) <= MaxSize
                             THEN Issue(o, "open") ELSE Ended(o, "error")
       \/ Back(o, "open") /\ IF op[o].ok THEN op' = [op EXCEPT ![o].phase = "read"]
                             ELSE Ended(o, "error")
    /\ UNCHANGED <<path, temp, written, removedBy>>

\* The opened file is read to its end, whatever its length.
GetReads(o) ==
    /\ op[o].phase = "read"
    /\ op[o].sent < SizeOf(op[o].opened)
    /\ IF op[o].cancelled THEN Ended(o, "error") ELSE op' = [op EXCEPT ![o].sent = @ + 1]
    /\ UNCHANGED <<path, temp, written, removedBy>>

RangeFits(range, size) ==
    IF size = 0 THEN range = {} ELSE \A r \in range : r[1] <= r[2] /\ r[2] < size

\* The data is cut by the range and the size looked up before: past the end of the
\* data the slice panics.
GetEnds(o) ==
    LET size == SizeOf(op[o].seen)
        last == IF op[o].range = {} THEN size - 1 ELSE (CHOOSE r \in op[o].range : TRUE)[2]
    IN /\ op[o].phase = "read"
       /\ op[o].sent = SizeOf(op[o].opened)
       /\ \/ op[o].cancelled /\ Ended(o, "error")
          \/ Ended(o, IF ~RangeFits(op[o].range, size) THEN "error"
                      ELSE IF size > 0 /\ last >= op[o].sent THEN "panic" ELSE "ok")
       /\ UNCHANGED <<path, temp, written, removedBy>>

DeleteGoesOn(o) ==
    /\ op[o].kind = "delete"
    /\ \/ Back(o, "stat") /\ IF op[o].ok THEN Issue(o, "remove") ELSE Ended(o, "error")
       \/ Back(o, "remove") /\ Ended(o, IF op[o].ok THEN "ok" ELSE "error")
    /\ UNCHANGED <<path, temp, written, removedBy>>

StatEnds(o) ==
    /\ op[o].kind = "stat" /\ Back(o, "stat")
    /\ Ended(o, IF op[o].ok THEN "ok" ELSE "error")
    /\ UNCHANGED <<path, temp, written, removedBy>>

---------------------------------------------------------------------------------
(* Cancellation and the time limit of execute                                    *)

Cancel(o) ==
    /\ op[o].phase # "ended" /\ ~op[o].cancelled
    /\ op' = [op EXCEPT ![o].cancelled = TRUE]
    /\ UNCHANGED <<path, temp, written, removedBy>>

Timeout(o) ==
    /\ Running(o)
    /\ Ended(o, "timeout")
    /\ UNCHANGED <<path, temp, written, removedBy>>

TakesEffect(o) ==
    \/ CreateTakesEffect(o) \/ ExistsTakesEffect(o) \/ RemoveTakesEffect(o)
    \/ RenameTakesEffect(o) \/ StatTakesEffect(o) \/ OpenTakesEffect(o)
    \/ UnlinkTakesEffect(o) \/ WriteTakesEffect(o)

FileNext ==
    \E o \in Ops :
        \/ TakesEffect(o)
        \/ \E place \in Places, size, announced \in Sizes, overwrite \in BOOLEAN :
               Put(o, place, size, announced, overwrite)
        \/ PutCreated(o) \/ PutWrites(o) \/ PutWriteFails(o) \/ PutFlushed(o)
        \/ PutReplaces(o) \/ PutEnds(o)
        \/ \E kind \in FileKinds \ {"put"}, place \in Places, range \in {{}, {<<0, 0>>}, {<<0, OldSize>>}, {<<1, 0>>}} :
               Ask(o, kind, place, range)
        \/ GetOpens(o) \/ GetReads(o) \/ GetEnds(o) \/ DeleteGoesOn(o) \/ StatEnds(o)
        \/ Cancel(o) \/ Timeout(o)

FileSpec == FileInit /\ [][FileNext]_fileVars

---------------------------------------------------------------------------------
(* Properties                                                                    *)

\* Nobody who opens the path ever finds part of an upload: not while uploads run
\* against each other, not after one was cancelled, failed or timed out, and not
\* through a rename that takes effect after its operation has gone.
PublishedWhole == path \in Ops => written[path] = op[path].size

\* The path is only without a file if a delete removed it or an upload that has not
\* reported success did, on its way to the rename.
GoneOnlyWhenCut ==
    path = NoFile /\ removedBy # NoFile =>
        op[removedBy].kind = "delete" \/ op[removedBy].result # "ok"

\* What STYLE.md says of production code, "No panic in production": whatever runs
\* beside it, an operation answers or fails with an error.  The code does not keep
\* it: a get slices what it read by a size that may be another file's.
NoPanic == \A o \in Ops : op[o].result # "panic"
=================================================================================
