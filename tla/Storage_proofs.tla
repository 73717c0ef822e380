------------------------------ MODULE Storage_proofs -----------------------------
(* What the program keeps on disk: theorems about the vault, the two state files,  *)
(* the served file and the object store, for any number of processes, operations   *)
(* and records.                                                                    *)
EXTENDS ObjectStore, Vault, FileService, StateFiles, FunctionTheorems, FiniteSetTheorems, TLAPS

---------------------------------------------------------------------------------
(* The vault                                                                     *)

VaultRow ==
    [object_id : Objects \cup {NoBytes}, revision : Revisions,
     storage_state : {"committed", "deleting"}, nonce : Nat,
     ciphertext : [nonce : Nat,
                   aad : PayloadRefs \X (Objects \cup {NoBytes}) \X Revisions \X MediaTypes,
                   plaintext : Plaintexts \cup {NoBytes}],
     aad_hash : PayloadRefs \X (Objects \cup {NoBytes}) \X Revisions \X MediaTypes,
     payload_hash : Plaintexts \cup {NoBytes}, media_type : MediaTypes, deleted : BOOLEAN]

VaultTypes ==
    /\ records \in [PayloadRefs -> SUBSET VaultRow]
    /\ puts \in Nat
    /\ last \in [PayloadRefs -> Seq(Request)]

\* A row that no delete has marked holds what the last put gave it.  A delete marks
\* it for good: a later put leaves deleted_at alone.
RowsFollowPuts ==
    \A ref \in PayloadRefs : \A row \in records[ref] : ~row.deleted =>
        /\ last[ref] # <<>>
        /\ row.payload_hash = last[ref][1].plaintext
        /\ row.media_type = last[ref][1].media_type

VaultInv == VaultTypes /\ RowsFollowPuts

\* The vault starts empty.
LEMMA VaultStarts == VaultInit => VaultInv
  BY DEF VaultInit, VaultInv, VaultTypes, RowsFollowPuts

\* What the INSERT of put writes.
LEMMA NewRowFits ==
    ASSUME NEW ref \in PayloadRefs, NEW q \in Request, puts \in Nat
    PROVE  /\ NewRow(ref, q) \in VaultRow
           /\ ~ NewRow(ref, q).deleted
           /\ NewRow(ref, q).payload_hash = q.plaintext
           /\ NewRow(ref, q).media_type = q.media_type
  BY DEF NewRow, VaultRow, Request, aad, encrypt

\* What its ON CONFLICT clause makes of the row that is there.
LEMMA OnConflictFits ==
    ASSUME NEW row \in VaultRow, NEW new \in VaultRow
    PROVE  /\ OnConflict(row, new) \in VaultRow
           /\ OnConflict(row, new).deleted = row.deleted
           /\ OnConflict(row, new).payload_hash = new.payload_hash
           /\ OnConflict(row, new).media_type = new.media_type
  BY DEF OnConflict, VaultRow

\* put replaces payload, media type and history together.
LEMMA PutKeeps ==
    ASSUME VaultInv, NEW ref \in PayloadRefs, NEW q \in Request, put(ref, q)
    PROVE  VaultInv'
<1> DEFINE new == NewRow(ref, q)
           after == IF records[ref] = {} THEN {new}
                    ELSE {OnConflict(row, new) : row \in records[ref]}
<1>1. records \in [PayloadRefs -> SUBSET VaultRow] /\ puts \in Nat
      /\ last \in [PayloadRefs -> Seq(Request)]
  BY DEF VaultInv, VaultTypes
<1>2. /\ new \in VaultRow /\ ~new.deleted
      /\ new.payload_hash = q.plaintext /\ new.media_type = q.media_type
  BY <1>1, NewRowFits
<1> HIDE DEF new
<1>3. \A row \in after : /\ row \in VaultRow
                         /\ row.payload_hash = q.plaintext /\ row.media_type = q.media_type
  BY <1>1, <1>2, OnConflictFits
<1> HIDE DEF after
<1>4. records' = [records EXCEPT ![ref] = after]
  BY DEF put, after, new
<1>5. /\ last' = [last EXCEPT ![ref] = <<q>> \o last[ref]] /\ puts' = puts + 1
  BY DEF put
<1>6. /\ <<q>> \o last[ref] \in Seq(Request) /\ <<q>> \o last[ref] # <<>>
      /\ (<<q>> \o last[ref])[1] = q
  BY <1>1
<1>7. VaultTypes'
  BY <1>1, <1>3, <1>4, <1>5, <1>6 DEF VaultTypes
<1>8. RowsFollowPuts'
  BY <1>1, <1>3, <1>4, <1>5, <1>6 DEF VaultInv, RowsFollowPuts
<1> QED
  BY <1>7, <1>8 DEF VaultInv

\* delete marks the row and forgets what was put.
LEMMA DeleteKeeps ==
    ASSUME VaultInv, NEW ref \in PayloadRefs, delete(ref)
    PROVE  VaultInv'
<1> DEFINE after == {[row EXCEPT !.storage_state = "deleting", !.deleted = TRUE] :
                         row \in records[ref]}
<1>1. records \in [PayloadRefs -> SUBSET VaultRow]
  BY DEF VaultInv, VaultTypes
<1>2. \A row \in VaultRow :
          /\ [row EXCEPT !.storage_state = "deleting", !.deleted = TRUE] \in VaultRow
          /\ [row EXCEPT !.storage_state = "deleting", !.deleted = TRUE].deleted
  BY DEF VaultRow
<1>3. \A row \in after : row \in VaultRow /\ row.deleted
  BY <1>1, <1>2
<1> HIDE DEF after
<1>4. /\ records' = [records EXCEPT ![ref] = after]
      /\ last' = [last EXCEPT ![ref] = <<>>] /\ UNCHANGED puts
  BY DEF delete, after
<1>5. VaultTypes'
  BY <1>1, <1>3, <1>4 DEF VaultInv, VaultTypes
<1>6. RowsFollowPuts'
  BY <1>1, <1>3, <1>4 DEF VaultInv, VaultTypes, RowsFollowPuts
<1> QED
  BY <1>5, <1>6 DEF VaultInv

\* get never returns a payload but the last one put, and none that was deleted, for
\* any sequence of puts and deletes on any references.
THEOREM LastPutReturned == VaultSpec => []LastPutOrNothing
<1>1. VaultInv /\ [VaultNext]_vaultVars => VaultInv'
  <2> SUFFICES ASSUME VaultInv, [VaultNext]_vaultVars PROVE VaultInv'
    OBVIOUS
  <2>1. CASE UNCHANGED vaultVars
    BY <2>1 DEF VaultInv, VaultTypes, RowsFollowPuts, vaultVars
  <2> QED
    BY <2>1, PutKeeps, DeleteKeeps DEF VaultNext
<1>2. VaultInv => LastPutOrNothing
  BY DEF VaultInv, RowsFollowPuts, VaultTypes, VaultRow, LastPutOrNothing, get
<1> QED
  BY VaultStarts, <1>1, <1>2, PTL DEF VaultSpec

---------------------------------------------------------------------------------
(* The identity file and the device registry                                     *)

FileOrMissing == [data : SUBSET Procs, whole : BOOLEAN, synced : BOOLEAN] \cup {Missing}

Steps == {"start", "read", "write", "fill", "test", "remove", "rename", "create", "load",
          "contents", "sync", "replace", "done", "failed"}

StateTypes ==
    /\ file \in FileOrMissing /\ durable \in FileOrMissing
    /\ draft \in [Procs -> FileOrMissing]
    /\ pc \in [Procs -> Steps]
    /\ held \in [Procs -> SUBSET Procs]
    /\ saved \subseteq Procs /\ removing \subseteq Procs
    /\ excuses \subseteq {"race", "cut", "power"}

Safe(f) == f # Missing => f.whole /\ f.synced

\* Whatever can become the identity file was written and synced before: the file,
\* the copy the disk has of it, and a temporary file that is about to be renamed.
IdentitySafe ==
    what = "identity" =>
        /\ Safe(file) /\ Safe(durable)
        /\ \A p \in Procs : pc[p] = "replace" => draft[p] = File({p}, TRUE, TRUE)

\* From its second write on a save has the devices it loaded and its own, in full.
DraftsReady ==
    what = "registry" =>
        \A p \in Procs : pc[p] \in {"test", "remove", "rename"} =>
            draft[p] = File(upsert(held[p], p), TRUE, FALSE)

\* As long as nothing excuses a loss, what was saved is in the file or, while a save
\* is between its two calls, in what that save has loaded.
SavedSomewhere ==
    what = "registry" /\ excuses = {} =>
        /\ removing = {} => \/ file = Missing /\ saved = {}
                            \/ file # Missing /\ file.whole /\ saved \subseteq file.data
        /\ \A p \in removing : /\ removing = {p} /\ file = Missing
                               /\ pc[p] = "rename" /\ saved \subseteq held[p]

StateInv == StateTypes /\ IdentitySafe /\ DraftsReady /\ SavedSomewhere /\ RegistryWhole

\* Neither file is there at first.
LEMMA StateStarts == StateInit => StateInv
  BY DEF StateInit, StateInv, StateTypes, Steps, FileOrMissing, IdentitySafe, Safe, DraftsReady,
         SavedSomewhere, RegistryWhole

\* The type of what the calls of the file system write.
LEMMA FileFits ==
    ASSUME NEW data \in SUBSET Procs, NEW whole \in BOOLEAN, NEW synced \in BOOLEAN
    PROVE  /\ File(data, whole, synced) \in FileOrMissing
           /\ File(data, whole, synced).data = data
           /\ File(data, whole, synced).whole = whole
           /\ File(data, whole, synced).synced = synced
  BY DEF File, FileOrMissing

\* Every step of load_or_create_identity keeps the invariant.
LEMMA IdentityStepKeeps ==
    ASSUME StateInv, what = "identity", NEW p \in Procs, IdentityStep(p)
    PROVE  StateInv'
<1> USE DEF StateInv, StateTypes, Steps
<1>0. what' = "identity" /\ UNCHANGED <<removing, excuses, durable>>
  BY DEF IdentityStep, IdentityTests, IdentityLoads, IdentityCreates, IdentityWrites,
         IdentitySyncs, IdentityReplaces, IdentityFails, history
<1>1. DraftsReady' /\ SavedSomewhere' /\ RegistryWhole'
  BY <1>0 DEF DraftsReady, SavedSomewhere, RegistryWhole
<1>2. CASE IdentityTests(p)
  <2>1. StateTypes' /\ IdentitySafe'
    BY <1>0, <1>2 DEF IdentityTests, Goes, history, IdentitySafe, Safe
  <2> QED
    BY <1>1, <2>1
<1>3. CASE IdentityLoads(p)
  <2>1. file # Missing => file.data \subseteq Procs
    BY DEF FileOrMissing
  <2>2. StateTypes' /\ IdentitySafe'
    BY <1>0, <1>3, <2>1 DEF IdentityLoads, Goes, Fails, history, IdentitySafe, Safe
  <2> QED
    BY <1>1, <2>2
<1>4. CASE IdentityCreates(p)
  <2>1. StateTypes' /\ IdentitySafe'
    BY <1>0, <1>4, FileFits DEF IdentityCreates, Goes, history, IdentitySafe, Safe
  <2> QED
    BY <1>1, <2>1
<1>5. CASE IdentityWrites(p)
  <2>1. StateTypes' /\ IdentitySafe'
    BY <1>0, <1>5, FileFits DEF IdentityWrites, WriteDraft, Goes, history, IdentitySafe, Safe
  <2> QED
    BY <1>1, <2>1
<1>6. CASE IdentitySyncs(p)
  <2>1. StateTypes' /\ IdentitySafe'
    BY <1>0, <1>6, FileFits DEF IdentitySyncs, WriteDraft, Goes, history, IdentitySafe, Safe
  <2> QED
    BY <1>1, <2>1
<1>7. CASE IdentityReplaces(p)
  <2>1. draft[p] = File({p}, TRUE, TRUE) /\ file' = draft[p]
    BY <1>7 DEF IdentityReplaces, RenameDraft, Goes, IdentitySafe
  <2>2. Safe(file)'
    BY <2>1, FileFits DEF Safe
  <2>3. StateTypes'
    <3>1. file' \in FileOrMissing /\ Missing \in FileOrMissing
      BY <2>1 DEF FileOrMissing
    <3> QED
      BY <1>0, <1>7, <3>1 DEF IdentityReplaces, RenameDraft, Goes
  <2>4. IdentitySafe'
    BY <1>0, <1>7, <2>2 DEF IdentityReplaces, RenameDraft, Goes, IdentitySafe, Safe
  <2> QED
    BY <1>1, <2>3, <2>4
<1>8. CASE IdentityFails(p)
  <2>1. StateTypes' /\ IdentitySafe'
    BY <1>0, <1>8
    DEF IdentityFails, RemoveDraft, Fails, Goes, history, IdentitySafe, Safe, FileOrMissing
  <2> QED
    BY <1>1, <2>1
<1> QED
  BY <1>2, <1>3, <1>4, <1>5, <1>6, <1>7, <1>8 DEF IdentityStep

\* Every step of a registry command keeps the invariant.
LEMMA RegistryStepKeeps ==
    ASSUME StateInv, what = "registry", NEW p \in Procs, RegistryStep(p)
    PROVE  StateInv'
<1> USE DEF StateInv, StateTypes, Steps
<1>0. what' = "registry" /\ UNCHANGED durable
  BY DEF RegistryStep, LoadTests, LoadReads, SaveCreates, SaveWrites, SaveTests, SaveRemoves,
         SaveRenames, SaveRenameFails
<1>1. IdentitySafe'
  BY <1>0 DEF IdentitySafe
<1>2. upsert(held[p], p) \subseteq Procs
  BY DEF upsert
<1>3. file # Missing => file.data \subseteq Procs
  BY DEF FileOrMissing
<1>4. CASE LoadTests(p) \/ LoadReads(p)
  <2>1. StateTypes'
    BY <1>3, <1>4 DEF LoadTests, LoadReads, Goes, Fails, history
  <2>2. DraftsReady'
    BY <1>0, <1>4 DEF LoadTests, LoadReads, Goes, Fails, history, DraftsReady, upsert
  <2>3. SavedSomewhere' /\ RegistryWhole'
    BY <1>0, <1>4 DEF LoadTests, LoadReads, Goes, Fails, history, SavedSomewhere, RegistryWhole
  <2> QED
    BY <1>1, <2>1, <2>2, <2>3
<1>5. CASE SaveCreates(p) \/ SaveWrites(p)
  <2>1. StateTypes'
    <3>1. PICK f \in FileOrMissing : draft' = [draft EXCEPT ![p] = f]
      BY <1>2, <1>5, FileFits DEF SaveCreates, SaveWrites, WriteDraft
    <3>2. PICK step \in Steps : pc' = [pc EXCEPT ![p] = step]
      BY <1>5 DEF SaveCreates, SaveWrites, Goes
    <3>3. UNCHANGED <<file, held, saved, removing, excuses>>
      BY <1>5 DEF SaveCreates, SaveWrites, history
    <3> QED
      BY <1>0, <3>1, <3>2, <3>3
  <2>2. DraftsReady'
    BY <1>0, <1>5 DEF SaveCreates, SaveWrites, WriteDraft, Goes, history, DraftsReady
  <2>3. SavedSomewhere' /\ RegistryWhole'
    BY <1>0, <1>5 DEF SaveCreates, SaveWrites, WriteDraft, Goes, history, SavedSomewhere, RegistryWhole
  <2> QED
    BY <1>1, <2>1, <2>2, <2>3
<1>6. CASE SaveTests(p)
  <2>1. StateTypes'
    BY <1>6 DEF SaveTests, Goes, history
  <2>2. DraftsReady' /\ SavedSomewhere' /\ RegistryWhole'
    BY <1>0, <1>6 DEF SaveTests, Goes, history, DraftsReady, SavedSomewhere, RegistryWhole
  <2> QED
    BY <1>1, <2>1, <2>2
<1>7. CASE SaveRemoves(p)
  <2>1. StateTypes'
    BY <1>7 DEF SaveRemoves, Fails, Goes, FileOrMissing
  <2>2. DraftsReady'
    BY <1>0, <1>7 DEF SaveRemoves, Fails, Goes, DraftsReady
  <2>3. SavedSomewhere' /\ RegistryWhole'
    BY <1>0, <1>7 DEF SaveRemoves, Fails, Goes, SavedSomewhere, RegistryWhole
  <2> QED
    BY <1>1, <2>1, <2>2, <2>3
<1>8. CASE SaveRenames(p)
  <2>1. draft[p] = File(upsert(held[p], p), TRUE, FALSE) /\ draft[p] # Missing /\ file' = draft[p]
    BY <1>8 DEF SaveRenames, RenameDraft, Goes, DraftsReady
  <2>2. file' # Missing /\ file'.whole /\ file'.data = held[p] \cup {p}
    BY <1>2, <2>1, FileFits DEF upsert
  <2>3. StateTypes'
    BY <1>0, <1>8, <2>1 DEF SaveRenames, RenameDraft, Goes, FileOrMissing
  <2>4. DraftsReady'
    BY <1>0, <1>8 DEF SaveRenames, RenameDraft, Goes, DraftsReady
  <2>5. SavedSomewhere' /\ RegistryWhole'
    BY <1>0, <1>8, <2>2 DEF SaveRenames, RenameDraft, Goes, SavedSomewhere, RegistryWhole
  <2> QED
    BY <1>1, <2>3, <2>4, <2>5
<1>9. CASE SaveRenameFails(p)
  <2>1. StateTypes'
    BY <1>9 DEF SaveRenameFails, RemoveDraft, Fails, Goes, FileOrMissing, Cut
  <2>2. DraftsReady'
    BY <1>0, <1>9 DEF SaveRenameFails, RemoveDraft, Fails, Goes, DraftsReady
  <2>3. SavedSomewhere' /\ RegistryWhole'
    BY <1>0, <1>9 DEF SaveRenameFails, RemoveDraft, Fails, Goes, SavedSomewhere, RegistryWhole, Cut
  <2> QED
    BY <1>1, <2>1, <2>2, <2>3
<1> QED
  BY <1>4, <1>5, <1>6, <1>7, <1>8, <1>9 DEF RegistryStep

\* A process that dies takes nothing with it but its save.
LEMMA RestartKeeps ==
    ASSUME StateInv, NEW p \in Procs, Restart(p)
    PROVE  StateInv'
<1> USE DEF StateInv, StateTypes, Steps
<1>1. StateTypes'
  BY DEF Restart, Cut
<1>2. IdentitySafe' /\ DraftsReady'
  BY DEF Restart, IdentitySafe, Safe, DraftsReady
<1>3. SavedSomewhere' /\ RegistryWhole'
  BY DEF Restart, SavedSomewhere, RegistryWhole, Cut
<1> QED
  BY <1>1, <1>2, <1>3

\* What the disk keeps of a synced file is the file.
LEMMA PowerLossKeeps ==
    ASSUME StateInv, PowerLoss
    PROVE  StateInv'
<1> USE DEF StateInv, StateTypes, Steps
<1>1. PICK f \in Survivors(file) \cup Survivors(durable) : file' = f /\ durable' = f
  BY DEF PowerLoss
<1>2. f \in FileOrMissing
  BY <1>1 DEF Survivors, FileOrMissing
<1>3. Safe(file) /\ Safe(durable) => Safe(f)
  BY <1>1 DEF Survivors, Safe
<1>4. StateTypes'
  BY <1>1, <1>2 DEF PowerLoss, FileOrMissing
<1>5. Safe(file) /\ Safe(durable) => Safe(file)' /\ Safe(durable)'
  BY <1>1, <1>3 DEF Safe
<1>6. IdentitySafe' /\ DraftsReady' /\ SavedSomewhere' /\ RegistryWhole'
  BY <1>5 DEF PowerLoss, IdentitySafe, DraftsReady, SavedSomewhere, RegistryWhole
<1> QED
  BY <1>4, <1>6

\* The invariant of both files, through crashes and loss of power.
LEMMA StateInvariant == StateSpec => []StateInv
<1>1. StateInv /\ [StateNext]_stateVars => StateInv'
  <2> SUFFICES ASSUME StateInv, [StateNext]_stateVars PROVE StateInv'
    OBVIOUS
  <2>1. CASE DirectoryFlushed
    BY <2>1 DEF StateInv, StateTypes, IdentitySafe, Safe, DraftsReady, SavedSomewhere,
                RegistryWhole, DirectoryFlushed, history
  <2>2. CASE UNCHANGED stateVars
    BY <2>2 DEF StateInv, StateTypes, IdentitySafe, Safe, DraftsReady, SavedSomewhere,
                RegistryWhole, stateVars
  <2> QED
    BY <2>1, <2>2, IdentityStepKeeps, RegistryStepKeeps, RestartKeeps, PowerLossKeeps DEF StateNext
<1> QED
  BY StateStarts, <1>1, PTL DEF StateSpec

\* write_atomic leaves a whole identity file or none, for any number of processes,
\* wherever they die and whenever power is lost.
THEOREM IdentityStaysWhole == StateSpec => []IdentityWhole
<1>1. StateInv => IdentityWhole
  BY DEF StateInv, IdentitySafe, Safe, IdentityWhole
<1> QED
  BY StateInvariant, <1>1, PTL

\* DeviceRegistry::save writes a temporary file and renames it: no process ever reads
\* part of a registry, for any number of processes that save together and die anywhere.
THEOREM RegistryStaysWhole == StateSpec => []RegistryWhole
<1>1. StateInv => RegistryWhole
  BY DEF StateInv
<1> QED
  BY StateInvariant, <1>1, PTL

\* The three ways to lose a device that was saved: a process saves over what it had
\* not loaded, a save ends between its removal of the file and its rename, or power
\* is lost.
DevicesKeptUnless ==
    what = "registry" /\ saved # {} /\ excuses = {} /\ removing = {} =>
        file # Missing /\ file.whole /\ saved \subseteq file.data

\* DeviceRegistry::save loses a saved device in no fourth way.
THEOREM DevicesLostThreeWays == StateSpec => []DevicesKeptUnless
<1>1. StateInv => DevicesKeptUnless
  BY DEF StateInv, SavedSomewhere, DevicesKeptUnless
<1> QED
  BY StateInvariant, <1>1, PTL

---------------------------------------------------------------------------------
(* The served file                                                               *)

FileTypes ==
    /\ op \in [Ops -> Operation]
    /\ path \in Ops \cup {Old, NoFile}
    /\ removedBy \in Ops \cup {NoFile}
    /\ written \in [Ops -> Nat]

\* All chunks of an upload were handed over and have reached its file.
Complete(o) == op[o].sent = op[o].size /\ written[o] = op[o].size

\* Where an operation stands fits the call it made last, an upload past its flush is
\* complete, and a download that reads has opened a file.
OpSound(o) ==
    /\ op[o].call # "none" => op[o].after = op[o].call /\ op[o].result \notin {"ok", "panic"}
    /\ op[o].after \in {"create", "exists", "rename", "unlink"} => op[o].kind = "put"
    /\ op[o].after = "remove" => op[o].kind \in {"put", "delete"}
    /\ op[o].phase = "idle" => op[o].call = "none" /\ op[o].after = "none"
    /\ op[o].phase = "write" => op[o].call = "none" /\ op[o].after = "create"
    /\ op[o].phase = "read" =>
           op[o].call = "none" /\ op[o].kind = "get" /\ op[o].opened # NoFile
    /\ op[o].phase # "ended" => op[o].result = "none"
    /\ op[o].kind = "put" /\ op[o].after \in {"exists", "remove", "rename"} => Complete(o)
    /\ op[o].after = "open" /\ op[o].call = "none" /\ op[o].ok => op[o].opened # NoFile
    /\ op[o].result = "panic" => op[o].seen # op[o].opened

\* The upload o removed the old file and has not put its own there.
Between(o) ==
    /\ op[o].kind = "put" /\ op[o].result # "ok"
    /\ \/ op[o].after \in {"remove", "unlink"}
       \/ op[o].after = "rename" /\ (op[o].call = "rename" \/ ~op[o].ok)

PathSound == path \in Ops => op[path].phase # "idle" /\ op[path].kind = "put" /\ Complete(path)

GoneSound ==
    path = NoFile /\ removedBy \in Ops =>
        op[removedBy].phase # "idle" /\ (op[removedBy].kind = "delete" \/ Between(removedBy))

FileInv == FileTypes /\ (\A o \in Ops : OpSound(o)) /\ PathSound /\ GoneSound

\* A path that is there at the start is not an upload, and nothing was removed.
LEMMA FileStarts == FileInit => FileInv
<1> SUFFICES ASSUME FileInit PROVE FileInv
  OBVIOUS
<1>1. Fresh \in Operation
  BY DEF Fresh, Operation, FileKinds, Calls, Results
<1>2. \A o \in Ops : op[o] = Fresh
  BY DEF FileInit
<1>3. FileTypes
  BY <1>1 DEF FileInit, FileTypes
<1>4. \A o \in Ops : OpSound(o)
  BY <1>2 DEF Fresh, OpSound
<1>5. PathSound /\ GoneSound
  BY FileAssumption DEF FileInit, PathSound, GoneSound
<1> QED
  BY <1>3, <1>4, <1>5 DEF FileInv

\* A step of o that leaves the path alone keeps the invariant if it keeps it for o.
LEMMA LocalStep ==
    ASSUME FileInv, NEW o \in Ops, op' \in [Ops -> Operation],
           \A b \in Ops \ {o} : op'[b] = op[b],
           UNCHANGED <<path, written, removedBy>>,
           OpSound(o)',
           path = o => /\ op'[o].phase # "idle" /\ op'[o].kind = op[o].kind
                       /\ op'[o].sent = op[o].sent /\ op'[o].size = op[o].size,
           path = NoFile /\ removedBy = o =>
               op'[o].phase # "idle" /\ (op'[o].kind = "delete" \/ Between(o)')
    PROVE  FileInv'
<1>1. FileTypes'
  BY DEF FileInv, FileTypes
<1>2. \A b \in Ops : OpSound(b)'
  <2> SUFFICES ASSUME NEW b \in Ops, b # o PROVE OpSound(b)'
    OBVIOUS
  <2>1. op'[b] = op[b] /\ written'[b] = written[b] /\ OpSound(b)
    BY DEF FileInv
  <2> QED
    BY <2>1 DEF OpSound, Complete
<1>3. PathSound'
  BY DEF FileInv, PathSound, Complete
<1>4. GoneSound'
  BY DEF FileInv, GoneSound, Between
<1> QED
  BY <1>1, <1>2, <1>3, <1>4 DEF FileInv

\* The record of an operation that issues a call: what changes and what stays.
LEMMA IssueGives ==
    ASSUME op \in [Ops -> Operation], NEW o \in Ops, NEW call \in Calls, Issue(o, call)
    PROVE  /\ op' \in [Ops -> Operation]
           /\ \A b \in Ops \ {o} : op'[b] = op[b]
           /\ op'[o].phase = "run" /\ op'[o].call = call /\ op'[o].after = call
           /\ op'[o].kind = op[o].kind /\ op'[o].ok = op[o].ok /\ op'[o].size = op[o].size
           /\ op'[o].sent = op[o].sent /\ op'[o].seen = op[o].seen
           /\ op'[o].opened = op[o].opened /\ op'[o].result = op[o].result
<1> DEFINE r == [op[o] EXCEPT !.phase = "run", !.call = call, !.after = call]
<1>1. op[o] \in Operation
  OBVIOUS
<1>2. r \in Operation
  BY <1>1 DEF Operation
<1>3. op' = [op EXCEPT ![o] = r]
  BY DEF Issue
<1>4. op'[o] = r
  BY <1>3
<1>5. /\ r.phase = "run" /\ r.call = call /\ r.after = call
      /\ r.kind = op[o].kind /\ r.ok = op[o].ok /\ r.size = op[o].size
      /\ r.sent = op[o].sent /\ r.seen = op[o].seen
      /\ r.opened = op[o].opened /\ r.result = op[o].result
  BY <1>1 DEF Operation
<1> HIDE DEF r
<1> QED
  BY <1>2, <1>3, <1>4, <1>5

\* The record of an operation that ends.
LEMMA EndedGives ==
    ASSUME op \in [Ops -> Operation], NEW o \in Ops, NEW result \in Results, Ended(o, result)
    PROVE  /\ op' \in [Ops -> Operation]
           /\ \A b \in Ops \ {o} : op'[b] = op[b]
           /\ op'[o].phase = "ended" /\ op'[o].result = result
           /\ op'[o].call = op[o].call /\ op'[o].after = op[o].after
           /\ op'[o].kind = op[o].kind /\ op'[o].ok = op[o].ok /\ op'[o].size = op[o].size
           /\ op'[o].sent = op[o].sent /\ op'[o].seen = op[o].seen
           /\ op'[o].opened = op[o].opened
<1> DEFINE r == [op[o] EXCEPT !.phase = "ended", !.result = result]
<1>1. op[o] \in Operation
  OBVIOUS
<1>2. r \in Operation
  BY <1>1 DEF Operation
<1>3. op' = [op EXCEPT ![o] = r]
  BY DEF Ended
<1>4. op'[o] = r
  BY <1>3
<1>5. /\ r.phase = "ended" /\ r.result = result
      /\ r.call = op[o].call /\ r.after = op[o].after
      /\ r.kind = op[o].kind /\ r.ok = op[o].ok /\ r.size = op[o].size
      /\ r.sent = op[o].sent /\ r.seen = op[o].seen
      /\ r.opened = op[o].opened
  BY <1>1 DEF Operation
<1> HIDE DEF r
<1> QED
  BY <1>2, <1>3, <1>4, <1>5

\* The record of an operation whose call has taken effect.
LEMMA DoneGives ==
    ASSUME op \in [Ops -> Operation], NEW o \in Ops, NEW ok \in BOOLEAN, Done(o, ok)
    PROVE  /\ op' \in [Ops -> Operation]
           /\ \A b \in Ops \ {o} : op'[b] = op[b]
           /\ op'[o].call = "none" /\ op'[o].ok = ok /\ op'[o].after = op[o].after
           /\ op'[o].kind = op[o].kind /\ op'[o].phase = op[o].phase
           /\ op'[o].size = op[o].size /\ op'[o].sent = op[o].sent
           /\ op'[o].seen = op[o].seen /\ op'[o].opened = op[o].opened
           /\ op'[o].result = op[o].result
<1> DEFINE r == [op[o] EXCEPT !.call = "none", !.ok = ok]
<1>1. op[o] \in Operation /\ "none" \in Calls
  BY DEF Calls
<1>2. r \in Operation
  BY <1>1 DEF Operation
<1>3. op' = [op EXCEPT ![o] = r]
  BY DEF Done
<1>4. op'[o] = r
  BY <1>3
<1>5. /\ r.call = "none" /\ r.ok = ok /\ r.after = op[o].after
      /\ r.kind = op[o].kind /\ r.phase = op[o].phase
      /\ r.size = op[o].size /\ r.sent = op[o].sent
      /\ r.seen = op[o].seen /\ r.opened = op[o].opened /\ r.result = op[o].result
  BY <1>1 DEF Operation
<1> HIDE DEF r
<1> QED
  BY <1>2, <1>3, <1>4, <1>5

\* An operation that ends, but for the ways that report success or break.
LEMMA EndedKeeps ==
    ASSUME FileInv, NEW o \in Ops, NEW result \in Results, result \notin {"ok", "panic"},
           Ended(o, result), UNCHANGED <<path, written, removedBy>>
    PROVE  FileInv'
<1>1. op \in [Ops -> Operation] /\ OpSound(o) /\ PathSound /\ GoneSound
  BY DEF FileInv, FileTypes
<1>2. OpSound(o)'
  BY <1>1, EndedGives DEF OpSound, Complete
<1>3. path = NoFile /\ removedBy = o =>
          op'[o].phase # "idle" /\ (op'[o].kind = "delete" \/ Between(o)')
  BY <1>1, EndedGives DEF GoneSound, Between
<1> QED
  BY <1>1, <1>2, <1>3, EndedGives, LocalStep

\* An operation that has not begun is neither in the path nor did it remove it.
LEMMA IdleApart ==
    ASSUME FileInv, NEW o \in Ops, op[o].phase = "idle"
    PROVE  path # o /\ (path = NoFile => removedBy # o)
  BY DEF FileInv, PathSound, GoneSound

\* A call takes effect, also after its operation was dropped: a rename publishes an
\* upload that is complete, and a remove is that of a delete or of a whole upload.
LEMMA TakesEffectKeeps ==
    ASSUME FileInv, NEW o \in Ops, TakesEffect(o)
    PROVE  FileInv'
<1>1. op \in [Ops -> Operation] /\ OpSound(o) /\ PathSound /\ GoneSound
      /\ op[o] \in Operation /\ path \in Ops \cup {Old, NoFile} /\ removedBy \in Ops \cup {NoFile}
      /\ written \in [Ops -> Nat]
  BY DEF FileInv, FileTypes
<1>2. CASE CreateTakesEffect(o) \/ ExistsTakesEffect(o) \/ UnlinkTakesEffect(o)
  <2>1. PICK ok \in BOOLEAN : Done(o, ok)
    BY <1>2 DEF CreateTakesEffect, ExistsTakesEffect, UnlinkTakesEffect
  <2>2. UNCHANGED <<path, written, removedBy>> /\ op[o].call \in {"create", "exists", "unlink"}
    BY <1>2 DEF CreateTakesEffect, ExistsTakesEffect, UnlinkTakesEffect
  <2>3. OpSound(o)'
    BY <1>1, <2>1, <2>2, DoneGives DEF OpSound, Complete
  <2>4. path = NoFile /\ removedBy = o =>
            op'[o].phase # "idle" /\ (op'[o].kind = "delete" \/ Between(o)')
    BY <1>1, <2>1, <2>2, DoneGives DEF GoneSound, Between, OpSound
  <2>5. path = o => op'[o].phase # "idle"
    BY <1>1, <2>1, <2>2, DoneGives DEF PathSound
  <2> QED
    BY <1>1, <2>1, <2>2, <2>3, <2>4, <2>5, DoneGives, LocalStep
<1>3. CASE RemoveTakesEffect(o)
  <2>1. /\ op[o].call = "remove" /\ Done(o, path # NoFile) /\ UNCHANGED written
        /\ path' = NoFile /\ removedBy' = IF path = NoFile THEN removedBy ELSE o
    BY <1>3 DEF RemoveTakesEffect
  <2>2. /\ op' \in [Ops -> Operation] /\ (\A b \in Ops \ {o} : op'[b] = op[b])
        /\ op'[o].call = "none" /\ op'[o].ok = (path # NoFile) /\ op'[o].after = op[o].after
        /\ op'[o].kind = op[o].kind /\ op'[o].phase = op[o].phase
        /\ op'[o].size = op[o].size /\ op'[o].sent = op[o].sent
        /\ op'[o].seen = op[o].seen /\ op'[o].opened = op[o].opened
        /\ op'[o].result = op[o].result
    BY <1>1, <2>1, DoneGives
  <2>3. OpSound(o)'
    BY <1>1, <2>1, <2>2 DEF OpSound, Complete
  <2>4. \A b \in Ops \ {o} : OpSound(b)'
    BY <2>1, <2>2 DEF FileInv, OpSound, Complete
  <2>5. FileTypes'
    BY <1>1, <2>1, <2>2 DEF FileTypes
  <2>6. PathSound'
    BY <2>1, FileAssumption DEF PathSound
  <2>7. GoneSound'
    <3>1. op'[o].phase # "idle" /\ (op'[o].kind = "delete" \/ Between(o)')
      BY <1>1, <2>1, <2>2 DEF OpSound, Between
    <3> QED
      BY <1>1, <2>1, <2>2, <3>1, FileAssumption DEF GoneSound, Between
  <2> QED
    BY <2>3, <2>4, <2>5, <2>6, <2>7 DEF FileInv
<1>4. CASE RenameTakesEffect(o)
  <2>1. PICK ok \in BOOLEAN : /\ Done(o, ok) /\ path' = IF ok THEN o ELSE path
    BY <1>4 DEF RenameTakesEffect
  <2>2. op[o].call = "rename" /\ UNCHANGED <<written, removedBy>>
    BY <1>4 DEF RenameTakesEffect
  <2>3. /\ op' \in [Ops -> Operation] /\ (\A b \in Ops \ {o} : op'[b] = op[b])
        /\ op'[o].call = "none" /\ op'[o].ok = ok /\ op'[o].after = op[o].after
        /\ op'[o].kind = op[o].kind /\ op'[o].phase = op[o].phase
        /\ op'[o].size = op[o].size /\ op'[o].sent = op[o].sent
        /\ op'[o].seen = op[o].seen /\ op'[o].opened = op[o].opened
        /\ op'[o].result = op[o].result
    BY <1>1, <2>1, DoneGives
  <2>4. \A b \in Ops : OpSound(b)'
    BY <1>1, <2>2, <2>3 DEF FileInv, OpSound, Complete
  <2>5. FileTypes'
    BY <1>1, <2>1, <2>2, <2>3 DEF FileTypes
  <2>6. PathSound'
    BY <1>1, <2>1, <2>2, <2>3 DEF PathSound, OpSound, Complete
  <2>7. GoneSound'
    BY <1>1, <2>1, <2>2, <2>3, FileAssumption DEF GoneSound, Between
  <2> QED
    BY <2>4, <2>5, <2>6, <2>7 DEF FileInv
<1>5. CASE StatTakesEffect(o) \/ OpenTakesEffect(o)
  <2>1. PICK seen \in Ops \cup {Old, NoFile}, opened \in Ops \cup {Old, NoFile} :
            /\ op' = [op EXCEPT ![o] = [op[o] EXCEPT !.call = "none", !.ok = (path # NoFile),
                                                     !.seen = seen, !.opened = opened]]
            /\ op[o].call = "open" => opened = path
            /\ op[o].call = "stat" => opened = op[o].opened
    <3>1. CASE StatTakesEffect(o)
      <4>1. op' = [op EXCEPT ![o] = [op[o] EXCEPT !.call = "none", !.ok = (path # NoFile),
                                                  !.seen = path, !.opened = op[o].opened]]
        BY <1>1, <3>1 DEF StatTakesEffect, Operation
      <4>2. op[o].opened \in Ops \cup {Old, NoFile}
        BY <1>1 DEF Operation
      <4> QED
        BY <1>1, <3>1, <4>1, <4>2 DEF StatTakesEffect
    <3>2. CASE OpenTakesEffect(o)
      <4>1. op' = [op EXCEPT ![o] = [op[o] EXCEPT !.call = "none", !.ok = (path # NoFile),
                                                  !.seen = op[o].seen, !.opened = path]]
        BY <1>1, <3>2 DEF OpenTakesEffect, Operation
      <4>2. op[o].seen \in Ops \cup {Old, NoFile}
        BY <1>1 DEF Operation
      <4> QED
        BY <1>1, <3>2, <4>1, <4>2 DEF OpenTakesEffect
    <3> QED
      BY <1>5, <3>1, <3>2
  <2> DEFINE r == [op[o] EXCEPT !.call = "none", !.ok = (path # NoFile),
                                !.seen = seen, !.opened = opened]
  <2>2. r \in Operation
    BY <1>1 DEF Operation, Calls
  <2>3. /\ r.call = "none" /\ r.ok = (path # NoFile) /\ r.after = op[o].after
        /\ r.kind = op[o].kind /\ r.phase = op[o].phase /\ r.size = op[o].size
        /\ r.sent = op[o].sent /\ r.opened = opened /\ r.result = op[o].result
    BY <1>1 DEF Operation
  <2>4. op' = [op EXCEPT ![o] = r]
    BY <2>1
  <2> HIDE DEF r
  <2>5. /\ op' \in [Ops -> Operation] /\ (\A b \in Ops \ {o} : op'[b] = op[b]) /\ op'[o] = r
    BY <1>1, <2>2, <2>4
  <2>6. UNCHANGED <<path, written, removedBy>> /\ op[o].call \in {"stat", "open"}
    BY <1>5 DEF StatTakesEffect, OpenTakesEffect
  <2>7. OpSound(o)'
    <3>1. op[o].call = "open" => opened = path
      BY <2>1
    <3>2. /\ op[o].after = op[o].call /\ op[o].result \notin {"ok", "panic"}
          /\ op[o].phase \notin {"idle", "write", "read"}
      BY <1>1, <2>6 DEF OpSound
    <3> QED
      BY <1>1, <2>3, <2>5, <2>6, <3>1, <3>2 DEF OpSound, Complete
  <2>8. path = NoFile /\ removedBy = o =>
            op'[o].phase # "idle" /\ (op'[o].kind = "delete" \/ Between(o)')
    BY <1>1, <2>3, <2>5, <2>6 DEF GoneSound, Between, OpSound
  <2>9. path = o => op'[o].phase # "idle"
    BY <1>1, <2>3, <2>5 DEF PathSound
  <2> QED
    BY <1>1, <2>3, <2>5, <2>6, <2>7, <2>8, <2>9, LocalStep
<1>6. CASE WriteTakesEffect(o)
  <2>1. /\ UNCHANGED <<op, path, removedBy>>
        /\ op[o].kind = "put" /\ written[o] < op[o].sent
        /\ written' = [written EXCEPT ![o] = written[o] + 1]
    BY <1>6 DEF WriteTakesEffect
  <2>2. op[o].sent \in Nat /\ written[o] \in Nat
    BY <1>1 DEF Operation
  <2>3. ~Complete(o)
    BY <2>1, <2>2 DEF Complete
  <2>4. \A b \in Ops : Complete(b) => Complete(b)'
    BY <1>1, <2>1, <2>3 DEF Complete
  <2>5. \A b \in Ops : OpSound(b)'
    BY <2>1, <2>4 DEF FileInv, OpSound
  <2>6. FileTypes'
    BY <1>1, <2>1 DEF FileTypes
  <2>7. PathSound' /\ GoneSound'
    BY <1>1, <2>1, <2>4 DEF PathSound, GoneSound, Between
  <2> QED
    BY <2>5, <2>6, <2>7 DEF FileInv
<1> QED
  BY <1>2, <1>3, <1>4, <1>5, <1>6 DEF TakesEffect

\* A call is issued: it is one this kind of operation makes, an upload makes it only
\* when it is complete, and it is on the way to the rename if it has removed the file.
LEMMA IssueKeeps ==
    ASSUME FileInv, NEW o \in Ops, NEW call \in Calls \ {"none"}, Issue(o, call),
           UNCHANGED <<path, written, removedBy>>,
           op[o].phase \in {"run", "write"},
           call \in {"create", "exists", "rename", "unlink"} => op[o].kind = "put",
           call = "remove" => op[o].kind \in {"put", "delete"},
           op[o].kind = "put" /\ call \in {"exists", "remove", "rename"} => Complete(o),
           path = NoFile /\ removedBy = o =>
               op[o].kind = "delete" \/ call \in {"remove", "rename", "unlink"}
    PROVE  FileInv'
<1>1. op \in [Ops -> Operation] /\ OpSound(o) /\ PathSound /\ GoneSound
  BY DEF FileInv, FileTypes
<1>2. OpSound(o)'
  BY <1>1, IssueGives DEF OpSound, Complete
<1>3. path = NoFile /\ removedBy = o =>
          op'[o].phase # "idle" /\ (op'[o].kind = "delete" \/ Between(o)')
  BY <1>1, IssueGives DEF GoneSound, Between, OpSound
<1> QED
  BY <1>1, <1>2, <1>3, IssueGives, LocalStep

\* Where an upload can be that has removed the file and not yet renamed its own.
LEMMA RemoverStands ==
    ASSUME FileInv, NEW o \in Ops, path = NoFile, removedBy = o, op[o].kind # "delete"
    PROVE  /\ op[o].kind = "put" /\ op[o].phase \notin {"idle", "write", "read"}
           /\ op[o].after \in {"remove", "unlink", "rename"}
           /\ op[o].after = "rename" /\ op[o].call = "none" => ~op[o].ok
  BY DEF FileInv, GoneSound, Between, OpSound

\* The steps of an upload between its calls.
LEMMA PutKeepsFile ==
    ASSUME FileInv, NEW o \in Ops,
           \/ PutCreated(o) \/ PutWrites(o) \/ PutWriteFails(o) \/ PutFlushed(o)
           \/ PutReplaces(o) \/ PutEnds(o)
    PROVE  FileInv'
<1>1. op \in [Ops -> Operation] /\ op[o] \in Operation /\ OpSound(o) /\ PathSound /\ GoneSound
  BY DEF FileInv, FileTypes
<1>2. UNCHANGED <<path, written, removedBy>>
  BY DEF PutCreated, PutWrites, PutWriteFails, PutFlushed, PutReplaces, PutEnds
<1>3. ASSUME Ended(o, "error") PROVE FileInv'
  BY <1>2, <1>3, EndedKeeps DEF Results
<1>4. ASSUME PutFails(o), op[o].phase \in {"run", "write"}, op[o].kind = "put" PROVE FileInv'
  <2>1. Issue(o, "unlink") /\ "unlink" \in Calls \ {"none"}
    BY <1>4 DEF PutFails, Calls
  <2> QED
    BY <1>2, <1>4, <2>1, IssueKeeps
<1>5. CASE PutCreated(o)
  <2>1. CASE Ended(o, "error")
    BY <1>3, <2>1
  <2>2. CASE op' = [op EXCEPT ![o].phase = "write"]
    <3> DEFINE r == [op[o] EXCEPT !.phase = "write"]
    <3>1. r \in Operation
      BY <1>1 DEF Operation
    <3>2. /\ r.phase = "write" /\ r.call = op[o].call /\ r.after = op[o].after
          /\ r.kind = op[o].kind /\ r.ok = op[o].ok /\ r.size = op[o].size
          /\ r.sent = op[o].sent /\ r.seen = op[o].seen
          /\ r.opened = op[o].opened /\ r.result = op[o].result
      BY <1>1 DEF Operation
    <3>3. op' = [op EXCEPT ![o] = r]
      BY <2>2
    <3> HIDE DEF r
    <3>4. /\ op' \in [Ops -> Operation] /\ (\A b \in Ops \ {o} : op'[b] = op[b]) /\ op'[o] = r
      BY <1>1, <3>1, <3>3
    <3>5. op[o].phase = "run" /\ op[o].call = "none" /\ op[o].after = "create"
      BY <1>5 DEF PutCreated, Back
    <3>6. OpSound(o)'
      BY <1>1, <1>2, <3>2, <3>4, <3>5 DEF OpSound, Complete
    <3>7. path = NoFile /\ removedBy = o => op[o].kind = "delete"
      BY <3>5, RemoverStands
    <3> QED
      BY <1>1, <1>2, <3>2, <3>4, <3>6, <3>7, LocalStep
  <2> QED
    BY <1>5, <2>1, <2>2 DEF PutCreated
<1>6. CASE PutWrites(o)
  <2>1. op[o].phase = "write" /\ op[o].sent < op[o].size
    BY <1>6 DEF PutWrites
  <2>2. op[o].kind = "put" /\ op[o].call = "none" /\ op[o].after = "create"
    BY <1>1, <2>1 DEF OpSound
  <2>3. CASE PutFails(o)
    BY <1>4, <2>1, <2>2, <2>3
  <2>4. CASE op' = [op EXCEPT ![o].sent = op[o].sent + 1]
    <3> DEFINE r == [op[o] EXCEPT !.sent = op[o].sent + 1]
    <3>1. r \in Operation
      BY <1>1 DEF Operation
    <3>2. /\ r.phase = op[o].phase /\ r.call = op[o].call /\ r.after = op[o].after
          /\ r.kind = op[o].kind /\ r.ok = op[o].ok /\ r.size = op[o].size
          /\ r.seen = op[o].seen /\ r.opened = op[o].opened /\ r.result = op[o].result
      BY <1>1 DEF Operation
    <3>3. op' = [op EXCEPT ![o] = r]
      BY <2>4
    <3> HIDE DEF r
    <3>4. /\ op' \in [Ops -> Operation] /\ (\A b \in Ops \ {o} : op'[b] = op[b]) /\ op'[o] = r
      BY <1>1, <3>1, <3>3
    <3>5. OpSound(o)'
      BY <1>1, <2>1, <2>2, <3>2, <3>4 DEF OpSound
    <3>6. path # o
      <4>1. op[o].sent \in Nat /\ op[o].size \in Nat
        BY <1>1 DEF Operation
      <4> QED
        BY <1>1, <2>1, <4>1 DEF PathSound, Complete
    <3>7. ~(path = NoFile /\ removedBy = o)
      BY <2>1, <2>2, RemoverStands
    <3> QED
      BY <1>1, <1>2, <3>4, <3>5, <3>6, <3>7, LocalStep
  <2> QED
    BY <1>6, <2>3, <2>4 DEF PutWrites
<1>7. CASE PutWriteFails(o)
  BY <1>1, <1>4, <1>7 DEF PutWriteFails, OpSound
<1>8. CASE PutFlushed(o)
  <2>1. op[o].phase = "write" /\ Complete(o)
    BY <1>8 DEF PutFlushed, Flushed, Complete
  <2>2. op[o].kind = "put"
    BY <1>1, <2>1 DEF OpSound
  <2>3. PICK call \in {"exists", "rename"} : Issue(o, call)
    BY <1>8 DEF PutFlushed
  <2>4. ~(path = NoFile /\ removedBy = o)
    BY <2>1, <2>2, RemoverStands
  <2>5. call \in Calls \ {"none"}
    BY <2>3 DEF Calls
  <2> QED
    BY <1>2, <2>1, <2>2, <2>3, <2>4, <2>5, IssueKeeps
<1>9. CASE PutReplaces(o)
  <2>1. op[o].kind = "put" /\ op[o].phase = "run" /\ op[o].call = "none"
    BY <1>9 DEF PutReplaces, Back
  <2>2. CASE PutFails(o)
    BY <1>4, <2>1, <2>2
  <2>3. CASE Back(o, "exists") /\ Issue(o, IF op[o].ok THEN "remove" ELSE "rename")
    <3>1. PICK call \in {"remove", "rename"} : Issue(o, call)
      BY <2>3
    <3>2. call \in Calls \ {"none"} /\ op[o].after = "exists"
      BY <2>3, <3>1 DEF Calls, Back
    <3>3. Complete(o)
      BY <1>1, <2>1, <3>2 DEF OpSound
    <3> QED
      BY <1>2, <2>1, <3>1, <3>2, <3>3, IssueKeeps
  <2>4. CASE Back(o, "remove") /\ Issue(o, "rename")
    <3>1. "rename" \in Calls \ {"none"} /\ op[o].after = "remove"
      BY <2>4 DEF Calls, Back
    <3>2. Complete(o)
      BY <1>1, <2>1, <3>1 DEF OpSound
    <3> QED
      BY <1>2, <2>1, <2>4, <3>1, <3>2, IssueKeeps
  <2>5. CASE Back(o, "rename") /\ op[o].ok /\ Issue(o, "stat")
    <3>1. "stat" \in Calls \ {"none"} /\ op[o].after = "rename"
      BY <2>5 DEF Calls, Back
    <3>2. ~(path = NoFile /\ removedBy = o)
      BY <2>1, <2>5, <3>1, RemoverStands
    <3> QED
      BY <1>2, <2>1, <2>5, <3>1, <3>2, IssueKeeps
  <2> QED
    BY <1>9, <2>2, <2>3, <2>4, <2>5 DEF PutReplaces
<1>10. CASE PutEnds(o)
  <2>1. op[o].kind = "put" /\ op[o].phase = "run" /\ op[o].call = "none"
    BY <1>10 DEF PutEnds, Back
  <2>2. CASE PutFails(o)
    BY <1>4, <2>1, <2>2
  <2>3. CASE Back(o, "stat") /\ Ended(o, "ok")
    <3>1. op[o].after = "stat" /\ "ok" \in Results
      BY <2>3 DEF Back, Results
    <3>2. ~(path = NoFile /\ removedBy = o)
      BY <2>1, <3>1, RemoverStands
    <3>3. OpSound(o)'
      BY <1>1, <1>2, <2>1, <2>3, <3>1, EndedGives DEF OpSound, Complete
    <3> QED
      BY <1>1, <1>2, <2>3, <3>1, <3>2, <3>3, EndedGives, LocalStep
  <2> QED
    BY <1>3, <1>10, <2>2, <2>3 DEF PutEnds
<1> QED
  BY <1>5, <1>6, <1>7, <1>8, <1>9, <1>10

\* An operation begins with a call: it was idle, so the path is not its file.
LEMMA BeginKeeps ==
    ASSUME FileInv, NEW o \in Ops, op[o].phase = "idle", UNCHANGED <<path, written, removedBy>>,
           NEW r \in Operation, op' = [op EXCEPT ![o] = r],
           r.phase = "run", r.call \in {"create", "stat"}, r.after = r.call, r.result = "none",
           r.call = "create" => r.kind = "put"
    PROVE  FileInv'
<1>1. op \in [Ops -> Operation] /\ path \in Ops \cup {Old, NoFile}
  BY DEF FileInv, FileTypes
<1>2. /\ op' \in [Ops -> Operation] /\ (\A b \in Ops \ {o} : op'[b] = op[b]) /\ op'[o] = r
  BY <1>1
<1>3. OpSound(o)'
  BY <1>2 DEF OpSound
<1> QED
  BY <1>2, <1>3, IdleApart, LocalStep

\* put, get, delete and stat up to their first call.
LEMMA AskKeeps ==
    ASSUME FileInv, NEW o \in Ops,
           \/ \E place \in Places, size, announced \in Sizes, overwrite \in BOOLEAN :
                  Put(o, place, size, announced, overwrite)
           \/ \E kind \in FileKinds \ {"put"}, place \in Places,
                  range \in {{}, {<<0, 0>>}, {<<0, OldSize>>}, {<<1, 0>>}} :
                  Ask(o, kind, place, range)
    PROVE  FileInv'
<1>1. op[o].phase = "idle" /\ UNCHANGED <<path, written, removedBy>>
  BY DEF Put, Ask
<1>2. CASE Ended(o, "error")
  BY <1>1, <1>2, EndedKeeps DEF Results
<1>3. CASE \E size \in Sizes, overwrite \in BOOLEAN :
               op' = [op EXCEPT ![o] = [Fresh EXCEPT !.phase = "run", !.call = "create",
                                                     !.after = "create", !.size = size,
                                                     !.overwrite = overwrite]]
  <2>1. PICK size \in Sizes, overwrite \in BOOLEAN :
            op' = [op EXCEPT ![o] = [Fresh EXCEPT !.phase = "run", !.call = "create",
                                                  !.after = "create", !.size = size,
                                                  !.overwrite = overwrite]]
    BY <1>3
  <2> DEFINE r == [Fresh EXCEPT !.phase = "run", !.call = "create", !.after = "create",
                                !.size = size, !.overwrite = overwrite]
  <2>2. size \in Nat
    BY FileAssumption
  <2>3. r \in Operation
    BY <2>2 DEF Fresh, Operation, FileKinds, Calls, Results
  <2>4. r.phase = "run" /\ r.call = "create" /\ r.after = "create" /\ r.kind = "put"
        /\ r.result = "none"
    BY DEF Fresh
  <2>5. op' = [op EXCEPT ![o] = r]
    BY <2>1
  <2> HIDE DEF r
  <2> QED
    BY <1>1, <2>3, <2>4, <2>5, BeginKeeps
<1>4. CASE \E kind \in FileKinds \ {"put"}, range \in {{}, {<<0, 0>>}, {<<0, OldSize>>}, {<<1, 0>>}} :
               op' = [op EXCEPT ![o] = [Fresh EXCEPT !.kind = kind, !.phase = "run",
                                                     !.call = "stat", !.after = "stat",
                                                     !.range = range]]
  <2>1. PICK kind \in FileKinds \ {"put"}, range \in {{}, {<<0, 0>>}, {<<0, OldSize>>}, {<<1, 0>>}} :
            op' = [op EXCEPT ![o] = [Fresh EXCEPT !.kind = kind, !.phase = "run", !.call = "stat",
                                                  !.after = "stat", !.range = range]]
    BY <1>4
  <2> DEFINE r == [Fresh EXCEPT !.kind = kind, !.phase = "run", !.call = "stat",
                                !.after = "stat", !.range = range]
  <2>2. range \in SUBSET (Nat \X Nat)
    BY FileAssumption
  <2>3. r \in Operation
    BY <2>2 DEF Fresh, Operation, Calls, Results
  <2>4. r.phase = "run" /\ r.call = "stat" /\ r.after = "stat" /\ r.result = "none"
    BY DEF Fresh
  <2>5. op' = [op EXCEPT ![o] = r]
    BY <2>1
  <2> HIDE DEF r
  <2> QED
    BY <1>1, <2>3, <2>4, <2>5, BeginKeeps
<1> QED
  BY <1>2, <1>3, <1>4 DEF Put, Ask

\* The end of a download: within one file the slice is in bounds.
LEMMA GetEndsKeeps ==
    ASSUME FileInv, NEW o \in Ops, GetEnds(o)
    PROVE  FileInv'
<1>1. op \in [Ops -> Operation] /\ op[o] \in Operation /\ OpSound(o) /\ PathSound /\ GoneSound
  BY DEF FileInv, FileTypes
<1>2. UNCHANGED <<path, written, removedBy>> /\ op[o].phase = "read"
  BY DEF GetEnds
<1>3. op[o].kind = "get" /\ op[o].call = "none" /\ op[o].opened # NoFile
  BY <1>1, <1>2 DEF OpSound
<1>4. PICK result \in {"error", "panic", "ok"} :
          Ended(o, result) /\ (result = "panic" => op[o].seen # op[o].opened)
  <2> DEFINE size == SizeOf(op[o].seen)
             end == IF op[o].range = {} THEN size - 1 ELSE (CHOOSE r \in op[o].range : TRUE)[2]
  <2>1. op[o].sent = SizeOf(op[o].opened)
    BY DEF GetEnds
  <2>2. \/ Ended(o, "error")
        \/ Ended(o, IF ~RangeFits(op[o].range, size) THEN "error"
                    ELSE IF size > 0 /\ end >= op[o].sent THEN "panic" ELSE "ok")
    BY DEF GetEnds
  <2>3. ASSUME op[o].seen = op[o].opened, RangeFits(op[o].range, size), size > 0
        PROVE  ~(end >= op[o].sent)
    <3>1. op[o].opened \in Ops \cup {Old} /\ op[o].range \in SUBSET (Nat \X Nat)
      BY <1>1, <1>3 DEF Operation
    <3>2. size \in Nat /\ op[o].sent = size
      BY <1>1, <2>1, <2>3, <3>1, FileAssumption DEF SizeOf, Operation
    <3>3. CASE op[o].range = {}
      BY <3>2, <3>3
    <3>4. CASE op[o].range # {}
      <4>1. (CHOOSE r \in op[o].range : TRUE) \in op[o].range
        BY <3>4
      <4>2. PICK r \in op[o].range : end = r[2]
        BY <3>4, <4>1
      <4>3. r[2] < size
        BY <2>3, <3>2, <4>2 DEF RangeFits
      <4>4. r[2] \in Nat
        BY <3>1, <4>2
      <4> HIDE DEF end, size
      <4> QED
        BY <3>2, <4>2, <4>3, <4>4
    <3> QED
      BY <3>3, <3>4
  <2> HIDE DEF size, end
  <2> QED
    BY <2>2, <2>3
<1>5. result \in Results
  BY <1>4 DEF Results
<1>6. OpSound(o)'
  BY <1>1, <1>2, <1>3, <1>4, <1>5, EndedGives DEF OpSound
<1>7. ~(path = NoFile /\ removedBy = o)
  BY <1>2, <1>3, RemoverStands
<1> QED
  BY <1>1, <1>2, <1>3, <1>4, <1>5, <1>6, <1>7, EndedGives, LocalStep DEF PathSound

\* The steps of a download before its end: what it reads is a file it has opened.
LEMMA GetKeeps ==
    ASSUME FileInv, NEW o \in Ops, GetOpens(o) \/ GetReads(o)
    PROVE  FileInv'
<1>1. op \in [Ops -> Operation] /\ op[o] \in Operation /\ OpSound(o) /\ PathSound
  BY DEF FileInv, FileTypes
<1>2. UNCHANGED <<path, written, removedBy>>
  BY DEF GetOpens, GetReads
<1>3. op[o].kind = "get" /\ op[o].call = "none" /\ op[o].phase \in {"run", "read"}
  BY <1>1 DEF GetOpens, GetReads, Back, OpSound
<1>4. path # o /\ ~(path = NoFile /\ removedBy = o)
  BY <1>1, <1>3, RemoverStands DEF PathSound
<1>5. CASE Ended(o, "error")
  BY <1>2, <1>5, EndedKeeps DEF Results
<1>6. CASE op[o].phase = "run" /\ Issue(o, "open")
  <2>1. "open" \in Calls \ {"none"}
    BY DEF Calls
  <2> QED
    BY <1>2, <1>3, <1>4, <1>6, <2>1, IssueKeeps
<1>7. CASE Back(o, "open") /\ op[o].ok /\ op' = [op EXCEPT ![o].phase = "read"]
  <2> DEFINE r == [op[o] EXCEPT !.phase = "read"]
  <2>1. r \in Operation
    BY <1>1 DEF Operation
  <2>2. /\ r.phase = "read" /\ r.call = op[o].call /\ r.after = op[o].after
        /\ r.kind = op[o].kind /\ r.seen = op[o].seen /\ r.opened = op[o].opened
        /\ r.result = op[o].result
    BY <1>1 DEF Operation
  <2>3. op' = [op EXCEPT ![o] = r]
    BY <1>7
  <2> HIDE DEF r
  <2>4. /\ op' \in [Ops -> Operation] /\ (\A b \in Ops \ {o} : op'[b] = op[b]) /\ op'[o] = r
    BY <1>1, <2>1, <2>3
  <2>5. op[o].after = "open" /\ op[o].ok /\ op[o].phase = "run"
    BY <1>7 DEF Back
  <2>6. OpSound(o)'
    BY <1>1, <1>3, <2>2, <2>4, <2>5 DEF OpSound
  <2> QED
    BY <1>2, <1>4, <2>4, <2>6, LocalStep
<1>8. CASE op[o].phase = "read" /\ op' = [op EXCEPT ![o].sent = op[o].sent + 1]
  <2> DEFINE r == [op[o] EXCEPT !.sent = op[o].sent + 1]
  <2>1. r \in Operation
    BY <1>1 DEF Operation
  <2>2. /\ r.phase = op[o].phase /\ r.call = op[o].call /\ r.after = op[o].after
        /\ r.kind = op[o].kind /\ r.seen = op[o].seen /\ r.opened = op[o].opened
        /\ r.result = op[o].result
    BY <1>1 DEF Operation
  <2>3. op' = [op EXCEPT ![o] = r]
    BY <1>8
  <2> HIDE DEF r
  <2>4. /\ op' \in [Ops -> Operation] /\ (\A b \in Ops \ {o} : op'[b] = op[b]) /\ op'[o] = r
    BY <1>1, <2>1, <2>3
  <2>5. OpSound(o)'
    BY <1>1, <1>3, <1>8, <2>2, <2>4 DEF OpSound
  <2> QED
    BY <1>2, <1>4, <2>4, <2>5, LocalStep
<1> QED
  BY <1>5, <1>6, <1>7, <1>8 DEF GetOpens, GetReads, Back

\* delete and stat after their calls.
LEMMA DeleteGoesOnKeeps ==
    ASSUME FileInv, NEW o \in Ops, DeleteGoesOn(o) \/ StatEnds(o)
    PROVE  FileInv'
<1>1. op \in [Ops -> Operation] /\ op[o] \in Operation /\ OpSound(o) /\ PathSound
  BY DEF FileInv, FileTypes
<1>2. UNCHANGED <<path, written, removedBy>> /\ op[o].phase = "run" /\ op[o].call = "none"
      /\ op[o].kind \in {"delete", "stat"}
  BY DEF DeleteGoesOn, StatEnds, Back
<1>3. path # o /\ (path = NoFile /\ removedBy = o => op[o].kind = "delete")
  BY <1>1, <1>2, RemoverStands DEF PathSound
<1>4. CASE op[o].kind = "delete" /\ Issue(o, "remove")
  <2>1. "remove" \in Calls \ {"none"}
    BY DEF Calls
  <2> QED
    BY <1>2, <1>3, <1>4, <2>1, IssueKeeps
<1>5. CASE Ended(o, "error")
  BY <1>2, <1>5, EndedKeeps DEF Results
<1>6. CASE Ended(o, "ok")
  <2>1. "ok" \in Results
    BY DEF Results
  <2>2. OpSound(o)'
    BY <1>1, <1>2, <1>6, <2>1, EndedGives DEF OpSound
  <2> QED
    BY <1>1, <1>2, <1>3, <1>6, <2>1, <2>2, EndedGives, LocalStep
<1> QED
  BY <1>4, <1>5, <1>6 DEF DeleteGoesOn, StatEnds

\* A cancellation only raises the flag; the time limit drops the operation and
\* leaves its call to its thread.
LEMMA DropKeeps ==
    ASSUME FileInv, NEW o \in Ops, Cancel(o) \/ Timeout(o)
    PROVE  FileInv'
<1>1. op \in [Ops -> Operation] /\ op[o] \in Operation /\ OpSound(o) /\ PathSound /\ GoneSound
  BY DEF FileInv, FileTypes
<1>2. UNCHANGED <<path, written, removedBy>>
  BY DEF Cancel, Timeout
<1>3. CASE Timeout(o)
  BY <1>2, <1>3, EndedKeeps DEF Timeout, Results
<1>4. CASE Cancel(o)
  <2> DEFINE r == [op[o] EXCEPT !.cancelled = TRUE]
  <2>1. r \in Operation
    BY <1>1 DEF Operation
  <2>2. /\ r.phase = op[o].phase /\ r.call = op[o].call /\ r.after = op[o].after
        /\ r.kind = op[o].kind /\ r.ok = op[o].ok /\ r.size = op[o].size
        /\ r.sent = op[o].sent /\ r.seen = op[o].seen
        /\ r.opened = op[o].opened /\ r.result = op[o].result
    BY <1>1 DEF Operation
  <2>3. op' = [op EXCEPT ![o] = r]
    BY <1>4 DEF Cancel
  <2> HIDE DEF r
  <2>4. /\ op' \in [Ops -> Operation] /\ (\A b \in Ops \ {o} : op'[b] = op[b]) /\ op'[o] = r
    BY <1>1, <2>1, <2>3
  <2>5. OpSound(o)'
    BY <1>1, <1>2, <2>2, <2>4 DEF OpSound, Complete
  <2>6. path = o => op'[o].phase # "idle"
    BY <1>1, <2>2, <2>4 DEF PathSound
  <2>7. path = NoFile /\ removedBy = o =>
            op'[o].phase # "idle" /\ (op'[o].kind = "delete" \/ Between(o)')
    BY <1>1, <2>2, <2>4 DEF GoneSound, Between
  <2> QED
    BY <1>2, <2>2, <2>4, <2>5, <2>6, <2>7, LocalStep
<1> QED
  BY <1>3, <1>4

\* FileInv holds whatever operations run on the path and however they are cut.
LEMMA FileInvariant == FileSpec => []FileInv
<1>1. FileInv /\ [FileNext]_fileVars => FileInv'
  <2> SUFFICES ASSUME FileInv, [FileNext]_fileVars PROVE FileInv'
    OBVIOUS
  <2>1. CASE FileNext
    <3>1. PICK o \in Ops :
              \/ TakesEffect(o)
              \/ \E place \in Places, size, announced \in Sizes, overwrite \in BOOLEAN :
                     Put(o, place, size, announced, overwrite)
              \/ PutCreated(o) \/ PutWrites(o) \/ PutWriteFails(o) \/ PutFlushed(o)
              \/ PutReplaces(o) \/ PutEnds(o)
              \/ \E kind \in FileKinds \ {"put"}, place \in Places,
                     range \in {{}, {<<0, 0>>}, {<<0, OldSize>>}, {<<1, 0>>}} :
                     Ask(o, kind, place, range)
              \/ GetOpens(o) \/ GetReads(o) \/ GetEnds(o) \/ DeleteGoesOn(o) \/ StatEnds(o)
              \/ Cancel(o) \/ Timeout(o)
      BY <2>1 DEF FileNext
    <3> QED
      BY <3>1, TakesEffectKeeps, PutKeepsFile, AskKeeps, GetKeeps, GetEndsKeeps, DeleteGoesOnKeeps,
         DropKeeps
  <2>2. CASE UNCHANGED fileVars
    BY <2>2 DEF fileVars, FileInv, FileTypes, OpSound, PathSound, GoneSound, Between, Complete
  <2> QED
    BY <2>1, <2>2
<1> QED
  BY FileStarts, <1>1, PTL DEF FileSpec

\* FileTransferService::put: the path never shows part of an upload, whichever
\* uploads run against each other and wherever one is cut.
THEOREM UploadsPublishedWhole == FileSpec => []PublishedWhole
<1>1. FileInv => PublishedWhole
  BY DEF FileInv, PathSound, Complete, PublishedWhole
<1> QED
  BY FileInvariant, <1>1, PTL

\* The path is only empty because of a delete or of an overwriting put that has not
\* reported success.
THEOREM GoneForAReason == FileSpec => []GoneOnlyWhenCut
<1>1. FileInv => GoneOnlyWhenCut
  BY FileAssumption DEF FileInv, FileTypes, GoneSound, Between, GoneOnlyWhenCut
<1> QED
  BY FileInvariant, <1>1, PTL

\* The one way to a slice out of bounds: the size is another file's.
PanicsOnlyOnReplace == \A o \in Ops : op[o].result = "panic" => op[o].seen # op[o].opened

\* The slice FileTransferService::get takes of what it read is in bounds unless the
\* path was given to another file between its metadata and its open.
THEOREM SlicesInBounds == FileSpec => []PanicsOnlyOnReplace
<1>1. FileInv => PanicsOnlyOnReplace
  BY DEF FileInv, OpSound, PanicsOnlyOnReplace
<1> QED
  BY FileInvariant, <1>1, PTL

---------------------------------------------------------------------------------
(* The object store                                                              *)

Text == Hashes \cup {Empty}

StoredRow ==
    [kind : [prefixes : Nat, kind : Kinds], title : Titles \cup {Empty}, status : Statuses,
     payload_ref : Refs \cup {Empty}, payload_hash : Text, current_revision : 1..MaxRevision]

RevisionRow ==
    [object_id : Ids, revision : Nat \ {0}, payload_ref : Refs \cup {Empty},
     payload_hash : Text, base : SUBSET Text]

StoreTypes ==
    /\ objects \in [Ids -> SUBSET StoredRow]
    /\ revisions \in SUBSET RevisionRow
    /\ search \in [Ids -> SUBSET [title : Titles \cup {Empty}, kind : [prefixes : Nat, kind : Kinds]]]
    /\ tx \in [Handles -> SUBSET [object : ObjectRecord, stale : BOOLEAN, base : SUBSET Text]]
    /\ copy \in [Handles -> SUBSET ObjectRecord]

\* There is a revision of the object with this number and this payload.
Held(id, revision, hash) ==
    \E p \in revisions : p.object_id = id /\ p.revision = revision /\ p.payload_hash = hash

\* The PRIMARY KEY of object_revisions.
KeysUnique ==
    \A r, s \in revisions : r.object_id = s.object_id /\ r.revision = s.revision => r = s

\* The row of an object, its place in the index and its revisions belong together.
ObjectSound(id) ==
    \/ objects[id] = {} /\ search[id] = {} /\ \A r \in revisions : r.object_id # id
    \/ \E row \in objects[id], s \in search[id] :
           /\ objects[id] = {row} /\ search[id] = {s} /\ s.title = row.title
           /\ \E first \in 1..row.current_revision :
                  RevisionsOf(id) = first..row.current_revision
           /\ \A r \in revisions : r.object_id = id /\ r.revision = row.current_revision =>
                  r.payload_ref = row.payload_ref /\ r.payload_hash = row.payload_hash

\* What a process has read was stored, whatever was committed since.
CopySound(h) ==
    \A c \in copy[h] : c.id \in Ids /\ Held(c.id, c.current_revision, c.payload_hash)

\* A transaction nobody has overtaken still goes on from the current row.
TxSound(h) ==
    \A t \in tx[h] :
        /\ t.object.id \in Ids
        /\ \A hash \in t.base : Held(t.object.id, t.object.current_revision - 1, hash)
        /\ ~t.stale => \A row \in objects[t.object.id] :
                           t.object.current_revision = row.current_revision + 1

StoreInv ==
    /\ StoreTypes /\ KeysUnique /\ EditsBuildOnLatest
    /\ \A id \in Ids : ObjectSound(id)
    /\ \A h \in Handles : CopySound(h) /\ TxSound(h)

\* An empty database.
LEMMA StoreStarts == StoreInit => StoreInv
<1> SUFFICES ASSUME StoreInit PROVE StoreInv
  OBVIOUS
<1>1. StoreTypes
  BY DEF StoreInit, StoreTypes
<1>2. KeysUnique /\ EditsBuildOnLatest /\ (\A id \in Ids : ObjectSound(id))
  BY DEF StoreInit, KeysUnique, EditsBuildOnLatest, ObjectSound
<1>3. \A h \in Handles : CopySound(h) /\ TxSound(h)
  BY DEF StoreInit, CopySound, TxSound
<1> QED
  BY <1>1, <1>2, <1>3 DEF StoreInv

\* The current revision of an object holds the payload its row names.
LEMMA CurrentHeld ==
    ASSUME StoreInv, NEW id \in Ids, NEW row \in objects[id]
    PROVE  Held(id, row.current_revision, row.payload_hash)
<1>1. row \in StoredRow
  BY DEF StoreInv, StoreTypes
<1>2. row.current_revision \in Nat \ {0}
  BY <1>1, StoreAssumption DEF StoredRow
<1>3. ObjectSound(id)
  BY DEF StoreInv
<1>4. PICK first \in 1..row.current_revision : RevisionsOf(id) = first..row.current_revision
  BY <1>3 DEF ObjectSound
<1>5. row.current_revision \in RevisionsOf(id)
  BY <1>2, <1>4
<1>6. PICK r \in revisions : r.object_id = id /\ r.revision = row.current_revision
  BY <1>5 DEF RevisionsOf
<1>7. r.payload_hash = row.payload_hash
  BY <1>3, <1>6 DEF ObjectSound
<1> QED
  BY <1>6, <1>7 DEF Held

\* A commit: the record is a new object, or the next revision of its row.
LEMMA CommitKeeps ==
    ASSUME StoreInv, NEW object \in ObjectRecord, object.id \in Ids,
           object.current_revision # 0,
           NEW row \in StoredRow, NEW base \in SUBSET Text, Stored(object, row, base),
           row.title = object.title, row.payload_ref = object.payload_ref,
           row.payload_hash = object.payload_hash,
           row.current_revision = object.current_revision,
           RevisionFree(object.id, object.current_revision),
           \A old \in objects[object.id] : object.current_revision = old.current_revision + 1,
           \A hash \in base : Held(object.id, object.current_revision - 1, hash),
           \A h \in Handles : tx'[h] \subseteq Overtaken(tx[h]),
           tx' \in [Handles -> SUBSET [object : ObjectRecord, stale : BOOLEAN, base : SUBSET Text]],
           UNCHANGED copy
    PROVE  StoreInv'
<1> DEFINE id == object.id
           n == object.current_revision
           new == [object_id |-> object.id, revision |-> object.current_revision,
                   payload_ref |-> object.payload_ref, payload_hash |-> object.payload_hash,
                   base |-> base]
<1>1. id \in Ids /\ n \in Nat \ {0} /\ object.payload_ref \in Refs \cup {Empty}
      /\ object.payload_hash \in Text /\ object.title \in Titles \cup {Empty}
      /\ object.kind \in Kinds
  BY StoreAssumption DEF ObjectRecord, Text
<1>2. new \in RevisionRow
  BY <1>1 DEF RevisionRow
<1>3. /\ objects' = [objects EXCEPT ![id] = {row}]
      /\ revisions' = revisions \cup {new}
      /\ search' = [search EXCEPT ![id] = {SearchRow(object)}]
  BY DEF Stored, upsert_search
<1>4. /\ new.object_id = id /\ new.revision = n /\ new.payload_ref = row.payload_ref
      /\ new.payload_hash = row.payload_hash /\ new.base = base
  OBVIOUS
<1>5. SearchRow(object) \in [title : Titles \cup {Empty}, kind : [prefixes : Nat, kind : Kinds]]
      /\ SearchRow(object).title = row.title
  BY <1>1 DEF SearchRow, object_kind_name
<1> HIDE DEF new, id, n
<1>6. StoreTypes'
  BY <1>1, <1>2, <1>3, <1>5 DEF StoreInv, StoreTypes
<1>7. KeysUnique'
  <2>1. \A r \in revisions : ~(r.object_id = id /\ r.revision = n)
    BY DEF RevisionFree, id, n
  <2> QED
    BY <1>3, <1>4, <2>1 DEF StoreInv, KeysUnique
<1>8. \A i, m, hash : Held(i, m, hash) => Held(i, m, hash)'
  BY <1>3 DEF Held
<1>9. EditsBuildOnLatest'
  <2>1. \A r \in revisions : \A hash \in r.base : Held(r.object_id, r.revision - 1, hash)
    BY DEF StoreInv, EditsBuildOnLatest, Held
  <2>2. \A hash \in base : Held(id, n - 1, hash)
    BY DEF id, n
  <2>3. \A r \in revisions' : \A hash \in r.base : Held(r.object_id, r.revision - 1, hash)'
    BY <1>3, <1>4, <1>8, <2>1, <2>2
  <2> QED
    BY <2>3 DEF EditsBuildOnLatest, Held
<1>10. ASSUME NEW i \in Ids, i # id PROVE ObjectSound(i)'
  <2>1. objects'[i] = objects[i] /\ search'[i] = search[i] /\ ObjectSound(i)
    BY <1>3, <1>10 DEF StoreInv, StoreTypes
  <2>2. \A r \in revisions' : r.object_id = i => r \in revisions
    BY <1>3, <1>4, <1>10
  <2>3. RevisionsOf(i)' = RevisionsOf(i)
    BY <1>3, <2>2 DEF RevisionsOf
  <2> QED
    BY <1>3, <2>1, <2>2, <2>3 DEF ObjectSound
<1>11. ObjectSound(id)'
  <2>1. objects'[id] = {row} /\ search'[id] = {SearchRow(object)}
    BY <1>1, <1>3 DEF StoreInv, StoreTypes
  <2>2. RevisionsOf(id)' = RevisionsOf(id) \cup {n}
    BY <1>3, <1>4 DEF RevisionsOf
  <2>3. \E first \in 1..n : RevisionsOf(id)' = first..n
    <3>1. CASE objects[id] = {}
      <4>1. RevisionsOf(id) = {}
        BY <1>1, <3>1 DEF StoreInv, ObjectSound, RevisionsOf
      <4> QED
        BY <1>1, <2>2, <4>1
    <3>2. CASE objects[id] # {}
      <4>1. PICK old \in objects[id] : \E first \in 1..old.current_revision :
                RevisionsOf(id) = first..old.current_revision
        BY <1>1, <3>2 DEF StoreInv, ObjectSound
      <4>2. n = old.current_revision + 1
        BY <4>1 DEF id, n
      <4>3. old.current_revision \in Nat \ {0}
        BY <1>1, <4>1, StoreAssumption DEF StoreInv, StoreTypes, StoredRow
      <4>4. PICK first \in 1..old.current_revision : RevisionsOf(id) = first..old.current_revision
        BY <4>1
      <4>5. first \in 1..n /\ first..n = (first..old.current_revision) \cup {n}
        BY <4>2, <4>3, <4>4
      <4> QED
        BY <2>2, <4>4, <4>5
    <3> QED
      BY <3>1, <3>2
  <2>4. \A r \in revisions' : r.object_id = id /\ r.revision = n =>
            r.payload_ref = row.payload_ref /\ r.payload_hash = row.payload_hash
    BY <1>3, <1>4 DEF RevisionFree, id, n
  <2>5. row.current_revision = n
    BY DEF n
  <2> QED
    BY <1>5, <2>1, <2>3, <2>4, <2>5 DEF ObjectSound
<1>12. ASSUME NEW h \in Handles PROVE CopySound(h)' /\ TxSound(h)'
  <2>1. CopySound(h) /\ TxSound(h) /\ copy' = copy
    BY DEF StoreInv
  <2>2. CopySound(h)'
    BY <1>8, <2>1 DEF CopySound
  <2>3. TxSound(h)'
    <3> SUFFICES ASSUME NEW u \in tx'[h]
                 PROVE  /\ u.object.id \in Ids
                        /\ \A hash \in u.base :
                               Held(u.object.id, u.object.current_revision - 1, hash)'
                        /\ u.stale
      BY DEF TxSound
    <3>1. PICK t \in tx[h] : u = [t EXCEPT !.stale = TRUE]
      BY DEF Overtaken
    <3>2. t \in [object : ObjectRecord, stale : BOOLEAN, base : SUBSET Text]
      BY DEF StoreInv, StoreTypes
    <3>3. u.object = t.object /\ u.base = t.base /\ u.stale
      BY <3>1, <3>2
    <3> QED
      BY <1>8, <2>1, <3>3 DEF TxSound
  <2> QED
    BY <2>2, <2>3
<1> QED
  BY <1>6, <1>7, <1>9, <1>10, <1>11, <1>12 DEF StoreInv

\* A record goes to a row the tables can hold, with the fields the index and the
\* revisions repeat.
LEMMA RowGives ==
    ASSUME NEW object \in ObjectRecord, object.current_revision # 0
    PROVE  /\ Row(object) \in StoredRow
           /\ Row(object).title = object.title /\ Row(object).payload_ref = object.payload_ref
           /\ Row(object).payload_hash = object.payload_hash
           /\ Row(object).current_revision = object.current_revision
<1>1. object.current_revision \in 1..MaxRevision /\ object.status \in Statuses
  BY StoreAssumption DEF ObjectRecord
<1>2. object_kind_name(object.kind) \in [prefixes : Nat, kind : Kinds]
  BY DEF object_kind_name, ObjectRecord
<1>3. status_name(object.status) \in Statuses
  BY <1>1 DEF status_name, Statuses
<1> QED
  BY <1>1, <1>2, <1>3 DEF Row, StoredRow, ObjectRecord, Text

\* A transaction that is overtaken keeps its type.
LEMMA OvertakenType ==
    ASSUME StoreTypes, NEW h \in Handles
    PROVE  Overtaken(tx[h]) \in
               SUBSET [object : ObjectRecord, stale : BOOLEAN, base : SUBSET Text]
<1>1. tx[h] \in SUBSET [object : ObjectRecord, stale : BOOLEAN, base : SUBSET Text]
  BY DEF StoreTypes
<1>2. \A t \in tx[h] :
          [t EXCEPT !.stale = TRUE] \in [object : ObjectRecord, stale : BOOLEAN, base : SUBSET Text]
  BY <1>1
<1> QED
  BY <1>2 DEF Overtaken

\* insert_object commits a record whose id has no row.
LEMMA InsertKeeps ==
    ASSUME StoreInv, NEW h \in Handles, NEW object \in NewRecords, insert_object(h, object)
    PROVE  StoreInv'
<1>1. /\ object \in ObjectRecord /\ object.id \in Ids /\ object.current_revision # 0
  BY StoreAssumption DEF insert_object, validate_object, ObjectRecord
<1>2. /\ Stored(object, Row(object), {}) /\ objects[object.id] = {}
      /\ RevisionFree(object.id, object.current_revision) /\ UNCHANGED copy
      /\ tx' = [g \in Handles |-> Overtaken(tx[g])]
  BY DEF insert_object
<1>3. tx' \in [Handles -> SUBSET [object : ObjectRecord, stale : BOOLEAN, base : SUBSET Text]]
  BY <1>2, OvertakenType DEF StoreInv
<1>4. \A g \in Handles : tx'[g] \subseteq Overtaken(tx[g])
  BY <1>2
<1> QED
  BY <1>1, <1>2, <1>3, <1>4, RowGives, CommitKeeps

\* get_object returns the current row, whose revision is held.
LEMMA GetObjectKeeps ==
    ASSUME StoreInv, NEW h \in Handles, NEW id \in Ids, get_object(h, id)
    PROVE  StoreInv'
<1> DEFINE found == {row_to_object(id, row) : row \in {r \in objects[id] : r.status # "deleted"}}
<1>1. UNCHANGED <<objects, revisions, search, tx>> /\ copy' = [copy EXCEPT ![h] = found]
  BY DEF get_object
<1>2. \A row \in objects[id] :
          /\ row_to_object(id, row) \in ObjectRecord
          /\ row_to_object(id, row).id = id
          /\ row_to_object(id, row).current_revision = row.current_revision
          /\ row_to_object(id, row).payload_hash = row.payload_hash
  <2> SUFFICES ASSUME NEW row \in objects[id]
               PROVE  /\ row_to_object(id, row) \in ObjectRecord
                      /\ row_to_object(id, row).id = id
                      /\ row_to_object(id, row).current_revision = row.current_revision
                      /\ row_to_object(id, row).payload_hash = row.payload_hash
    OBVIOUS
  <2>1. row \in StoredRow
    BY DEF StoreInv, StoreTypes
  <2>2. parse_object_kind(row.kind) \in Kinds
    BY <2>1, StoreAssumption DEF parse_object_kind, StoredRow
  <2> QED
    BY <2>1, <2>2, StoreAssumption DEF row_to_object, StoredRow, ObjectRecord, Text
<1>3. \A c \in found : c \in ObjectRecord /\ c.id = id /\ Held(id, c.current_revision, c.payload_hash)
  <2> SUFFICES ASSUME NEW c \in found
               PROVE  c \in ObjectRecord /\ c.id = id
                      /\ Held(id, c.current_revision, c.payload_hash)
    OBVIOUS
  <2>1. PICK row \in objects[id] : c = row_to_object(id, row)
    OBVIOUS
  <2>2. Held(id, row.current_revision, row.payload_hash)
    BY CurrentHeld
  <2> QED
    BY <1>2, <2>1, <2>2
<1> HIDE DEF found
<1>4. StoreTypes'
  BY <1>1, <1>3 DEF StoreInv, StoreTypes
<1>5. KeysUnique' /\ EditsBuildOnLatest' /\ \A i \in Ids : ObjectSound(i)'
  BY <1>1 DEF StoreInv, KeysUnique, EditsBuildOnLatest, ObjectSound, RevisionsOf
<1>6. ASSUME NEW g \in Handles PROVE CopySound(g)' /\ TxSound(g)'
  <2>1. CopySound(g) /\ TxSound(g) /\ copy \in [Handles -> SUBSET ObjectRecord]
    BY DEF StoreInv, StoreTypes
  <2>2. copy'[g] = IF g = h THEN found ELSE copy[g]
    BY <1>1, <2>1
  <2>3. CopySound(g)'
    BY <1>1, <1>3, <2>1, <2>2 DEF CopySound, Held
  <2> QED
    BY <1>1, <2>1, <2>3 DEF TxSound, Held
<1> QED
  BY <1>4, <1>5, <1>6 DEF StoreInv

\* The transactions change and nothing is stored.
LEMMA TxKeeps ==
    ASSUME StoreInv, UNCHANGED <<objects, revisions, search>>,
           tx' \in [Handles -> SUBSET [object : ObjectRecord, stale : BOOLEAN, base : SUBSET Text]],
           copy' \in [Handles -> SUBSET ObjectRecord],
           \A h \in Handles : copy'[h] \subseteq copy[h],
           \A h \in Handles : \A t \in tx'[h] \ tx[h] :
               /\ t.object.id \in Ids
               /\ \A hash \in t.base : Held(t.object.id, t.object.current_revision - 1, hash)
               /\ \A row \in objects[t.object.id] :
                      t.object.current_revision = row.current_revision + 1
    PROVE  StoreInv'
<1>1. StoreTypes'
  BY DEF StoreInv, StoreTypes
<1>2. KeysUnique' /\ EditsBuildOnLatest' /\ \A i \in Ids : ObjectSound(i)'
  BY DEF StoreInv, KeysUnique, EditsBuildOnLatest, ObjectSound, RevisionsOf
<1>3. ASSUME NEW g \in Handles PROVE CopySound(g)' /\ TxSound(g)'
  <2>1. CopySound(g) /\ TxSound(g)
    BY DEF StoreInv
  <2>2. CopySound(g)'
    BY <2>1 DEF CopySound, Held
  <2>3. TxSound(g)'
    BY <2>1 DEF TxSound, Held
  <2> QED
    BY <2>2, <2>3
<1> QED
  BY <1>1, <1>2, <1>3 DEF StoreInv

\* The read of update_object: the record is the next revision of the row, and if it
\* edits a copy that copy showed the revision before.
LEMMA UpdateReadsKeeps ==
    ASSUME StoreInv, NEW h \in Handles, NEW object \in Edits(h), UpdateReads(h, object)
    PROVE  StoreInv'
<1>1. PICK c \in copy[h], e \in Changes, revision \in 0..MaxRevision :
          object = Edited(c, e, revision)
  BY DEF Edits
<1>2. c \in ObjectRecord /\ c.id \in Ids /\ e \in Edit
  BY StoreAssumption DEF StoreInv, StoreTypes, CopySound
<1>3. object \in ObjectRecord /\ object.id = c.id
  BY <1>1, <1>2 DEF Edited, ObjectRecord, Edit
<1>4. PICK row \in objects[object.id] :
          /\ object.current_revision = row.current_revision + 1
          /\ tx' = [tx EXCEPT ![h] = {[object |-> object, stale |-> FALSE, base |-> Base(h, object)]}]
  BY DEF UpdateReads, RevisionExpected, Revised
<1>5. objects[object.id] = {row}
  BY <1>2, <1>3, <1>4 DEF StoreInv, ObjectSound
<1>6. Base(h, object) \in SUBSET Text
  BY DEF Base, StoreInv, StoreTypes, ObjectRecord, Text
<1>7. \A hash \in Base(h, object) : Held(object.id, object.current_revision - 1, hash)
  <2> SUFFICES ASSUME NEW hash \in Base(h, object)
               PROVE  Held(object.id, object.current_revision - 1, hash)
    OBVIOUS
  <2>1. PICK d \in copy[h] : /\ hash = d.payload_hash /\ d.id = object.id
                             /\ d.current_revision + 1 = object.current_revision
    BY DEF Base
  <2>2. d.current_revision \in Int
    BY <2>1, StoreAssumption DEF StoreInv, StoreTypes, ObjectRecord
  <2>3. Held(d.id, d.current_revision, d.payload_hash)
    BY <2>1 DEF StoreInv, CopySound
  <2>4. d.current_revision = object.current_revision - 1
    BY <2>1, <2>2
  <2> QED
    BY <2>1, <2>3, <2>4
<1> DEFINE t == [object |-> object, stale |-> FALSE, base |-> Base(h, object)]
<1>8. t \in [object : ObjectRecord, stale : BOOLEAN, base : SUBSET Text]
      /\ t.object = object /\ t.base = Base(h, object)
  BY <1>3, <1>6
<1>9. tx' = [tx EXCEPT ![h] = {t}]
  BY <1>4
<1> HIDE DEF t
<1>10. tx' \in [Handles -> SUBSET [object : ObjectRecord, stale : BOOLEAN, base : SUBSET Text]]
  BY <1>8, <1>9 DEF StoreInv, StoreTypes
<1>11. \A g \in Handles : \A u \in tx'[g] \ tx[g] : u = t
  BY <1>9 DEF StoreInv, StoreTypes
<1>12. UNCHANGED <<objects, revisions, search, copy>>
  BY DEF UpdateReads
<1>13. copy' \in [Handles -> SUBSET ObjectRecord]
  BY <1>12 DEF StoreInv, StoreTypes
<1> QED
  BY <1>2, <1>3, <1>4, <1>5, <1>7, <1>8, <1>10, <1>11, <1>12, <1>13, TxKeeps

\* The writes of update_object, refused or committed.
LEMMA UpdateWritesKeeps ==
    ASSUME StoreInv, NEW h \in Handles, UpdateWrites(h)
    PROVE  StoreInv'
<1>0. PICK t \in tx[h] :
          \E row \in objects[t.object.id] :
              \/ /\ ~t.stale /\ RevisionFree(t.object.id, t.object.current_revision)
                 /\ Stored(t.object, UpdatedRow(t.object, row), t.base)
                 /\ tx' = [[g \in Handles |-> Overtaken(tx[g])] EXCEPT ![h] = {}]
                 /\ UNCHANGED copy
              \/ /\ tx' = [tx EXCEPT ![h] = {}]
                 /\ UNCHANGED <<objects, revisions, search, copy>>
  BY DEF UpdateWrites
<1>1. PICK row \in objects[t.object.id] :
          \/ /\ ~t.stale /\ RevisionFree(t.object.id, t.object.current_revision)
             /\ Stored(t.object, UpdatedRow(t.object, row), t.base)
             /\ tx' = [[g \in Handles |-> Overtaken(tx[g])] EXCEPT ![h] = {}]
             /\ UNCHANGED copy
          \/ /\ tx' = [tx EXCEPT ![h] = {}]
             /\ UNCHANGED <<objects, revisions, search, copy>>
  BY <1>0
<1>2. /\ t \in [object : ObjectRecord, stale : BOOLEAN, base : SUBSET Text]
      /\ t.object.id \in Ids
      /\ \A hash \in t.base : Held(t.object.id, t.object.current_revision - 1, hash)
      /\ ~t.stale => \A old \in objects[t.object.id] :
                         t.object.current_revision = old.current_revision + 1
  BY DEF StoreInv, StoreTypes, TxSound
<1>3. copy \in [Handles -> SUBSET ObjectRecord]
      /\ tx \in [Handles -> SUBSET [object : ObjectRecord, stale : BOOLEAN, base : SUBSET Text]]
  BY DEF StoreInv, StoreTypes
<1>4. CASE tx' = [tx EXCEPT ![h] = {}] /\ UNCHANGED <<objects, revisions, search, copy>>
  <2>1. tx' \in [Handles -> SUBSET [object : ObjectRecord, stale : BOOLEAN, base : SUBSET Text]]
        /\ \A g \in Handles : tx'[g] \subseteq tx[g]
    BY <1>3, <1>4
  <2> QED
    BY <1>3, <1>4, <2>1, TxKeeps
<1>5. CASE /\ ~t.stale /\ RevisionFree(t.object.id, t.object.current_revision)
           /\ Stored(t.object, UpdatedRow(t.object, row), t.base)
           /\ tx' = [[g \in Handles |-> Overtaken(tx[g])] EXCEPT ![h] = {}]
           /\ UNCHANGED copy
  <2>1. row \in StoredRow
    BY <1>2 DEF StoreInv, StoreTypes
  <2>2. row.kind \in [prefixes : Nat, kind : Kinds] /\ row.current_revision \in 1..MaxRevision
    BY <2>1 DEF StoredRow
  <2>3. t.object \in ObjectRecord /\ t.base \in SUBSET Text /\ t.object.current_revision # 0
    BY <1>2, <1>5, <2>2, StoreAssumption
  <2>4. /\ UpdatedRow(t.object, row) \in StoredRow
        /\ UpdatedRow(t.object, row).title = t.object.title
        /\ UpdatedRow(t.object, row).payload_ref = t.object.payload_ref
        /\ UpdatedRow(t.object, row).payload_hash = t.object.payload_hash
        /\ UpdatedRow(t.object, row).current_revision = t.object.current_revision
    BY <2>2, <2>3, RowGives DEF UpdatedRow, StoredRow
  <2>5. tx' \in [Handles -> SUBSET [object : ObjectRecord, stale : BOOLEAN, base : SUBSET Text]]
    BY <1>5, OvertakenType DEF StoreInv
  <2>6. \A g \in Handles : tx'[g] \subseteq Overtaken(tx[g])
    BY <1>5
  <2> QED
    BY <1>2, <1>5, <2>3, <2>4, <2>5, <2>6, CommitKeeps
<1> QED
  BY <1>1, <1>4, <1>5

\* StoreInv holds with any number of processes that insert, read, update and die.
LEMMA StoreInvariant == StoreSpec => []StoreInv
<1>1. StoreInv /\ [StoreNext]_storeVars => StoreInv'
  <2> SUFFICES ASSUME StoreInv, [StoreNext]_storeVars PROVE StoreInv'
    OBVIOUS
  <2>1. CASE StoreNext
    <3>1. ASSUME NEW h \in Handles, Crash(h) PROVE StoreInv'
      <4>1. copy \in [Handles -> SUBSET ObjectRecord]
            /\ tx \in [Handles -> SUBSET [object : ObjectRecord, stale : BOOLEAN, base : SUBSET Text]]
        BY DEF StoreInv, StoreTypes
      <4>2. /\ UNCHANGED <<objects, revisions, search>>
            /\ tx' \in [Handles -> SUBSET [object : ObjectRecord, stale : BOOLEAN, base : SUBSET Text]]
            /\ copy' \in [Handles -> SUBSET ObjectRecord]
            /\ \A g \in Handles : tx'[g] \subseteq tx[g] /\ copy'[g] \subseteq copy[g]
        BY <3>1, <4>1 DEF Crash
      <4> QED
        BY <4>2, TxKeeps
    <3> QED
      BY <2>1, <3>1, InsertKeeps, GetObjectKeeps, UpdateReadsKeeps, UpdateWritesKeeps DEF StoreNext
  <2>2. CASE UNCHANGED storeVars
    BY <2>2 DEF storeVars, StoreInv, StoreTypes, KeysUnique, EditsBuildOnLatest, ObjectSound,
                RevisionsOf, CopySound, TxSound, Held
  <2> QED
    BY <2>1, <2>2
<1> QED
  BY StoreStarts, <1>1, PTL DEF StoreSpec

\* SqliteStore: the revisions of an object are complete, each is there once, and the
\* current one holds what the row names.
THEOREM RevisionsComplete == StoreSpec => []HistoryComplete
<1>1. StoreInv => HistoryComplete
  <2> SUFFICES ASSUME StoreInv, NEW id \in Ids
               PROVE  LET own == {s \in revisions : s.object_id = id}
                      IN /\ objects[id] = {} => own = {}
                         /\ \A row \in objects[id] :
                                /\ \E first \in 1..row.current_revision :
                                       RevisionsOf(id) = first..row.current_revision
                                /\ Cardinality(own) = Cardinality(RevisionsOf(id))
                                /\ \A r \in own : r.revision = row.current_revision =>
                                       r.payload_ref = row.payload_ref
                                       /\ r.payload_hash = row.payload_hash
    BY DEF HistoryComplete
  <2> DEFINE own == {s \in revisions : s.object_id = id}
  <2>1. ObjectSound(id)
    BY DEF StoreInv
  <2>2. ASSUME NEW row \in objects[id] PROVE Cardinality(own) = Cardinality(RevisionsOf(id))
    <3>1. row.current_revision \in Nat \ {0}
      BY StoreAssumption DEF StoreInv, StoreTypes, StoredRow
    <3>2. PICK first \in 1..row.current_revision : RevisionsOf(id) = first..row.current_revision
      BY <2>1, <2>2 DEF ObjectSound
    <3>3. IsFiniteSet(RevisionsOf(id))
      <4>1. first \in Int /\ row.current_revision \in Int
        BY <3>1, <3>2
      <4>2. IsFiniteSet(first..row.current_revision)
        BY <4>1, FS_Interval
      <4> QED
        BY <3>2, <4>2
    <3> DEFINE number == [r \in own |-> r.revision]
    <3>4. number \in [own -> RevisionsOf(id)] /\ \A n \in RevisionsOf(id) : \E r \in own : number[r] = n
      BY DEF RevisionsOf
    <3>5. \A r, s \in own : number[r] = number[s] => r = s
      BY DEF StoreInv, KeysUnique
    <3> HIDE DEF number, own
    <3>6. number \in Bijection(own, RevisionsOf(id))
      BY <3>4, <3>5, Fun_IsBij
    <3>7. ExistsBijection(RevisionsOf(id), own)
      BY <3>6, Fun_ExistsBij, Fun_ExistsBijSymmetric
    <3> QED
      BY <3>3, <3>7, FS_Bijection
  <2> QED
    BY <2>1, <2>2 DEF ObjectSound
<1> QED
  BY StoreInvariant, <1>1, PTL

\* update_object: an edit numbered as the next revision of the copy it was made from
\* follows the revision that copy showed.
THEOREM EditsNotLost == StoreSpec => []EditsBuildOnLatest
<1>1. StoreInv => EditsBuildOnLatest
  BY DEF StoreInv
<1> QED
  BY StoreInvariant, <1>1, PTL

\* upsert_search: the index has every object once, under its current title.
THEOREM IndexComplete == StoreSpec => []IndexFollowsObjects
<1>1. StoreInv => IndexFollowsObjects
  <2> SUFFICES ASSUME StoreInv, NEW id \in Ids
               PROVE  {s.title : s \in search[id]} = {row.title : row \in objects[id]}
                      /\ Cardinality(search[id]) = Cardinality(objects[id])
    BY DEF IndexFollowsObjects
  <2>1. ObjectSound(id)
    BY DEF StoreInv
  <2>2. CASE objects[id] = {} /\ search[id] = {}
    BY <2>2
  <2>3. CASE \E row \in objects[id], s \in search[id] :
                 objects[id] = {row} /\ search[id] = {s} /\ s.title = row.title
    <3>1. PICK row \in objects[id], s \in search[id] :
              objects[id] = {row} /\ search[id] = {s} /\ s.title = row.title
      BY <2>3
    <3>2. Cardinality({row}) = 1 /\ Cardinality({s}) = 1
      BY FS_Singleton
    <3> QED
      BY <3>1, <3>2
  <2> QED
    BY <2>1, <2>2, <2>3 DEF ObjectSound
<1> QED
  BY StoreInvariant, <1>1, PTL
=================================================================================
