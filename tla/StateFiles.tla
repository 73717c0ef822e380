------------------------------- MODULE StateFiles --------------------------------
(* The two files the command line keeps: the device registry, which processes     *)
(* load, change and save (DeviceRegistry, src/config/mod.rs), and the identity,   *)
(* which they load or create (src/main.rs, src/identity/key.rs).  A step is one   *)
(* call of the file system; a process may die, and the machine lose power,        *)
(* between any two.                                                               *)
EXTENDS Integers, FiniteSets

CONSTANTS Procs,    \* processes; each saves the device that bears its name
          Missing   \* the path has no file

VARIABLES what,      \* which of the two files this is
          file,      \* the file, or Missing
          draft,     \* Procs -> the temporary file, or Missing
          pc,        \* Procs -> the call that comes next
          held,      \* Procs -> the devices loaded, or the identity in use
          durable,   \* the file as the disk has it
          saved,     \* history: processes whose save returned
          removing,  \* history: processes that removed the file and have not renamed
          excuses    \* history: a save overtook another, was cut, or power was lost

stateVars == <<what, file, draft, pc, held, durable, saved, removing, excuses>>
history == <<saved, removing, excuses>>

\* A file holds all of data or only the first part; synced says that the disk has it.
File(data, whole, synced) == [data |-> data, whole |-> whole, synced |-> synced]

StateInit ==
    /\ what \in {"registry", "identity"}
    /\ file = Missing /\ durable = Missing
    /\ draft = [p \in Procs |-> Missing]
    /\ pc = [p \in Procs |-> "start"]
    /\ held = [p \in Procs |-> {}]
    /\ saved = {} /\ removing = {} /\ excuses = {}

Goes(p, from, to) == pc[p] = from /\ pc' = [pc EXCEPT ![p] = to]

\* The command fails.
Fails(p, from) == Goes(p, from, "failed")

WriteDraft(p, data, synced) == draft' = [draft EXCEPT ![p] = File(data, TRUE, synced)]

\* rename replaces the file in one step.
RenameDraft(p) ==
    /\ draft[p] # Missing
    /\ file' = draft[p]
    /\ draft' = [draft EXCEPT ![p] = Missing]

RemoveDraft(p) == draft' = [draft EXCEPT ![p] = Missing]

---------------------------------------------------------------------------------
(* DeviceRegistry: load, upsert, save                                            *)

\* load tests for the file, then reads it; another process may remove it between.
LoadTests(p) ==
    /\ Goes(p, "start", IF file = Missing THEN "write" ELSE "read")
    /\ held' = [held EXCEPT ![p] = {}]
    /\ UNCHANGED <<what, file, draft, durable, history>>

\* A file that lost its end may have lost all of it: empty contents are the default.
LoadReads(p) ==
    /\ \/ /\ file # Missing /\ file.whole
          /\ Goes(p, "read", "write")
          /\ held' = [held EXCEPT ![p] = file.data]
       \/ /\ file # Missing /\ ~file.whole
          /\ Goes(p, "read", "write")
          /\ held' = [held EXCEPT ![p] = {}]
       \/ /\ file # Missing => ~file.whole
          /\ Fails(p, "read") /\ UNCHANGED held
    /\ UNCHANGED <<what, file, draft, durable, history>>

upsert(devices, p) == devices \cup {p}

\* Defect used as a mutant: the temporary file is renamed before it has its contents.
MutSaveUnwritten(p) ==
    /\ Goes(p, "write", "test")
    /\ draft' = [draft EXCEPT ![p] = File(upsert(held[p], p), FALSE, FALSE)]
    /\ UNCHANGED <<what, file, held, durable, history>>

\* fs::write creates the temporary file, then writes it, and never syncs it.
SaveCreates(p) ==
    /\ Goes(p, "write", "fill")
    /\ draft' = [draft EXCEPT ![p] = File(upsert(held[p], p), FALSE, FALSE)]
    /\ UNCHANGED <<what, file, held, durable, history>>

SaveWrites(p) ==
    /\ Goes(p, "fill", "test")
    /\ WriteDraft(p, upsert(held[p], p), FALSE)
    /\ UNCHANGED <<what, file, held, durable, history>>

SaveTests(p) ==
    /\ Goes(p, "test", IF file = Missing THEN "rename" ELSE "remove")
    /\ UNCHANGED <<what, file, draft, held, durable, history>>

\* The old file goes first.  If it is already gone the save fails here.
SaveRemoves(p) ==
    /\ IF file = Missing THEN Fails(p, "remove") /\ UNCHANGED <<file, removing, excuses>>
       ELSE /\ Goes(p, "remove", "rename")
            /\ file' = Missing
            /\ removing' = removing \cup {p}
            /\ excuses' = excuses \cup (IF file.data = held[p] THEN {} ELSE {"race"})
    /\ UNCHANGED <<what, draft, held, durable, saved>>

SaveRenames(p) ==
    /\ Goes(p, "rename", "done")
    /\ RenameDraft(p)
    /\ saved' = saved \cup {p}
    /\ removing' = removing \ {p}
    /\ excuses' = excuses \cup (IF file = Missing /\ removing \subseteq {p} THEN {} ELSE {"race"})
    /\ UNCHANGED <<what, held, durable>>

Cut(procs) == IF procs \cap removing = {} THEN {} ELSE {"cut"}

SaveRenameFails(p) ==
    /\ Fails(p, "rename")
    /\ RemoveDraft(p)
    /\ excuses' = excuses \cup Cut({p})
    /\ UNCHANGED <<what, file, held, durable, saved, removing>>

RegistryStep(p) ==
    \/ LoadTests(p) \/ LoadReads(p) \/ SaveCreates(p) \/ SaveWrites(p) \/ SaveTests(p)
    \/ SaveRemoves(p) \/ SaveRenames(p) \/ SaveRenameFails(p)

---------------------------------------------------------------------------------
(* load_or_create_identity                                                       *)

IdentityTests(p) ==
    /\ Goes(p, "start", IF file = Missing THEN "create" ELSE "load")
    /\ UNCHANGED <<what, file, draft, held, durable, history>>

\* Identity::load refuses a file that does not decode or validate.
IdentityLoads(p) ==
    /\ IF file # Missing /\ file.whole
       THEN Goes(p, "load", "done") /\ held' = [held EXCEPT ![p] = file.data]
       ELSE Fails(p, "load") /\ UNCHANGED held
    /\ UNCHANGED <<what, file, draft, durable, history>>

\* write_atomic: a new temporary file, its contents, sync_all, rename.
IdentityCreates(p) ==
    /\ Goes(p, "create", "contents")
    /\ draft' = [draft EXCEPT ![p] = File({p}, FALSE, FALSE)]
    /\ UNCHANGED <<what, file, held, durable, history>>

IdentityWrites(p) ==
    /\ Goes(p, "contents", "sync")
    /\ WriteDraft(p, {p}, FALSE)
    /\ UNCHANGED <<what, file, held, durable, history>>

\* Defect used as a mutant: sync_all is left out.
MutIdentityUnsynced(p) ==
    /\ Goes(p, "sync", "replace")
    /\ UNCHANGED <<what, file, draft, held, durable, history>>

IdentitySyncs(p) ==
    /\ Goes(p, "sync", "replace")
    /\ WriteDraft(p, {p}, TRUE)
    /\ UNCHANGED <<what, file, held, durable, history>>

IdentityReplaces(p) ==
    /\ Goes(p, "replace", "done")
    /\ RenameDraft(p)
    /\ held' = [held EXCEPT ![p] = {p}]
    /\ saved' = saved \cup {p}
    /\ UNCHANGED <<what, durable, removing, excuses>>

\* Any of the four calls fails: the temporary file is removed.
IdentityFails(p) ==
    /\ \E from \in {"create", "contents", "sync", "replace"} : Fails(p, from)
    /\ RemoveDraft(p)
    /\ UNCHANGED <<what, file, held, durable, history>>

IdentityStep(p) ==
    \/ IdentityTests(p) \/ IdentityLoads(p) \/ IdentityCreates(p) \/ IdentityWrites(p)
    \/ IdentitySyncs(p) \/ IdentityReplaces(p) \/ IdentityFails(p)

---------------------------------------------------------------------------------
(* Crashes                                                                       *)

\* The process is killed, or the command is run again.
Restart(p) ==
    /\ pc[p] # "start"
    /\ pc' = [pc EXCEPT ![p] = "start"]
    /\ held' = [held EXCEPT ![p] = {}]
    /\ excuses' = excuses \cup Cut({p})
    /\ UNCHANGED <<what, file, draft, durable, saved, removing>>

\* The disk catches up with the directory; the data of a file follows its own sync.
DirectoryFlushed ==
    /\ durable' = file
    /\ UNCHANGED <<what, file, draft, pc, held, history>>

\* What is left of a file that the disk may not have had in full.
Survivors(f) == IF f = Missing \/ f.synced THEN {f} ELSE {f, [f EXCEPT !.whole = FALSE]}

\* The power fails: the directory may be the last flushed one, and a file that was
\* not synced may have lost its end.
PowerLoss ==
    /\ \E f \in Survivors(file) \cup Survivors(durable) :
           file' = f /\ durable' = f
    /\ draft' = [p \in Procs |-> Missing]
    /\ pc' = [p \in Procs |-> "start"]
    /\ held' = [p \in Procs |-> {}]
    /\ excuses' = excuses \cup {"power"}
    /\ UNCHANGED <<what, saved, removing>>

StateNext ==
    \/ what = "registry" /\ \E p \in Procs : RegistryStep(p)
    \/ what = "identity" /\ \E p \in Procs : IdentityStep(p)
    \/ DirectoryFlushed \/ PowerLoss
    \/ \E p \in Procs : Restart(p)

StateSpec == StateInit /\ [][StateNext]_stateVars

---------------------------------------------------------------------------------
(* Properties                                                                    *)

\* The identity file is whole whenever it is there, through crashes of any process
\* and loss of power at any moment, and while several processes create it at once.
IdentityWhole == what = "identity" /\ file # Missing => file.whole

\* The registry is whole whenever it is there: while processes load and save it
\* together and wherever one dies.  save never syncs, so a loss of power is excepted.
RegistryWhole ==
    what = "registry" /\ "power" \notin excuses /\ file # Missing => file.whole

\* What CONTEXT.md says of save, "Atomic write via temp+rename": once a save has
\* returned there is at every moment a whole registry, the one before a save or the
\* one after it.  The code does not keep it: save removes the old file first.
SaveIsAtomic ==
    what = "registry" /\ "power" \notin excuses /\ saved # {} => file # Missing /\ file.whole
=================================================================================
