-------------------------------- MODULE MCStorage --------------------------------
(* What the program keeps on disk: the two databases, the files it serves, and    *)
(* its registry and identity.  They share no state and no call of one reaches     *)
(* another, so a behaviour is about one of them, chosen at the start.             *)
EXTENDS ObjectStore, Vault, FileService, StateFiles, TLC

CONSTANTS o1, o2, p1, p2, h1, h2, t1, t2, kUnspecified, kNote, empty

VARIABLE job

MCNewRecords ==
    LET good == [id |-> o1, kind |-> kNote, title |-> t1, status |-> "unspecified",
                 payload_ref |-> p1, payload_hash |-> h1, current_revision |-> 1, missing |-> FALSE]
    IN {good, [good EXCEPT !.current_revision = 2], [good EXCEPT !.missing = TRUE],
        [good EXCEPT !.title = empty], [good EXCEPT !.current_revision = 0],
        [good EXCEPT !.id = o2], [good EXCEPT !.id = o2, !.payload_ref = p2]}

Change(title, status, ref, hash) ==
    [title |-> title, status |-> status, payload_ref |-> ref, payload_hash |-> hash]

MCChanges == {Change(t1, "active", p1, h2), Change(t2, "active", p2, h1),
              Change(t2, "deleted", p1, h1), Change(empty, "active", p1, h1)}

Init ==
    /\ job \in {"store", "vault", "service", "state"}
    /\ StoreInit /\ VaultInit /\ FileInit /\ StateInit
    /\ job # "service" => path = NoFile
    /\ job # "state" => what = "registry"

Next ==
    \/ job = "store" /\ StoreNext /\ UNCHANGED <<job, vaultVars, fileVars, stateVars>>
    \/ job = "vault" /\ VaultNext /\ UNCHANGED <<job, storeVars, fileVars, stateVars>>
    \/ job = "service" /\ FileNext /\ UNCHANGED <<job, storeVars, vaultVars, stateVars>>
    \/ job = "state" /\ StateNext /\ UNCHANGED <<job, storeVars, vaultVars, fileVars>>

Spec == Init /\ [][Next]_<<job, storeVars, vaultVars, fileVars, stateVars>>

Alike == Permutations(Handles) \cup Permutations(Ops) \cup Permutations(Procs)
=================================================================================
