---------------------------------- MODULE Vault ----------------------------------
(* EncryptedVault (src/vault.rs): payloads under references, encrypted with the   *)
(* reference, object, revision and media type as associated data.  Each call is   *)
(* one SQL statement under the mutex.  Encryption and digests are constructors    *)
(* that determine what they were made from.                                       *)
EXTENDS Integers, Sequences

CONSTANTS PayloadRefs, \* payload references
          Objects,     \* object ids
          Revisions,   \* revisions
          MediaTypes,  \* media types
          Plaintexts,  \* payloads, the empty one included
          NoBytes,     \* the empty payload or id
          MaxPuts      \* bound on the calls of put

ASSUME VaultAssumption == MaxPuts \in Nat

VARIABLES records,  \* PayloadRefs -> {} or {the row}
          puts,     \* calls of put so far: each draws a fresh nonce
          last      \* history: PayloadRefs -> the requests stored, newest first, since the last delete

vaultVars == <<records, puts, last>>

Request == [object_id : Objects \cup {NoBytes}, revision : Revisions, media_type : MediaTypes,
            plaintext : Plaintexts \cup {NoBytes}]

aad(ref, object, revision, media) == <<ref, object, revision, media>>

encrypt(nonce, data, plaintext) == [nonce |-> nonce, aad |-> data, plaintext |-> plaintext]

\* Decryption succeeds with the nonce and the data that went into encryption.
authentic(ciphertext, nonce, data) == ciphertext.nonce = nonce /\ ciphertext.aad = data

NewRow(ref, q) ==
    LET data == aad(ref, q.object_id, q.revision, q.media_type)
    IN [object_id |-> q.object_id, revision |-> q.revision, storage_state |-> "committed",
        nonce |-> puts + 1, ciphertext |-> encrypt(puts + 1, data, q.plaintext),
        aad_hash |-> data, payload_hash |-> q.plaintext, media_type |-> q.media_type,
        deleted |-> FALSE]

\* Defect used as a mutant: a put on a reference in use changes nothing.
MutConflictIgnored(row, new) == row

\* ON CONFLICT DO UPDATE: object, revision, aad_hash and deleted_at stay.
OnConflict(row, new) ==
    [row EXCEPT !.ciphertext = new.ciphertext, !.nonce = new.nonce,
                !.payload_hash = new.payload_hash, !.media_type = new.media_type,
                !.storage_state = "committed"]

VaultInit ==
    /\ records = [ref \in PayloadRefs |-> {}]
    /\ puts = 0
    /\ last = [ref \in PayloadRefs |-> <<>>]

\* A request that names no reference gets one made from its object and revision;
\* ref is the one used in the end.
put(ref, q) ==
    /\ puts < MaxPuts
    /\ q.object_id # NoBytes /\ q.plaintext # NoBytes
    /\ puts' = puts + 1
    /\ records' = [records EXCEPT ![ref] =
                       IF @ = {} THEN {NewRow(ref, q)}
                       ELSE {OnConflict(row, NewRow(ref, q)) : row \in @}]
    /\ last' = [last EXCEPT ![ref] = <<q>> \o @]

delete(ref) ==
    /\ records' = [records EXCEPT ![ref] =
                       {[row EXCEPT !.storage_state = "deleting", !.deleted = TRUE] : row \in @}]
    /\ last' = [last EXCEPT ![ref] = <<>>]
    /\ UNCHANGED puts

\* The payloads get returns for a reference: one or, on any error, none.
get(ref) ==
    {[plaintext |-> row.ciphertext.plaintext, media_type |-> row.media_type] :
        row \in {r \in records[ref] :
                    LET data == aad(ref, r.object_id, r.revision, r.media_type)
                    IN /\ r.storage_state = "committed" /\ ~r.deleted
                       /\ data = r.aad_hash
                       /\ authentic(r.ciphertext, r.nonce, data)
                       /\ r.ciphertext.plaintext = r.payload_hash}}

VaultNext ==
    \E ref \in PayloadRefs : (\E q \in Request : put(ref, q)) \/ delete(ref)

VaultSpec == VaultInit /\ [][VaultNext]_vaultVars

---------------------------------------------------------------------------------
(* Properties                                                                    *)

\* What get returns is the payload and media type of the last put on the reference
\* and only if no delete came after it, whatever was stored there before.
LastPutOrNothing ==
    \A ref \in PayloadRefs : \A answer \in get(ref) :
        /\ last[ref] # <<>>
        /\ answer = [plaintext |-> last[ref][1].plaintext, media_type |-> last[ref][1].media_type]

=================================================================================
