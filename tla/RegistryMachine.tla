---------------------------- MODULE RegistryMachine ----------------------------
(***************************************************************************)
(* A stream registry under every sequence of method calls.  The owner of a *)
(* registry opens streams of its own, accepts ids its peer chose, closes   *)
(* single streams and clears the table; nothing in the type orders those   *)
(* calls, so the machine does not either.                                  *)
(***************************************************************************)
EXTENDS StreamRegistry

CONSTANT
    MaxRegistered   \* bound: how many streams a behaviour registers

ASSUME MaxRegisteredAssumption == MaxRegistered \in Nat

VARIABLES
    registry,
    issued,     \* history: ids registered since next_id last wrapped
    registered  \* history: how many streams were ever registered

registry_vars == <<registry, issued, registered>>

(* What the registration of an id adds to the history.  A round of the id  *)
(* space ends when next_id wraps: because id was the last one, or because  *)
(* the allocator had to pass the end to reach id.                          *)
IssuedAfter(r, s, id) ==
    CASE id = MaxId -> {}
      [] id # MaxId /\ s.next_id < r.next_id -> {id}
      [] OTHER -> issued \cup {id}

Registered(res) ==
    /\ registry' = res.reg
    /\ issued' = IF res.ok THEN IssuedAfter(registry, res.reg, res.id) ELSE issued
    /\ registered' = IF res.ok THEN registered + 1 ELSE registered

RegistryInit ==
    /\ registry = NewRegistry
    /\ issued = {}
    /\ registered = 0

Open(kind, path) ==
    /\ registered < MaxRegistered
    /\ Registered(RegOpen(registry, kind, path))

Accept(id, kind, path) ==
    /\ registered < MaxRegistered
    /\ Registered(RegAccept(registry, id, kind, path))

Close(id) ==
    /\ registry' = RegClose(registry, id).reg
    /\ UNCHANGED <<issued, registered>>

Clear ==
    /\ registry' = RegClear(registry)
    /\ UNCHANGED <<issued, registered>>

RegistryNext ==
    \/ \E kind \in Kinds, path \in Paths : Open(kind, path)
    \/ \E id \in U32, kind \in Kinds, path \in Paths : Accept(id, kind, path)
    \/ \E id \in U32 : Close(id)
    \/ Clear

RegistrySpec == RegistryInit /\ [][RegistryNext]_registry_vars

-----------------------------------------------------------------------------
RegistryTypeOK ==
    /\ registry \in Registry
    /\ issued \in SUBSET U32
    /\ registered \in 0..MaxRegistered

(* Stream 0 carries the session's control messages: whatever ids the peer  *)
(* assigns and however often next_id wraps, it is never an application     *)
(* stream, and allocation never starts from it.                            *)
ControlStreamReserved ==
    /\ 0 \notin Live(registry)
    /\ registry.next_id # 0

(* An id handed out or accepted in this round of the id space (and perhaps *)
(* closed since) is not what the next open returns, unless the allocator   *)
(* has to wrap: frames still in flight for a closed stream do not reach a  *)
(* new one.                                                                *)
FreshUntilWrap ==
    LET a == AllocateId(registry)
    IN  (Free(registry) # {} /\ a.id >= registry.next_id) => a.id \notin issued

(* The entry of an active stream is never replaced: no open and no accept  *)
(* takes an id that is in use, at whatever point of the id space.          *)
LiveEntryKept ==
    [][\A id \in Live(registry) \cap Live(registry)' :
           registry'.active[id] = registry.active[id]]_registry_vars

(* Every stream ever registered is either active or counted as closed, up  *)
(* to the saturation of the counter.                                       *)
EveryStreamAccounted ==
    registry.closed_count = Saturate(registered - Cardinality(Live(registry)))
=============================================================================
