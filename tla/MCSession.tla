------------------------------- MODULE MCSession -------------------------------
(* A session and a registry, each under every sequence of calls.  A        *)
(* behaviour is about one of them, chosen at the start: a session with     *)
(* two-byte PINs over NUL, a space and a digit, with every expected PIN    *)
(* and every guess from the empty one to one byte too many; or a registry  *)
(* of its own, whose ids wrap several times.  The loop of allocate_id is   *)
(* written out here beside the closed form the model uses.                 *)
EXTENDS SessionMachine, RegistryMachine

MCExpectedPins == [1..2 -> Bytes] \cup {<<49>>}

MCGuesses == UNION {[1..n -> Bytes] : n \in 0..3}

VARIABLE job

MCInit == job \in {"session", "registry"} /\ Init /\ RegistryInit

MCNext ==
    \/ job = "session" /\ Next /\ UNCHANGED <<job, registry_vars>>
    \/ job = "registry" /\ RegistryNext /\ UNCHANGED <<job, vars>>

MCSpec == MCInit /\ [][MCNext]_<<job, vars, registry_vars>>

-----------------------------------------------------------------------------
(* The body of the loop of allocate_id: probe from next, give up on        *)
(* reaching start again.                                                   *)
RECURSIVE Probe(_, _, _)
Probe(r, next, start) ==
    LET candidate == AtLeastOne(next)
        after     == SuccId(candidate)
    IN  CASE candidate \notin Live(r) -> [id |-> candidate, next_id |-> after]
          [] candidate \in Live(r) /\ after = start ->
                 [id |-> 0, next_id |-> after]
          [] OTHER -> Probe(r, after, start)

(* The allocator's loop ends, returns the first free id of the cyclic      *)
(* order from next_id, and reports exhaustion only when every id is        *)
(* active.                                                                 *)
AllocatorIsCyclicFirstFit ==
    AllocateId(registry) =
        Probe(registry, registry.next_id, AtLeastOne(registry.next_id))
=============================================================================
