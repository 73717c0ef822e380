---------------------------- MODULE StreamRegistry ----------------------------
(***************************************************************************)
(* The stream table of a session (src/stream/mod.rs, struct StreamRegistry):*)
(* the counter the next stream id is taken from, the entry of every active *)
(* stream and the number of streams closed so far.                         *)
(*                                                                         *)
(* A registry is a value, and each method of the struct is an operator     *)
(* from a registry (and the arguments of the call) to a record             *)
(*     [ok, id, reg]                                                       *)
(* with the verdict of the call, the stream it returned (0 if none) and    *)
(* the registry it leaves.  The session owns its registry through &mut, so *)
(* a method runs to its end before anything else touches the registry.     *)
(***************************************************************************)
EXTENDS Integers, FiniteSets

CONSTANTS
    MaxId,      \* u32::MAX, the largest stream id
    MaxClosed,  \* u64::MAX, where closed_count saturates
    Kinds,      \* StreamKind
    Paths       \* connect_path arguments, the blank one included

ASSUME RegistryConstants ==
    /\ MaxId \in Nat \ {0}
    /\ MaxClosed \in Nat

U32 == 0..MaxId

(* A connect_path that trims to the empty string; both constructors of a   *)
(* stream refuse it.                                                       *)
Blank == ""

(* The value of active[id] for an id that is not a key of the map.         *)
Absent == [kind |-> "none", path |-> Blank]

Entry == [kind : Kinds, path : Paths \ {Blank}]

Registry == [next_id : U32, active : [U32 -> Entry \cup {Absent}],
             closed_count : 0..MaxClosed]

Live(r) == {id \in U32 : r.active[id] # Absent}

(* What every method preserves: the control stream is never in the table   *)
(* and never the start of an allocation.                                   *)
WellFormed(r) == r \in Registry /\ 0 \notin Live(r) /\ r.next_id # 0

(* The ids allocate_id may return: every free one but the control stream.  *)
Free(r) == (1..MaxId) \ Live(r)

-----------------------------------------------------------------------------
NewRegistry ==
    [next_id |-> 1, active |-> [id \in U32 |-> Absent], closed_count |-> 0]

(* u32::max(1) *)
AtLeastOne(i) == IF i < 1 THEN 1 ELSE i

(* i.wrapping_add(1).max(1) *)
SuccId(i) == AtLeastOne(IF i = MaxId THEN 0 ELSE i + 1)

Least(S) == CHOOSE m \in S : \A n \in S : m <= n

(***************************************************************************)
(* allocate_id probes next_id, next_id + 1, ... around the id space, and   *)
(* stops at the first id that is not active or back where it started.  Its *)
(* outcome is the first free id at or after next_id, or failing that the   *)
(* first free one, with next_id left just behind it.                       *)
(***************************************************************************)
\* Defect used as a mutant: the probe starts one id too late.
MutAllocateIdSkips(r) ==
    LET start == AtLeastOne(r.next_id)
        ahead == {id \in Free(r) : id > start}
        id    == Least(IF ahead # {} THEN ahead ELSE Free(r))
    IN  IF Free(r) = {} THEN [id |-> 0, next_id |-> start]
                        ELSE [id |-> id, next_id |-> SuccId(id)]

AllocateId(r) ==
    LET start == AtLeastOne(r.next_id)
        ahead == {id \in Free(r) : id >= start}
        id    == Least(IF ahead # {} THEN ahead ELSE Free(r))
    IN  IF Free(r) = {} THEN [id |-> 0, next_id |-> start]
                        ELSE [id |-> id, next_id |-> SuccId(id)]

Insert(r, id, kind, path) ==
    [r EXCEPT !.active[id] = [kind |-> kind, path |-> path]]

Refused(r) == [ok |-> FALSE, id |-> 0, reg |-> r]

(* StreamRegistry::open *)
RegOpen(r, kind, path) ==
    LET a == AllocateId(r)
        s == [r EXCEPT !.next_id = a.next_id]
    IN  CASE path = Blank  -> Refused(r)
          [] path # Blank /\ Free(r) = {} -> Refused(s)
          [] OTHER -> [ok |-> TRUE, id |-> a.id,
                       reg |-> Insert(s, a.id, kind, path)]

(* Defect used as a mutant: a peer-assigned id does not move next_id.      *)
MutRegAcceptStaysBehind(r, id, kind, path) ==
    IF id = 0 \/ path = Blank \/ id \in Live(r)
    THEN Refused(r)
    ELSE [ok |-> TRUE, id |-> id, reg |-> Insert(r, id, kind, path)]

(* StreamRegistry::accept: the peer chose the id.                          *)
RegAccept(r, id, kind, path) ==
    IF id = 0 \/ path = Blank \/ id \in Live(r)
    THEN Refused(r)
    ELSE [ok |-> TRUE, id |-> id,
          reg |-> Insert([r EXCEPT !.next_id = IF id >= @ THEN SuccId(id) ELSE @],
                         id, kind, path)]

(* saturating_add on closed_count *)
Saturate(n) == IF n > MaxClosed THEN MaxClosed ELSE n

(* StreamRegistry::close *)
RegClose(r, id) ==
    IF id \notin Live(r)
    THEN Refused(r)
    ELSE [ok |-> TRUE, id |-> id,
          reg |-> [r EXCEPT !.active[id] = Absent,
                            !.closed_count = Saturate(@ + 1)]]

(* StreamRegistry::clear *)
RegClear(r) ==
    [r EXCEPT !.active = [id \in U32 |-> Absent],
              !.closed_count = Saturate(@ + Cardinality(Live(r)))]
=============================================================================
