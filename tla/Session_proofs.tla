---------------------------- MODULE Session_proofs ----------------------------
(***************************************************************************)
(* What the methods of a stream registry preserve, for every size of the   *)
(* id space and every saturation bound: lemmas that the modules which hold *)
(* a registry cite instead of unfolding the methods.  Then the invariants  *)
(* of the registry under every sequence of calls, and what the methods of  *)
(* a session preserve.                                                     *)
(***************************************************************************)
EXTENDS Session, RegistryMachine, FiniteSetTheorems, WellFoundedInduction, TLAPS

(* A non-empty set of naturals has a least element, so the choice in the   *)
(* allocator (the first free id) is the one it means.                      *)
LEMMA LeastOfNaturals ==
    ASSUME NEW T \in SUBSET Nat, T # {}
    PROVE  Least(T) \in T /\ \A n \in T : Least(T) <= n
<1> DEFINE Lt == {ss \in Nat \X Nat : ss[1] < ss[2]}
<1>1. IsWellFoundedOn(Lt, Nat)
  BY NatLessThanWellFounded, Zenon DEF OpToRel
<1> HIDE DEF Lt
<1>2. \E m \in T : \A n \in T : <<n, m>> \notin Lt
  BY <1>1, WFMin, Zenon
<1>3. \A m \in Nat, n \in Nat : <<n, m>> \notin Lt => m <= n
  BY DEF Lt
<1>4. \E m \in T : \A n \in T : m <= n
  BY <1>2, <1>3
<1> QED
  BY <1>4 DEF Least

(* The table never holds more ids than there are, so its size is a natural *)
(* number (closed_count's arithmetic in clear rests on it).                *)
LEMMA LiveIsFinite ==
    ASSUME NEW r \in Registry
    PROVE  IsFiniteSet(Live(r)) /\ Cardinality(Live(r)) \in Nat
<1>1. IsFiniteSet(U32)
  BY RegistryConstants, FS_Interval DEF U32
<1>2. Live(r) \subseteq U32
  BY DEF Live
<1> QED
  BY <1>1, <1>2, FS_Subset, FS_CardinalityType

(* next_id's successor is a stream id: it wraps to 1, never to 0.          *)
LEMMA SuccIdType ==
    ASSUME NEW i \in U32
    PROVE  SuccId(i) \in 1..MaxId /\ (i # MaxId => SuccId(i) = i + 1)
  BY RegistryConstants DEF SuccId, AtLeastOne, U32

(* What allocate_id returns: an id that is free and not the control        *)
(* stream's, at or after next_id whenever one of those is free.            *)
LEMMA AllocateIdFree ==
    ASSUME NEW r \in Registry, Free(r) # {}
    PROVE  /\ AllocateId(r).id \in Free(r)
           /\ AllocateId(r).next_id = SuccId(AllocateId(r).id)
           /\ \/ AllocateId(r).id >= r.next_id
              \/ \A j \in Free(r) : j < r.next_id
<1> DEFINE start == AtLeastOne(r.next_id)
           ahead == {id \in Free(r) : id >= start}
           pool  == IF ahead # {} THEN ahead ELSE Free(r)
<1>1. start \in Nat /\ start >= r.next_id /\ r.next_id \in Nat /\ (start = r.next_id \/ start = 1)
  BY RegistryConstants DEF AtLeastOne, Registry, U32
<1>2. Free(r) \subseteq 1..MaxId
  BY DEF Free
<1>3. pool \in SUBSET Nat /\ pool # {} /\ pool \subseteq Free(r)
  BY <1>2
<1>4. Least(pool) \in pool
  BY <1>3, LeastOfNaturals
<1>5. AllocateId(r) = [id |-> Least(pool), next_id |-> SuccId(Least(pool))]
  BY DEF AllocateId
<1>6. CASE ahead # {}
  <2>1. Least(pool) >= start
    BY <1>4, <1>6
  <2> QED
    BY <1>1, <1>2, <1>3, <1>4, <1>5, <2>1
<1>7. CASE ahead = {}
  <2>1. \A j \in Free(r) : ~ (j >= start)
    BY <1>7
  <2>2. \A j \in Free(r) : j < r.next_id
    BY <1>1, <1>2, <2>1
  <2> QED
    BY <1>3, <1>4, <1>5, <2>2
<1> QED
  BY <1>6, <1>7
(* Inserting an entry adds its id to the table and touches nothing else.   *)
LEMMA InsertAdds ==
    ASSUME NEW r \in Registry, NEW id \in U32, NEW kind \in Kinds,
           NEW path \in Paths \ {Blank}
    PROVE  /\ Insert(r, id, kind, path) \in Registry
           /\ Live(Insert(r, id, kind, path)) = Live(r) \cup {id}
           /\ Insert(r, id, kind, path).next_id = r.next_id
           /\ Insert(r, id, kind, path).closed_count = r.closed_count
           /\ \A j \in U32 \ {id} :
                  Insert(r, id, kind, path).active[j] = r.active[j]
<1> DEFINE e == [kind |-> kind, path |-> path]
           s == Insert(r, id, kind, path)
<1>1. e \in Entry /\ e # Absent
  BY DEF Entry, Absent, Blank
<1>2. s = [r EXCEPT !.active = [r.active EXCEPT ![id] = e]]
  BY DEF Insert
<1>3. s \in Registry
  BY <1>1, <1>2 DEF Registry
<1>4. \A j \in U32 : s.active[j] = IF j = id THEN e ELSE r.active[j]
  BY <1>2 DEF Registry
<1> QED
  BY <1>1, <1>2, <1>3, <1>4 DEF Live, Registry

(* StreamRegistry::open keeps a registry well formed.  It registers an id  *)
(* that was free and leaves the entries of the other streams alone.        *)
LEMMA OpenKeeps ==
    ASSUME NEW r, WellFormed(r), NEW kind \in Kinds, NEW path \in Paths,
           NEW res, res = RegOpen(r, kind, path)
    PROVE  /\ WellFormed(res.reg)
           /\ res.reg.closed_count = r.closed_count
           /\ res.ok => /\ res.id \in Free(r)
                        /\ Live(res.reg) = Live(r) \cup {res.id}
                        /\ res.reg.next_id = SuccId(res.id)
                        /\ \/ res.id >= r.next_id
                           \/ \A j \in Free(r) : j < r.next_id
                        /\ \A j \in U32 \ {res.id} :
                               res.reg.active[j] = r.active[j]
           /\ ~ res.ok => res.reg = r
           /\ res.ok \in BOOLEAN
<1> DEFINE a == AllocateId(r)
           s == [r EXCEPT !.next_id = a.next_id]
<1> r \in Registry /\ 0 \notin Live(r) /\ r.next_id # 0
  BY DEF WellFormed
<1>1. CASE path = Blank
  BY <1>1 DEF RegOpen, Refused, WellFormed
<1>2. CASE path # Blank /\ Free(r) = {}
  <2>1. a.next_id = r.next_id
    BY <1>2, RegistryConstants DEF AllocateId, AtLeastOne, Registry, U32
  <2>2. s = r
    BY <2>1 DEF Registry
  <2>3. res = Refused(s)
    BY <1>2 DEF RegOpen
  <2> QED
    BY <2>2, <2>3 DEF Refused, WellFormed
<1>3. CASE path # Blank /\ Free(r) # {}
  <2>1. /\ a.id \in Free(r)
        /\ a.next_id = SuccId(a.id)
        /\ a.id >= r.next_id \/ \A j \in Free(r) : j < r.next_id
    BY <1>3, AllocateIdFree
  <2>2. a.id \in U32 /\ a.id # 0
    BY <2>1, RegistryConstants DEF Free, U32
  <2>3. a.next_id \in 1..MaxId
    BY <2>1, <2>2, SuccIdType
  <2>4. s \in Registry /\ Live(s) = Live(r) /\ s.next_id # 0 /\ s.active = r.active
        /\ s.closed_count = r.closed_count /\ s.next_id = a.next_id
    BY <2>3, RegistryConstants DEF Registry, Live, U32
  <2>5. res = [ok |-> TRUE, id |-> a.id, reg |-> Insert(s, a.id, kind, path)]
    BY <1>3 DEF RegOpen
  <2> HIDE DEF s, a
  <2>6. /\ Insert(s, a.id, kind, path) \in Registry
        /\ Live(Insert(s, a.id, kind, path)) = Live(s) \cup {a.id}
        /\ Insert(s, a.id, kind, path).next_id = s.next_id
        /\ Insert(s, a.id, kind, path).closed_count = s.closed_count
        /\ \A j \in U32 \ {a.id} :
              Insert(s, a.id, kind, path).active[j] = s.active[j]
    BY <1>3, <2>2, <2>4, InsertAdds
  <2> QED
    BY <2>1, <2>2, <2>4, <2>5, <2>6 DEF WellFormed
<1> QED
  BY <1>1, <1>2, <1>3

(* StreamRegistry::accept keeps a registry well formed.  It registers the  *)
(* peer's id only if that is free, and leaves next_id ahead of it unless   *)
(* it was the last id.                                                     *)
LEMMA AcceptKeeps ==
    ASSUME NEW r, WellFormed(r), NEW id \in U32, NEW kind \in Kinds,
           NEW path \in Paths, NEW res, res = RegAccept(r, id, kind, path)
    PROVE  /\ WellFormed(res.reg)
           /\ res.reg.closed_count = r.closed_count
           /\ res.ok => /\ res.id = id /\ id \in Free(r)
                        /\ Live(res.reg) = Live(r) \cup {id}
                        /\ res.reg.next_id = (IF id >= r.next_id
                                              THEN SuccId(id) ELSE r.next_id)
                        /\ \A j \in U32 \ {id} :
                               res.reg.active[j] = r.active[j]
           /\ ~ res.ok => res.reg = r
           /\ res.ok \in BOOLEAN
<1> DEFINE s == [r EXCEPT !.next_id = IF id >= @ THEN SuccId(id) ELSE @]
<1> r \in Registry /\ 0 \notin Live(r) /\ r.next_id # 0
  BY DEF WellFormed
<1>1. CASE id = 0 \/ path = Blank \/ id \in Live(r)
  BY <1>1 DEF RegAccept, Refused, WellFormed
<1>2. CASE ~ (id = 0 \/ path = Blank \/ id \in Live(r))
  <2>1. SuccId(id) \in 1..MaxId
    BY SuccIdType
  <2>2. s \in Registry /\ Live(s) = Live(r) /\ s.next_id # 0 /\ s.active = r.active
        /\ s.closed_count = r.closed_count
        /\ s.next_id = (IF id >= r.next_id THEN SuccId(id) ELSE r.next_id)
    BY <2>1, RegistryConstants DEF Registry, Live, U32
  <2>3. res = [ok |-> TRUE, id |-> id, reg |-> Insert(s, id, kind, path)]
    BY <1>2 DEF RegAccept
  <2> HIDE DEF s
  <2>4. /\ Insert(s, id, kind, path) \in Registry
        /\ Live(Insert(s, id, kind, path)) = Live(s) \cup {id}
        /\ Insert(s, id, kind, path).next_id = s.next_id
        /\ Insert(s, id, kind, path).closed_count = s.closed_count
        /\ \A j \in U32 \ {id} :
              Insert(s, id, kind, path).active[j] = s.active[j]
    BY <1>2, <2>2, InsertAdds
  <2>5. id \in Free(r)
    BY <1>2, RegistryConstants DEF Free, U32
  <2> QED
    BY <1>2, <2>2, <2>3, <2>4, <2>5 DEF WellFormed
<1> QED
  BY <1>1, <1>2

(* Counting one or several more closed streams stays within the counter.   *)
LEMMA SaturateType ==
    ASSUME NEW n \in Nat PROVE Saturate(n) \in 0..MaxClosed
  BY RegistryConstants DEF Saturate

(* StreamRegistry::close keeps a registry well formed, removes exactly the *)
(* stream it is given and counts it.                                       *)
LEMMA CloseKeeps ==
    ASSUME NEW r, WellFormed(r), NEW id \in U32, NEW res, res = RegClose(r, id)
    PROVE  /\ WellFormed(res.reg)
           /\ res.reg.next_id = r.next_id
           /\ res.ok <=> id \in Live(r)
           /\ res.ok => /\ Live(res.reg) = Live(r) \ {id}
                        /\ res.reg.closed_count = Saturate(r.closed_count + 1)
           /\ \A j \in U32 \ {id} : res.reg.active[j] = r.active[j]
           /\ ~ res.ok => res.reg = r
<1> r \in Registry /\ 0 \notin Live(r) /\ r.next_id # 0
  BY DEF WellFormed
<1>1. CASE id \notin Live(r)
  BY <1>1 DEF RegClose, Refused, WellFormed
<1>2. CASE id \in Live(r)
  <2> DEFINE s == [r EXCEPT !.active[id] = Absent,
                            !.closed_count = Saturate(@ + 1)]
  <2>1. res = [ok |-> TRUE, id |-> id, reg |-> s]
    BY <1>2 DEF RegClose
  <2>2. Saturate(r.closed_count + 1) \in 0..MaxClosed
    BY RegistryConstants, SaturateType DEF Registry
  <2>3. /\ s \in Registry
        /\ s.next_id = r.next_id
        /\ s.closed_count = Saturate(r.closed_count + 1)
        /\ \A j \in U32 : s.active[j] = IF j = id THEN Absent ELSE r.active[j]
    BY <2>2 DEF Registry
  <2> HIDE DEF s
  <2>4. Live(s) = Live(r) \ {id}
    BY <2>3 DEF Live
  <2> QED
    BY <1>2, <2>1, <2>3, <2>4 DEF WellFormed
<1> QED
  BY <1>1, <1>2

(* StreamRegistry::clear leaves an empty, well-formed table and counts all *)
(* it dropped.                                                             *)
LEMMA ClearKeeps ==
    ASSUME NEW r, WellFormed(r)
    PROVE  /\ WellFormed(RegClear(r))
           /\ Live(RegClear(r)) = {}
           /\ RegClear(r).next_id = r.next_id
           /\ RegClear(r).closed_count =
                  Saturate(r.closed_count + Cardinality(Live(r)))
<1> r \in Registry /\ 0 \notin Live(r) /\ r.next_id # 0
  BY DEF WellFormed
<1>1. Saturate(r.closed_count + Cardinality(Live(r))) \in 0..MaxClosed
  BY RegistryConstants, SaturateType, LiveIsFinite DEF Registry
<1>2. /\ RegClear(r) \in Registry
      /\ RegClear(r).active = [id \in U32 |-> Absent]
      /\ RegClear(r).next_id = r.next_id
      /\ RegClear(r).closed_count = Saturate(r.closed_count + Cardinality(Live(r)))
  BY <1>1 DEF RegClear, Registry
<1>3. Live(RegClear(r)) = {}
  BY <1>2 DEF Live
<1> QED
  BY <1>2, <1>3 DEF WellFormed

(* A new registry is well formed and empty.                                *)
LEMMA NewRegistryKeeps == WellFormed(NewRegistry) /\ Live(NewRegistry) = {}
  BY RegistryConstants DEF WellFormed, NewRegistry, Registry, Live, U32

-----------------------------------------------------------------------------

(* Everything registered in this round of the id space lies behind         *)
(* next_id.  FreshUntilWrap follows from it and is not inductive by        *)
(* itself: it says nothing of the ids beyond the next free one.            *)
IssuedBehind == \A id \in issued : id < registry.next_id

(* The accounting is inductive only with the fact that no more streams are *)
(* active than were registered.                                            *)
Accounted ==
    /\ Cardinality(Live(registry)) <= registered
    /\ EveryStreamAccounted

RegistryInv == RegistryTypeOK /\ WellFormed(registry) /\ IssuedBehind /\ Accounted

(* Registering a free id adds one stream to the table, and closing an      *)
(* active one removes one.                                                 *)
LEMMA LiveCount ==
    ASSUME NEW r \in Registry, NEW s \in Registry, NEW id
    PROVE  /\ id \in Free(r) /\ Live(s) = Live(r) \cup {id}
                => Cardinality(Live(s)) = Cardinality(Live(r)) + 1
           /\ id \in Live(r) /\ Live(s) = Live(r) \ {id}
                => /\ Cardinality(Live(s)) = Cardinality(Live(r)) - 1
                   /\ Cardinality(Live(r)) > 0
<1>1. IsFiniteSet(Live(r)) /\ Cardinality(Live(r)) \in Nat
  BY LiveIsFinite
<1>2. ASSUME id \in Free(r) PROVE id \notin Live(r)
  BY <1>2 DEF Free
<1>3. ASSUME id \in Live(r) PROVE Cardinality(Live(r)) > 0
  BY <1>1, <1>3, FS_EmptySet
<1> QED
  BY <1>1, <1>2, <1>3, FS_AddElement, FS_RemoveElement

(* A successful registration, by either method, preserves the history part *)
(* of the invariant.                                                       *)
LEMMA RegisteredKeeps ==
    ASSUME RegistryInv, registered < MaxRegistered,
           NEW res, Registered(res), res.ok \in BOOLEAN,
           WellFormed(res.reg), res.reg.closed_count = registry.closed_count,
           ~ res.ok => res.reg = registry,
           res.ok => /\ res.id \in Free(registry)
                     /\ Live(res.reg) = Live(registry) \cup {res.id}
                     /\ \/ /\ res.id >= registry.next_id
                           /\ res.reg.next_id = SuccId(res.id)
                        \/ /\ res.id < registry.next_id
                           /\ res.reg.next_id \in {registry.next_id, SuccId(res.id)}
    PROVE  RegistryInv'
<1> USE DEF RegistryInv
<1>1. CASE ~ res.ok
  BY <1>1, MaxRegisteredAssumption DEF Registered, RegistryTypeOK, IssuedBehind,
     Accounted, EveryStreamAccounted
<1>2. CASE res.ok
  <2> DEFINE id == res.id
  <2>1. /\ registry' = res.reg
        /\ issued' = IssuedAfter(registry, res.reg, id)
        /\ registered' = registered + 1
    BY <1>2 DEF Registered
  <2>2. /\ id \in 1..MaxId /\ id \in U32
        /\ registry.next_id \in 1..MaxId
        /\ res.reg.next_id \in 1..MaxId
    BY <1>2, RegistryConstants DEF Free, WellFormed, Registry, U32
  <2>3. SuccId(id) \in 1..MaxId /\ (id # MaxId => SuccId(id) = id + 1)
    BY <2>2, SuccIdType
  <2>4. RegistryTypeOK'
    <3>1. issued' \in SUBSET U32
      BY <2>1, <2>2 DEF IssuedAfter, RegistryTypeOK
    <3> QED
      BY <2>1, <3>1, MaxRegisteredAssumption DEF RegistryTypeOK, WellFormed
  <2>5. IssuedBehind'
    <3>1. CASE id = MaxId
      BY <2>1, <3>1 DEF IssuedAfter, IssuedBehind
    <3>2. CASE id # MaxId /\ res.reg.next_id < registry.next_id
      <4>1. res.reg.next_id = id + 1
        BY <1>2, <2>2, <2>3, <3>2
      <4> QED
        BY <2>1, <2>2, <3>2, <4>1 DEF IssuedAfter, IssuedBehind
    <3>3. CASE id # MaxId /\ ~ (res.reg.next_id < registry.next_id)
      <4>1. id < res.reg.next_id
        BY <1>2, <2>2, <2>3, <3>3
      <4>2. \A j \in issued : j < res.reg.next_id
        BY <2>2, <3>3 DEF IssuedBehind, RegistryTypeOK, U32
      <4> QED
        BY <2>1, <3>3, <4>1, <4>2 DEF IssuedAfter, IssuedBehind
    <3> QED
      BY <3>1, <3>2, <3>3
  <2>6. Accounted'
    <3>1. registry \in Registry /\ registry' \in Registry
      BY <2>1 DEF WellFormed
    <3>2. Cardinality(Live(registry))' = Cardinality(Live(registry)) + 1
      BY <1>2, <2>1, <3>1, LiveCount
    <3>3. Cardinality(Live(registry)) \in Nat
      BY <3>1, LiveIsFinite
    <3>4. registered' - Cardinality(Live(registry))' = registered - Cardinality(Live(registry))
      BY <2>1, <3>2, <3>3 DEF RegistryTypeOK
    <3> QED
      BY <2>1, <3>2, <3>3, <3>4 DEF Accounted, EveryStreamAccounted, RegistryTypeOK
  <2> QED
    BY <2>1, <2>4, <2>5, <2>6
<1> QED
  BY <1>1, <1>2

(* RegistryInv holds of a new registry.                                           *)
LEMMA RegistryInvInit == RegistryInit => RegistryInv
<1> SUFFICES ASSUME RegistryInit PROVE RegistryInv
  OBVIOUS
<1>1. WellFormed(registry) /\ Live(registry) = {}
  BY NewRegistryKeeps DEF RegistryInit
<1>2. Cardinality(Live(registry)) = 0
  BY <1>1, FS_EmptySet
<1>3. registry.closed_count = 0
  BY DEF RegistryInit, NewRegistry
<1> QED
  BY <1>1, <1>2, <1>3, RegistryConstants, MaxRegisteredAssumption
  DEF RegistryInit, RegistryInv, RegistryTypeOK, WellFormed, IssuedBehind, Accounted,
      EveryStreamAccounted, Saturate

(* Every method call preserves RegistryInv, the refused ones included.            *)
LEMMA RegistryInvNext == RegistryInv /\ [RegistryNext]_registry_vars => RegistryInv'
<1> SUFFICES ASSUME RegistryInv, [RegistryNext]_registry_vars PROVE RegistryInv'
  OBVIOUS
<1> WellFormed(registry) /\ registry \in Registry
  BY DEF RegistryInv, WellFormed
<1>1. ASSUME NEW kind \in Kinds, NEW path \in Paths, Open(kind, path)
      PROVE  RegistryInv'
  <2> DEFINE res == RegOpen(registry, kind, path)
  <2>1. registered < MaxRegistered /\ Registered(res)
    BY <1>1 DEF Open
  <2> HIDE DEF res
  <2>2. /\ WellFormed(res.reg)
        /\ res.reg.closed_count = registry.closed_count
        /\ res.ok => /\ res.id \in Free(registry)
                     /\ Live(res.reg) = Live(registry) \cup {res.id}
                     /\ res.reg.next_id = SuccId(res.id)
        /\ ~ res.ok => res.reg = registry
        /\ res.ok \in BOOLEAN
    BY OpenKeeps DEF res
  <2>3. res.ok => \/ res.id >= registry.next_id
                  \/ res.id < registry.next_id
    BY <2>2 DEF Free, Registry, U32
  <2> QED
    BY <2>1, <2>2, <2>3, RegisteredKeeps
<1>2. ASSUME NEW id \in U32, NEW kind \in Kinds, NEW path \in Paths,
             Accept(id, kind, path)
      PROVE  RegistryInv'
  <2> DEFINE res == RegAccept(registry, id, kind, path)
  <2>1. registered < MaxRegistered /\ Registered(res)
    BY <1>2 DEF Accept
  <2> HIDE DEF res
  <2>2. /\ WellFormed(res.reg)
        /\ res.reg.closed_count = registry.closed_count
        /\ res.ok => /\ res.id = id /\ id \in Free(registry)
                     /\ Live(res.reg) = Live(registry) \cup {id}
                     /\ res.reg.next_id = (IF id >= registry.next_id
                                           THEN SuccId(id) ELSE registry.next_id)
        /\ ~ res.ok => res.reg = registry
        /\ res.ok \in BOOLEAN
    BY AcceptKeeps DEF res
  <2>3. id >= registry.next_id \/ id < registry.next_id
    BY RegistryConstants DEF Registry, U32
  <2> QED
    BY <2>1, <2>2, <2>3, RegisteredKeeps
<1>3. ASSUME NEW id \in U32, Close(id)
      PROVE  RegistryInv'
  <2> DEFINE res == RegClose(registry, id)
  <2>1. registry' = res.reg /\ UNCHANGED <<issued, registered>>
    BY <1>3 DEF Close
  <2> HIDE DEF res
  <2>2. /\ WellFormed(res.reg)
        /\ res.reg.next_id = registry.next_id
        /\ res.ok <=> id \in Live(registry)
        /\ res.ok => /\ Live(res.reg) = Live(registry) \ {id}
                     /\ res.reg.closed_count = Saturate(registry.closed_count + 1)
        /\ ~ res.ok => res.reg = registry
    BY CloseKeeps DEF res
  <2>3. RegistryTypeOK' /\ WellFormed(registry)' /\ IssuedBehind'
    BY <2>1, <2>2 DEF RegistryInv, RegistryTypeOK, WellFormed, IssuedBehind
  <2>4. Accounted'
    <3>1. CASE ~ res.ok
      BY <2>1, <2>2, <3>1 DEF RegistryInv, Accounted, EveryStreamAccounted
    <3>2. CASE res.ok
      <4>1. /\ Cardinality(Live(registry))' = Cardinality(Live(registry)) - 1
            /\ Cardinality(Live(registry)) > 0
            /\ Cardinality(Live(registry)) \in Nat
        BY <2>1, <2>2, <3>2, LiveCount, LiveIsFinite DEF WellFormed
      <4> QED
        BY <2>1, <2>2, <3>2, <4>1, RegistryConstants
        DEF RegistryInv, Accounted, EveryStreamAccounted, Saturate, RegistryTypeOK
    <3> QED
      BY <3>1, <3>2
  <2> QED
    BY <2>3, <2>4 DEF RegistryInv
<1>4. CASE Clear
  <2>1. registry' = RegClear(registry) /\ UNCHANGED <<issued, registered>>
    BY <1>4 DEF Clear
  <2>2. /\ WellFormed(registry')
        /\ Live(registry)' = {}
        /\ registry'.next_id = registry.next_id
        /\ registry'.closed_count =
              Saturate(registry.closed_count + Cardinality(Live(registry)))
    BY <2>1, ClearKeeps
  <2>3. RegistryTypeOK' /\ WellFormed(registry)' /\ IssuedBehind'
    BY <2>1, <2>2 DEF RegistryInv, RegistryTypeOK, WellFormed, IssuedBehind
  <2>4. Cardinality(Live(registry))' = 0 /\ Cardinality(Live(registry)) \in Nat
    BY <2>2, FS_EmptySet, LiveIsFinite
  <2>5. Accounted'
    BY <2>1, <2>2, <2>4, RegistryConstants
    DEF RegistryInv, Accounted, EveryStreamAccounted, Saturate, RegistryTypeOK
  <2> QED
    BY <2>3, <2>5 DEF RegistryInv
<1>5. CASE UNCHANGED registry_vars
  BY <1>5 DEF registry_vars, RegistryInv, RegistryTypeOK, IssuedBehind, Accounted, EveryStreamAccounted
<1> QED
  BY <1>1, <1>2, <1>3, <1>4, <1>5 DEF RegistryNext

-----------------------------------------------------------------------------
(* The registry is always a well-typed one, its counters within their      *)
(* widths, however the methods of src/stream/mod.rs are called.            *)
THEOREM RegistryTypeCorrect == RegistrySpec => []RegistryTypeOK
<1>1. RegistryInv => RegistryTypeOK
  BY DEF RegistryInv
<1> QED
  BY <1>1, RegistryInvInit, RegistryInvNext, PTL DEF RegistrySpec

(* Stream 0 is never registered and allocation never starts from it.       *)
THEOREM ControlStreamSafe == RegistrySpec => []ControlStreamReserved
<1>1. RegistryInv => ControlStreamReserved
  BY DEF RegistryInv, WellFormed, ControlStreamReserved
<1> QED
  BY <1>1, RegistryInvInit, RegistryInvNext, PTL DEF RegistrySpec

(* Until the id space wraps, open never returns an id that open or accept  *)
(* has already used.                                                       *)
THEOREM NoReuseUntilWrap == RegistrySpec => []FreshUntilWrap
<1>1. RegistryInv => FreshUntilWrap
  <2> SUFFICES ASSUME RegistryInv, Free(registry) # {},
                      AllocateId(registry).id >= registry.next_id
               PROVE  AllocateId(registry).id \notin issued
    BY DEF FreshUntilWrap
  <2>1. AllocateId(registry).id \in Nat /\ registry.next_id \in Nat
    BY AllocateIdFree DEF RegistryInv, WellFormed, Free, Registry, U32
  <2> QED
    BY <2>1 DEF RegistryInv, IssuedBehind
<1> QED
  BY <1>1, RegistryInvInit, RegistryInvNext, PTL DEF RegistrySpec

(* No stream is lost: each one registered is active or counted as closed.  *)
THEOREM StreamsAccounted == RegistrySpec => []EveryStreamAccounted
<1>1. RegistryInv => EveryStreamAccounted
  BY DEF RegistryInv, Accounted
<1> QED
  BY <1>1, RegistryInvInit, RegistryInvNext, PTL DEF RegistrySpec

(* The entry of an active stream never changes while it is active.         *)
THEOREM EntriesKept == RegistrySpec => LiveEntryKept
<1>1. RegistryInv /\ [RegistryNext]_registry_vars =>
        [\A id \in Live(registry) \cap Live(registry)' :
             registry'.active[id] = registry.active[id]]_registry_vars
  <2> SUFFICES ASSUME RegistryInv, RegistryNext,
                      NEW id \in Live(registry) \cap Live(registry)'
               PROVE  registry'.active[id] = registry.active[id]
    OBVIOUS
  <2> id \in U32 /\ WellFormed(registry)
    BY DEF Live, RegistryInv
  <2>1. ASSUME NEW kind \in Kinds, NEW path \in Paths, Open(kind, path)
        PROVE  registry'.active[id] = registry.active[id]
    <3> DEFINE res == RegOpen(registry, kind, path)
    <3>1. registry' = res.reg
      BY <2>1 DEF Open, Registered
    <3> HIDE DEF res
    <3>2. /\ ~ res.ok => res.reg = registry
          /\ res.ok => /\ res.id \in Free(registry)
                       /\ \A j \in U32 \ {res.id} :
                              res.reg.active[j] = registry.active[j]
      BY OpenKeeps DEF res
    <3> QED
      BY <3>1, <3>2 DEF Free
  <2>2. ASSUME NEW j \in U32, NEW kind \in Kinds, NEW path \in Paths,
               Accept(j, kind, path)
        PROVE  registry'.active[id] = registry.active[id]
    <3> DEFINE res == RegAccept(registry, j, kind, path)
    <3>1. registry' = res.reg
      BY <2>2 DEF Accept, Registered
    <3> HIDE DEF res
    <3>2. /\ ~ res.ok => res.reg = registry
          /\ res.ok => /\ j \in Free(registry)
                       /\ \A k \in U32 \ {j} :
                              res.reg.active[k] = registry.active[k]
      BY AcceptKeeps DEF res
    <3> QED
      BY <3>1, <3>2 DEF Free
  <2>3. ASSUME NEW j \in U32, Close(j)
        PROVE  registry'.active[id] = registry.active[id]
    <3> DEFINE res == RegClose(registry, j)
    <3>1. registry' = res.reg
      BY <2>3 DEF Close
    <3> HIDE DEF res
    <3>2. /\ res.ok <=> j \in Live(registry)
          /\ res.ok => Live(res.reg) = Live(registry) \ {j}
          /\ \A k \in U32 \ {j} : res.reg.active[k] = registry.active[k]
          /\ ~ res.ok => res.reg = registry
      BY CloseKeeps DEF res
    <3> QED
      BY <3>1, <3>2
  <2>4. CASE Clear
    <3>1. Live(registry)' = {}
      BY <2>4, ClearKeeps DEF Clear
    <3> QED
      BY <3>1
  <2> QED
    BY <2>1, <2>2, <2>3, <2>4 DEF RegistryNext
<1> QED
  BY <1>1, RegistryInvInit, RegistryInvNext, PTL DEF RegistrySpec, LiveEntryKept

-----------------------------------------------------------------------------
(* A session between two calls.                                            *)
Sound(s) ==
    /\ s \in Sessions
    /\ WellFormed(s.registry)
    /\ Live(s.registry) # {} => s.state = "Ready"
    /\ s.pin_required =>
           /\ MaxAuthFails # 0
           /\ s.auth_attempts <= MaxAuthFails
           /\ s.auth_attempts = MaxAuthFails => s.state = "Closed"

(* The comparison in fixed buffers is equality with a PIN of PIN_LEN bytes.*)
LEMMA PinEquality ==
    ASSUME NEW e \in Seq(Bytes), NEW p \in Seq(Bytes)
    PROVE  ConstantTimePinEq(e, p) <=> e = p /\ Len(e) = PIN_LEN
<1>1. ASSUME ConstantTimePinEq(e, p) PROVE e = p
  <2>1. Len(e) = PIN_LEN /\ Len(p) = PIN_LEN /\ PIN_LEN \in Nat
    BY <1>1, SessionConstants DEF ConstantTimePinEq
  <2>2. ASSUME NEW i \in 1..PIN_LEN PROVE e[i] = p[i]
    <3>1. Fixed(e)[i] = Fixed(p)[i]
      BY <1>1 DEF ConstantTimePinEq
    <3>2. Fixed(e)[i] = e[i] /\ Fixed(p)[i] = p[i]
      BY <2>1, <2>2 DEF Fixed
    <3> QED
      BY <3>1, <3>2
  <2> QED
    BY <2>1, <2>2
<1>2. ASSUME ConstantTimePinEq(e, p) PROVE Len(e) = PIN_LEN
  BY <1>2 DEF ConstantTimePinEq
<1>3. ASSUME e = p, Len(e) = PIN_LEN PROVE ConstantTimePinEq(e, p)
  BY <1>3 DEF ConstantTimePinEq
<1> QED
  BY <1>1, <1>2, <1>3

(* A session moved to another state, with another retry delay.             *)
Moved(s, st, n) == [s EXCEPT !.state = st, !.next_auth_allowed_at = n]

(* Moving a session leaves its other fields as they were.                  *)
LEMMA MovedSession ==
    ASSUME NEW s \in Sessions, NEW st \in States, NEW n \in Nat
    PROVE  LET t == Moved(s, st, n)
           IN  /\ t \in Sessions
               /\ t.state = st
               /\ t.next_auth_allowed_at = n
               /\ t.auth_attempts = s.auth_attempts
               /\ t.registry = s.registry
               /\ t.pin_required = s.pin_required
               /\ t.expected_pin = s.expected_pin
<1> DEFINE t == Moved(s, st, n)
<1> DEFINE u == [s EXCEPT !.state = st]
<1>1. u \in Sessions /\ u.state = st
  BY DEF Sessions
<1>2. /\ u.auth_attempts = s.auth_attempts
      /\ u.registry = s.registry
      /\ u.pin_required = s.pin_required
      /\ u.expected_pin = s.expected_pin
  BY DEF Sessions
<1>3. t = [u EXCEPT !.next_auth_allowed_at = n]
  BY DEF Moved
<1> HIDE DEF u, t
<1>4. t \in Sessions
  BY <1>1, <1>3 DEF Sessions
<1> QED
  BY <1>1, <1>2, <1>3, <1>4 DEF Sessions, t

(* Session::close leaves a sound session, with nothing in its table.       *)
LEMMA CloseSessionSound ==
    ASSUME NEW s, s \in Sessions, WellFormed(s.registry),
           s.pin_required => MaxAuthFails # 0 /\ s.auth_attempts <= MaxAuthFails,
           NEW t, t = CloseSession(s)
    PROVE  /\ Sound(t)
           /\ t.state = "Closed"
           /\ Live(t.registry) = {}
           /\ t.auth_attempts = s.auth_attempts
           /\ t.pin_required = s.pin_required
           /\ t.expected_pin = s.expected_pin
           /\ t.next_auth_allowed_at = 0
<1>1. WellFormed(RegClear(s.registry)) /\ Live(RegClear(s.registry)) = {}
  BY ClearKeeps
<1>2. RegClear(s.registry) \in Registry
  BY <1>1 DEF WellFormed
<1>3. t = [s EXCEPT !.registry = RegClear(s.registry), !.state = "Closed",
                    !.next_auth_allowed_at = 0]
  BY DEF CloseSession
<1> DEFINE u == [s EXCEPT !.registry = RegClear(s.registry)]
<1>a. /\ u \in Sessions
      /\ u.registry = RegClear(s.registry)
      /\ u.auth_attempts = s.auth_attempts
      /\ u.pin_required = s.pin_required
      /\ u.expected_pin = s.expected_pin
  BY <1>2 DEF Sessions
<1>b. t = Moved(u, "Closed", 0)
  BY <1>3 DEF Moved
<1> HIDE DEF u
<1>c. "Closed" \in States /\ 0 \in Nat
  BY DEF States
<1>4. /\ t \in Sessions
      /\ t.state = "Closed"
      /\ t.registry = RegClear(s.registry)
      /\ t.auth_attempts = s.auth_attempts
      /\ t.pin_required = s.pin_required
      /\ t.expected_pin = s.expected_pin
      /\ t.next_auth_allowed_at = 0
  BY <1>a, <1>b, <1>c, MovedSession
<1> QED
  BY <1>1, <1>4 DEF Sound

(* A registry put back in a ready session: the rest of it is untouched.    *)
LEMMA WithRegistrySound ==
    ASSUME NEW s, Sound(s), NEW r, WellFormed(r),
           s.state = "Ready" \/ Live(r) \subseteq Live(s.registry),
           NEW t, t = [s EXCEPT !.registry = r]
    PROVE  /\ Sound(t)
           /\ t.state = s.state
           /\ t.registry = r
           /\ t.auth_attempts = s.auth_attempts
           /\ t.pin_required = s.pin_required
           /\ t.expected_pin = s.expected_pin
           /\ t.next_auth_allowed_at = s.next_auth_allowed_at
<1>1. r \in Registry
  BY DEF WellFormed
<1>2. /\ t \in Sessions
      /\ t.state = s.state
      /\ t.registry = r
      /\ t.auth_attempts = s.auth_attempts
      /\ t.pin_required = s.pin_required
      /\ t.expected_pin = s.expected_pin
      /\ t.next_auth_allowed_at = s.next_auth_allowed_at
  BY <1>1 DEF Sound, Sessions
<1> QED
  BY <1>2 DEF Sound

(* What authenticate leaves, by its outcome.                               *)
Checked(s, pin, t, res) ==
    /\ Sound(res.session)
    /\ res.session.pin_required = s.pin_required
    /\ res.session.expected_pin = s.expected_pin
    /\ \/ /\ s.state # "Authenticating" \/ RetryDelayed(s, t)
          /\ res.out = "Err" /\ res.session = s
       \/ /\ s.state = "Authenticating" /\ ~ RetryDelayed(s, t)
          /\ \/ /\ res.out = "Ready"
                /\ res.session.state = "Ready"
                /\ res.session.auth_attempts = s.auth_attempts
                /\ res.session.registry = s.registry
                /\ pin = s.expected_pin /\ Len(pin) = PIN_LEN
             \/ /\ res.out = "Closed"
                /\ res.session.state = "Closed"
                /\ res.session.auth_attempts = s.auth_attempts + 1
                /\ res.session.auth_attempts = MaxAuthFails
                /\ Live(res.session.registry) = {}
             \/ /\ res.out = "Err"
                /\ res.session = s
                /\ t + PinFailDelay > MaxInstant
             \/ /\ res.out = "Rejected"
                /\ res.session.state = "Authenticating"
                /\ res.session.auth_attempts = s.auth_attempts + 1
                /\ res.session.auth_attempts < MaxAuthFails
                /\ res.session.registry = s.registry
                /\ res.session.next_auth_allowed_at = t + PinFailDelay

(* Authentication, from a sound session: what each outcome leaves.         *)
LEMMA AuthenticateSound ==
    ASSUME NEW s, Sound(s), s.state = "Authenticating" => s.pin_required,
           NEW pin \in Seq(Bytes), NEW t \in Nat,
           NEW res, res = Authenticate(s, pin, t)
    PROVE  Checked(s, pin, t, res)
<1> USE DEF Checked
<1> DEFINE failed == CountFailure(s)
<1>0. s \in Sessions /\ s.expected_pin \in Seq(Bytes) /\ s.auth_attempts \in Nat
  BY DEF Sound, Sessions
<1>1. CASE s.state # "Authenticating" \/ RetryDelayed(s, t)
  BY <1>1 DEF Authenticate
<1>2. CASE s.state = "Authenticating" /\ ~ RetryDelayed(s, t)
  <2>1. CASE ConstantTimePinEq(s.expected_pin, pin)
    <3>1. pin = s.expected_pin /\ Len(pin) = PIN_LEN
      BY <1>0, <2>1, PinEquality
    <3>2. res = [ok |-> TRUE, out |-> "Ready",
                 session |-> [s EXCEPT !.state = "Ready",
                                       !.next_auth_allowed_at = 0]]
      BY <1>2, <2>1 DEF Authenticate
    <3>a. res.session = Moved(s, "Ready", 0) /\ res.out = "Ready"
      BY <3>2 DEF Moved
    <3>b. "Ready" \in States /\ 0 \in Nat
      BY DEF States
    <3>3. /\ res.session \in Sessions
          /\ res.out = "Ready"
          /\ res.session.state = "Ready"
          /\ res.session.auth_attempts = s.auth_attempts
          /\ res.session.registry = s.registry
          /\ res.session.pin_required = s.pin_required
          /\ res.session.expected_pin = s.expected_pin
      BY <1>0, <3>a, <3>b, MovedSession
    <3>4. Sound(res.session)
      BY <1>2, <3>3 DEF Sound
    <3> QED
      BY <1>2, <3>1, <3>3, <3>4
  <2>2. CASE ~ ConstantTimePinEq(s.expected_pin, pin)
    <3>1. /\ failed \in Sessions
          /\ failed.auth_attempts = s.auth_attempts + 1
          /\ failed.registry = s.registry
          /\ failed.pin_required = s.pin_required
          /\ failed.expected_pin = s.expected_pin
          /\ failed.state = s.state
      BY <1>0 DEF CountFailure, Sessions
    <3>2. /\ s.pin_required /\ s.auth_attempts < MaxAuthFails
          /\ WellFormed(s.registry) /\ Live(s.registry) = {}
      BY <1>0, <1>2, SessionConstants DEF Sound
    <3> HIDE DEF failed
    <3>3. CASE LimitReached(failed.auth_attempts)
      <4>1. res = [ok |-> TRUE, out |-> "Closed",
                   session |-> CloseSession(failed)]
        BY <1>2, <2>2, <3>3 DEF Authenticate, failed
      <4>2. failed.auth_attempts = MaxAuthFails
        BY <1>0, <3>1, <3>2, <3>3, SessionConstants DEF LimitReached
      <4>3. failed.pin_required =>
                MaxAuthFails # 0 /\ failed.auth_attempts <= MaxAuthFails
        BY <3>1, <3>2, <4>2, SessionConstants DEF Sound
      <4>4. res.out = "Closed" /\ res.session = CloseSession(failed)
        BY <4>1
      <4>5. /\ Sound(res.session)
            /\ res.session.state = "Closed"
            /\ Live(res.session.registry) = {}
            /\ res.session.auth_attempts = failed.auth_attempts
            /\ res.session.pin_required = failed.pin_required
            /\ res.session.expected_pin = failed.expected_pin
        BY <3>1, <3>2, <4>3, <4>4, CloseSessionSound
      <4> QED
        BY <1>2, <3>1, <4>2, <4>4, <4>5
    <3>4. CASE ~ LimitReached(failed.auth_attempts) /\ t + PinFailDelay > MaxInstant
      BY <1>2, <2>2, <3>4 DEF Authenticate, failed
    <3>5. CASE ~ LimitReached(failed.auth_attempts) /\ ~ (t + PinFailDelay > MaxInstant)
      <4>1. res = [ok |-> TRUE, out |-> "Rejected",
                   session |-> [failed EXCEPT !.next_auth_allowed_at =
                                                  t + PinFailDelay]]
        BY <1>2, <2>2, <3>5 DEF Authenticate, failed
      <4>2. failed.auth_attempts < MaxAuthFails
        BY <1>0, <3>1, <3>5, SessionConstants DEF LimitReached
      <4>3. t + PinFailDelay \in Nat
        BY SessionConstants
      <4>4. /\ res.session \in Sessions
            /\ res.session.state = failed.state
            /\ res.session.auth_attempts = failed.auth_attempts
            /\ res.session.registry = failed.registry
            /\ res.session.pin_required = failed.pin_required
            /\ res.session.expected_pin = failed.expected_pin
            /\ res.session.next_auth_allowed_at = t + PinFailDelay
        BY <3>1, <4>1, <4>3 DEF Sessions
      <4>5. Sound(res.session)
        BY <1>0, <3>1, <3>2, <4>2, <4>4, SessionConstants DEF Sound
      <4> QED
        BY <1>2, <3>1, <4>1, <4>2, <4>4, <4>5
    <3> QED
      BY <3>3, <3>4, <3>5
  <2> QED
    BY <2>1, <2>2
<1> QED
  BY <1>1, <1>2
=============================================================================
