----------------------------- MODULE Handlers_proofs -----------------------------
(* Theorems about the handlers that run beside the session: the output budget of   *)
(* the shell handler; the permits, targets, addresses and byte limits of the       *)
(* proxy, for any number of streams and every limit, policy and answer; and the    *)
(* web control surface, for any number of ids, requests and sockets.               *)
EXTENDS Proxy, Shell, WebControl, FiniteSetTheorems, SequenceTheorems, TLAPS

---------------------------------------------------------------------------------
(* The shell handler                                                             *)

\* total and the outputs of the readers change only together, in an exchange that
\* succeeds; what makes that inductive is the type of a reader: current is a value
\* total once had, so never above the limit.

ShellInv == ShellTypeOK /\ OutputBounded

\* Nothing is read and nothing counted before run begins.
LEMMA ShellStarts == ShellInit => ShellInv
  BY ShellAssumption
  DEF ShellInit, ShellInv, ShellTypeOK, OutputBounded, Pipes, Reader, NewReader

\* A step of a reader task keeps types and budget.
LEMMA ReaderKeeps ==
    ASSUME ShellInv, NEW p \in Pipes, ReaderStep(p)
    PROVE  ShellInv'
<1> USE ShellAssumption
<1>1. reader[p] \in Reader
  BY DEF ShellInv, ShellTypeOK
<1>2. CASE Reads(p)
  <2> DEFINE n == IF wrote[p] - taken[p] < MaxRead THEN wrote[p] - taken[p] ELSE MaxRead
  <2>1. /\ n \in 0..MaxRead /\ n <= wrote[p] - taken[p]
        /\ taken' = [taken EXCEPT ![p] = @ + n]
        /\ reader' = [reader EXCEPT ![p] = [reader[p] EXCEPT !.phase = "reserve",
                                                !.amount = n, !.current = total]]
        /\ UNCHANGED <<main, result, child, heir, wrote, total>>
    BY <1>2 DEF Reads, Set, ShellInv, ShellTypeOK
  <2> HIDE DEF n
  <2>2. /\ taken' \in [Pipes -> 0..MaxWritten] /\ \A q \in Pipes : taken'[q] <= wrote'[q]
    BY <2>1 DEF ShellInv, ShellTypeOK
  <2>3. /\ reader' \in [Pipes -> Reader]
        /\ \A q \in Pipes : reader'[q].output = reader[q].output
    BY <1>1, <2>1 DEF ShellInv, ShellTypeOK, Reader
  <2> QED
    BY <2>1, <2>2, <2>3 DEF ShellInv, ShellTypeOK, OutputBounded, Pipes
<1>3. CASE EndOfFile(p)
  <2>1. /\ reader' \in [Pipes -> Reader]
        /\ \A q \in Pipes : reader'[q].output = reader[q].output
    BY <1>1, <1>3 DEF EndOfFile, Set, ShellInv, ShellTypeOK, Reader
  <2> QED
    BY <1>3, <2>1 DEF EndOfFile, ShellInv, ShellTypeOK, OutputBounded, Pipes
<1>4. CASE Reserves(p)
  <2>1. UNCHANGED <<main, result, child, heir, wrote, taken>>
    BY <1>4 DEF Reserves
  <2>2. CASE /\ total' = total
             /\ \/ reader' = [reader EXCEPT ![p] = [reader[p] EXCEPT !.phase = "failed"]]
                \/ reader' = [reader EXCEPT ![p] = [reader[p] EXCEPT !.current = total]]
    <3>1. /\ reader' \in [Pipes -> Reader]
          /\ \A q \in Pipes : reader'[q].output = reader[q].output
      BY <1>1, <2>2 DEF ShellInv, ShellTypeOK, Reader
    <3> QED
      BY <2>1, <2>2, <3>1 DEF ShellInv, ShellTypeOK, OutputBounded, Pipes
  <2>3. CASE /\ total = reader[p].current
             /\ total + reader[p].amount <= MaxOutput
             /\ total' = total + reader[p].amount
             /\ reader' = [reader EXCEPT ![p] = [reader[p] EXCEPT !.phase = "read",
                                                    !.output = @ + reader[p].amount]]
    <3>1. reader[p].output <= total
      BY DEF ShellInv, ShellTypeOK, OutputBounded, Pipes, Reader
    <3> DEFINE sum == reader[p].output + reader[p].amount
    <3>2. sum \in 0..MaxOutput
      BY <1>1, <2>3, <3>1 DEF ShellInv, ShellTypeOK, Reader
    <3>3. [reader[p] EXCEPT !.phase = "read", !.output = sum] \in Reader
      BY <1>1, <3>2 DEF Reader
    <3>4. reader' \in [Pipes -> Reader]
      BY <2>3, <3>3 DEF ShellInv, ShellTypeOK
    <3>5. total' = reader'["stdout"].output + reader'["stderr"].output
      BY <1>1, <2>3 DEF ShellInv, ShellTypeOK, OutputBounded, Pipes, Reader
    <3> QED
      BY <1>1, <2>1, <2>3, <3>4, <3>5 DEF ShellInv, ShellTypeOK, OutputBounded, Reader
  <2> QED
    BY <1>1, <1>4, <2>2, <2>3 DEF Reserves, Set, ShellInv, ShellTypeOK, OutputBounded, Reader
<1> QED
  BY <1>2, <1>3, <1>4 DEF ReaderStep

\* Nothing else touches a count; an abort keeps what a reader has collected.
LEMMA OthersKeep ==
    ASSUME ShellInv,
           \/ \E command \in Commands, inherited \in SUBSET Pipes : Run(command, inherited)
           \/ MainStep \/ TimeoutOrCancel \/ ChildExits \/ HeirExits
           \/ \E p \in Pipes : Writes(p)
    PROVE  ShellInv'
<1> USE ShellAssumption DEF ShellInv
<1>1. CASE \E command \in Commands, inherited \in SUBSET Pipes : Run(command, inherited)
  BY <1>1 DEF Run, ShellTypeOK, OutputBounded
<1>2. CASE ChildWaited \/ TimeoutOrCancel \/ ChildExits \/ HeirExits
  BY <1>2 DEF ChildWaited, TimeoutOrCancel, ChildExits, HeirExits, ShellTypeOK, OutputBounded
<1>3. CASE Killed
  <2>1. /\ reader' \in [Pipes -> Reader]
        /\ \A q \in Pipes : reader'[q].output = reader[q].output
    BY <1>3 DEF Killed, ShellTypeOK, Reader
  <2> QED
    BY <1>3, <2>1 DEF Killed, ShellTypeOK, OutputBounded, Pipes
<1>4. CASE Collect("stdout", "stderr", "none") \/ Collect("stderr", "ended", "ok")
  BY <1>4 DEF Collect, ShellTypeOK, OutputBounded
<1>5. CASE \E p \in Pipes : Writes(p)
  <2>1. PICK p \in Pipes : Writes(p)
    BY <1>5
  <2>2. /\ wrote' \in [Pipes -> 0..MaxWritten] /\ \A q \in Pipes : taken[q] <= wrote'[q]
    BY <2>1 DEF Writes, ShellTypeOK
  <2> QED
    BY <2>1, <2>2 DEF Writes, ShellTypeOK, OutputBounded
<1> QED
  BY <1>1, <1>2, <1>3, <1>4, <1>5 DEF MainStep

\* Types and budget hold in every state of every behaviour.
LEMMA ShellInvariant == ShellSpec => []ShellInv
<1>1. ASSUME ShellInv, [ShellNext]_shellVars
      PROVE  ShellInv'
  <2>1. CASE \E p \in Pipes : ReaderStep(p)
    BY <1>1, <2>1, ReaderKeeps
  <2>2. CASE UNCHANGED shellVars
    BY <1>1, <2>2 DEF shellVars, ShellInv, ShellTypeOK, OutputBounded
  <2> QED
    BY <1>1, <2>1, <2>2, OthersKeep DEF ShellNext
<1> QED
  BY <1>1, ShellStarts, PTL DEF ShellSpec

\* read_limited and reserve_output: the two readers of a command together never
\* collect more than max_output_bytes, and the count they share is exact, whatever
\* the limit, the buffer and the order of their loads and exchanges.
THEOREM OutputStaysBounded == ShellSpec => []OutputBounded
<1>1. ShellInv => OutputBounded
  BY DEF ShellInv
<1> QED
  BY <1>1, ShellInvariant, PTL

---------------------------------------------------------------------------------
(* Addresses: the predicates of ProxyPolicy bar what the table of blocks bars      *)

\* What a prefix of an IPv4 block says about the octets it reaches.
LEMMA Octets ==
    ASSUME NEW a \in [1..4 -> 0..255], NEW base \in [1..4 -> 0..255], NEW len \in Nat,
           InPrefix(a, base, len, 8)
    PROVE  /\ len >= 8 => a[1] = base[1]
           /\ len >= 16 => a[2] = base[2]
           /\ len >= 24 => a[3] = base[3]
           /\ len = 4 => a[1] \div 16 = base[1] \div 16
           /\ len = 10 => a[2] \div 64 = base[2] \div 64
           /\ len = 12 => a[2] \div 16 = base[2] \div 16
           /\ len = 15 => a[2] \div 2 = base[2] \div 2
<1> DEFINE free(i) == 8 - Larger(0, Smaller(8, len - 8 * (i - 1)))
<1>1. \A i \in 1..4 : a[i] \div (2^free(i)) = base[i] \div (2^free(i))
  BY DEF InPrefix
<1>2. /\ len >= 8 => free(1) = 0
      /\ len >= 16 => free(2) = 0
      /\ len >= 24 => free(3) = 0
      /\ len = 4 => free(1) = 4
      /\ len = 10 => free(2) = 6
      /\ len = 12 => free(2) = 4
      /\ len = 15 => free(2) = 1
  BY DEF Larger, Smaller
<1> HIDE DEF free
<1>3. ASSUME len >= 8 PROVE a[1] = base[1]
  <2>1. free(1) = 0
    BY <1>2, <1>3
  <2>2. a[1] \div (2^0) = base[1] \div (2^0)
    <3>1. a[1] \div (2^free(1)) = base[1] \div (2^free(1))
      BY <1>1
    <3> QED
      BY <2>1, <3>1
  <2>3. a[1] \in Int /\ base[1] \in Int
    OBVIOUS
  <2> QED
    BY <2>2, <2>3
<1>4. ASSUME len >= 16 PROVE a[2] = base[2]
  <2>1. free(2) = 0
    BY <1>2, <1>4
  <2>2. a[2] \div (2^0) = base[2] \div (2^0)
    <3>1. a[2] \div (2^free(2)) = base[2] \div (2^free(2))
      BY <1>1
    <3> QED
      BY <2>1, <3>1
  <2>3. a[2] \in Int /\ base[2] \in Int
    OBVIOUS
  <2> QED
    BY <2>2, <2>3
<1>5. ASSUME len >= 24 PROVE a[3] = base[3]
  <2>1. free(3) = 0
    BY <1>2, <1>5
  <2>2. a[3] \div (2^0) = base[3] \div (2^0)
    <3>1. a[3] \div (2^free(3)) = base[3] \div (2^free(3))
      BY <1>1
    <3> QED
      BY <2>1, <3>1
  <2>3. a[3] \in Int /\ base[3] \in Int
    OBVIOUS
  <2> QED
    BY <2>2, <2>3
<1>6. ASSUME len = 4 PROVE a[1] \div 16 = base[1] \div 16
  <2>1. free(1) = 4
    BY <1>2, <1>6
  <2>2. a[1] \div (2^4) = base[1] \div (2^4)
    <3>1. a[1] \div (2^free(1)) = base[1] \div (2^free(1))
      BY <1>1
    <3> QED
      BY <2>1, <3>1
  <2> QED
    BY <2>2
<1>7. ASSUME len = 10 PROVE a[2] \div 64 = base[2] \div 64
  <2>1. free(2) = 6
    BY <1>2, <1>7
  <2>2. a[2] \div (2^6) = base[2] \div (2^6)
    <3>1. a[2] \div (2^free(2)) = base[2] \div (2^free(2))
      BY <1>1
    <3> QED
      BY <2>1, <3>1
  <2> QED
    BY <2>2
<1>8. ASSUME len = 12 PROVE a[2] \div 16 = base[2] \div 16
  <2>1. free(2) = 4
    BY <1>2, <1>8
  <2>2. a[2] \div (2^4) = base[2] \div (2^4)
    <3>1. a[2] \div (2^free(2)) = base[2] \div (2^free(2))
      BY <1>1
    <3> QED
      BY <2>1, <3>1
  <2> QED
    BY <2>2
<1>9. ASSUME len = 15 PROVE a[2] \div 2 = base[2] \div 2
  <2>1. free(2) = 1
    BY <1>2, <1>9
  <2>2. a[2] \div (2^1) = base[2] \div (2^1)
    <3>1. a[2] \div (2^free(2)) = base[2] \div (2^free(2))
      BY <1>1
    <3> QED
      BY <2>1, <3>1
  <2> QED
    BY <2>2
<1> QED
  BY <1>3, <1>4, <1>5, <1>6, <1>7, <1>8, <1>9

\* What a prefix of an IPv6 block says about the segments it reaches.
LEMMA Segments ==
    ASSUME NEW a \in [1..8 -> Nat], NEW base \in [1..8 -> Nat], NEW len \in Nat,
           InPrefix(a, base, len, 16)
    PROVE  /\ len = 128 => \A i \in 1..8 : a[i] = base[i]
           /\ len >= 16 => a[1] = base[1]
           /\ len >= 32 => a[2] = base[2]
           /\ len = 7 => a[1] \div 512 = base[1] \div 512
           /\ len = 8 => a[1] \div 256 = base[1] \div 256
           /\ len = 10 => a[1] \div 64 = base[1] \div 64
<1> DEFINE free(i) == 16 - Larger(0, Smaller(16, len - 16 * (i - 1)))
<1>1. \A i \in 1..8 : a[i] \div (2^free(i)) = base[i] \div (2^free(i))
  BY DEF InPrefix
<1>2. /\ len = 128 => \A i \in 1..8 : free(i) = 0
      /\ len >= 16 => free(1) = 0
      /\ len >= 32 => free(2) = 0
      /\ len = 7 => free(1) = 9
      /\ len = 8 => free(1) = 8
      /\ len = 10 => free(1) = 6
  BY DEF Larger, Smaller
<1> HIDE DEF free
<1>3. ASSUME len = 128, NEW i \in 1..8 PROVE a[i] = base[i]
  <2>1. a[i] \div (2^0) = base[i] \div (2^0)
    BY <1>1, <1>2, <1>3
  <2>2. a[i] \in Int /\ base[i] \in Int
    OBVIOUS
  <2> QED
    BY <2>1, <2>2
<1>4. ASSUME len >= 16 PROVE a[1] = base[1]
  <2>1. free(1) = 0
    BY <1>2, <1>4
  <2>2. a[1] \div (2^0) = base[1] \div (2^0)
    <3>1. a[1] \div (2^free(1)) = base[1] \div (2^free(1))
      BY <1>1
    <3> QED
      BY <2>1, <3>1
  <2>3. a[1] \in Int /\ base[1] \in Int
    OBVIOUS
  <2> QED
    BY <2>2, <2>3
<1>5. ASSUME len >= 32 PROVE a[2] = base[2]
  <2>1. free(2) = 0
    BY <1>2, <1>5
  <2>2. a[2] \div (2^0) = base[2] \div (2^0)
    <3>1. a[2] \div (2^free(2)) = base[2] \div (2^free(2))
      BY <1>1
    <3> QED
      BY <2>1, <3>1
  <2>3. a[2] \in Int /\ base[2] \in Int
    OBVIOUS
  <2> QED
    BY <2>2, <2>3
<1>6. ASSUME len = 7 PROVE a[1] \div 512 = base[1] \div 512
  <2>1. free(1) = 9
    BY <1>2, <1>6
  <2>2. a[1] \div (2^9) = base[1] \div (2^9)
    <3>1. a[1] \div (2^free(1)) = base[1] \div (2^free(1))
      BY <1>1
    <3> QED
      BY <2>1, <3>1
  <2> QED
    BY <2>2
<1>7. ASSUME len = 8 PROVE a[1] \div 256 = base[1] \div 256
  <2>1. free(1) = 8
    BY <1>2, <1>7
  <2>2. a[1] \div (2^8) = base[1] \div (2^8)
    <3>1. a[1] \div (2^free(1)) = base[1] \div (2^free(1))
      BY <1>1
    <3> QED
      BY <2>1, <3>1
  <2> QED
    BY <2>2
<1>8. ASSUME len = 10 PROVE a[1] \div 64 = base[1] \div 64
  <2>1. free(1) = 6
    BY <1>2, <1>8
  <2>2. a[1] \div (2^6) = base[1] \div (2^6)
    <3>1. a[1] \div (2^free(1)) = base[1] \div (2^free(1))
      BY <1>1
    <3> QED
      BY <2>1, <3>1
  <2> QED
    BY <2>2
<1> QED
  BY <1>3, <1>4, <1>5, <1>6, <1>7, <1>8

\* The first three octets of an address, as is_reserved_ipv4 compares them.
LEMMA FirstThree ==
    ASSUME NEW a \in [1..4 -> 0..255]
    PROVE  SubSeq(a, 1, 3) = <<a[1], a[2], a[3]>>
<1> DEFINE q == SubSeq(a, 1, 3)
<1>1. \A i \in 1..3 : a[i] \in 0..255
  OBVIOUS
<1>2. /\ q \in Seq(0..255) /\ Len(q) = 3 - 1 + 1
      /\ \A i \in 1..(3 - 1 + 1) : q[i] = a[1 + i - 1]
  BY <1>1, SubSeqProperties
<1>3. q \in [1..3 -> 0..255] /\ q[1] = a[1] /\ q[2] = a[2] /\ q[3] = a[3]
  <2> HIDE DEF q
  <2>1. Len(q) = 3 /\ q \in [1..Len(q) -> 0..255]
    BY <1>2, LenProperties
  <2> QED
    BY <1>2, <2>1
<1> HIDE DEF q
<1>4. q = <<q[1], q[2], q[3]>>
  BY <1>3
<1> QED
  BY <1>3, <1>4 DEF q


\* is_unspecified, is_multicast, is_broadcast and is_reserved_ipv4 cover the barred
\* IPv4 blocks.
LEMMA Barred4 ==
    ASSUME NEW a \in [1..4 -> 0..255], \E b \in BarredBlocks4 : InPrefix(a, b[1], b[2], 8)
    PROVE  always_disallowed_v4(V4(a))
<1>1. InPrefix(a, <<0, 0, 0, 0>>, 8, 8) => a[1] = 0
  <2> DEFINE base == <<0, 0, 0, 0>>
  <2>1. base \in [1..4 -> 0..255] /\ base[1] = 0 /\ base[2] = 0 /\ base[3] = 0
    OBVIOUS
  <2> HIDE DEF base
  <2>2. SUFFICES ASSUME InPrefix(a, base, 8, 8) PROVE a[1] = 0
    BY DEF base
  <2> QED
    BY <2>1, <2>2, Octets
<1>2. InPrefix(a, <<100, 64, 0, 0>>, 10, 8) => a[1] = 100 /\ a[2] \in 64..127
  <2> DEFINE base == <<100, 64, 0, 0>>
  <2>1. base \in [1..4 -> 0..255] /\ base[1] = 100 /\ base[2] = 64 /\ base[3] = 0
    OBVIOUS
  <2> HIDE DEF base
  <2>2. SUFFICES ASSUME InPrefix(a, base, 10, 8) PROVE a[1] = 100 /\ a[2] \in 64..127
    BY DEF base
  <2> QED
    BY <2>1, <2>2, Octets
<1>3. InPrefix(a, <<192, 0, 0, 0>>, 24, 8) => <<a[1], a[2], a[3]>> = <<192, 0, 0>>
  <2> DEFINE base == <<192, 0, 0, 0>>
  <2>1. base \in [1..4 -> 0..255] /\ base[1] = 192 /\ base[2] = 0 /\ base[3] = 0
    OBVIOUS
  <2> HIDE DEF base
  <2>2. SUFFICES ASSUME InPrefix(a, base, 24, 8) PROVE <<a[1], a[2], a[3]>> = <<192, 0, 0>>
    BY DEF base
  <2> QED
    BY <2>1, <2>2, Octets
<1>4. InPrefix(a, <<192, 0, 2, 0>>, 24, 8) => <<a[1], a[2], a[3]>> = <<192, 0, 2>>
  <2> DEFINE base == <<192, 0, 2, 0>>
  <2>1. base \in [1..4 -> 0..255] /\ base[1] = 192 /\ base[2] = 0 /\ base[3] = 2
    OBVIOUS
  <2> HIDE DEF base
  <2>2. SUFFICES ASSUME InPrefix(a, base, 24, 8) PROVE <<a[1], a[2], a[3]>> = <<192, 0, 2>>
    BY DEF base
  <2> QED
    BY <2>1, <2>2, Octets
<1>5. InPrefix(a, <<192, 88, 99, 0>>, 24, 8) => <<a[1], a[2], a[3]>> = <<192, 88, 99>>
  <2> DEFINE base == <<192, 88, 99, 0>>
  <2>1. base \in [1..4 -> 0..255] /\ base[1] = 192 /\ base[2] = 88 /\ base[3] = 99
    OBVIOUS
  <2> HIDE DEF base
  <2>2. SUFFICES ASSUME InPrefix(a, base, 24, 8) PROVE <<a[1], a[2], a[3]>> = <<192, 88, 99>>
    BY DEF base
  <2> QED
    BY <2>1, <2>2, Octets
<1>6. InPrefix(a, <<198, 18, 0, 0>>, 15, 8) => a[1] = 198 /\ a[2] \in 18..19
  <2> DEFINE base == <<198, 18, 0, 0>>
  <2>1. base \in [1..4 -> 0..255] /\ base[1] = 198 /\ base[2] = 18 /\ base[3] = 0
    OBVIOUS
  <2> HIDE DEF base
  <2>2. SUFFICES ASSUME InPrefix(a, base, 15, 8) PROVE a[1] = 198 /\ a[2] \in 18..19
    BY DEF base
  <2> QED
    BY <2>1, <2>2, Octets
<1>7. InPrefix(a, <<198, 51, 100, 0>>, 24, 8) => <<a[1], a[2], a[3]>> = <<198, 51, 100>>
  <2> DEFINE base == <<198, 51, 100, 0>>
  <2>1. base \in [1..4 -> 0..255] /\ base[1] = 198 /\ base[2] = 51 /\ base[3] = 100
    OBVIOUS
  <2> HIDE DEF base
  <2>2. SUFFICES ASSUME InPrefix(a, base, 24, 8) PROVE <<a[1], a[2], a[3]>> = <<198, 51, 100>>
    BY DEF base
  <2> QED
    BY <2>1, <2>2, Octets
<1>8. InPrefix(a, <<203, 0, 113, 0>>, 24, 8) => <<a[1], a[2], a[3]>> = <<203, 0, 113>>
  <2> DEFINE base == <<203, 0, 113, 0>>
  <2>1. base \in [1..4 -> 0..255] /\ base[1] = 203 /\ base[2] = 0 /\ base[3] = 113
    OBVIOUS
  <2> HIDE DEF base
  <2>2. SUFFICES ASSUME InPrefix(a, base, 24, 8) PROVE <<a[1], a[2], a[3]>> = <<203, 0, 113>>
    BY DEF base
  <2> QED
    BY <2>1, <2>2, Octets
<1>9. InPrefix(a, <<224, 0, 0, 0>>, 4, 8) => a[1] \in 224..239
  <2> DEFINE base == <<224, 0, 0, 0>>
  <2>1. base \in [1..4 -> 0..255] /\ base[1] = 224 /\ base[2] = 0 /\ base[3] = 0
    OBVIOUS
  <2> HIDE DEF base
  <2>2. SUFFICES ASSUME InPrefix(a, base, 4, 8) PROVE a[1] \in 224..239
    BY DEF base
  <2> QED
    BY <2>1, <2>2, Octets
<1>10. InPrefix(a, <<240, 0, 0, 0>>, 4, 8) => a[1] \in 240..255
  <2> DEFINE base == <<240, 0, 0, 0>>
  <2>1. base \in [1..4 -> 0..255] /\ base[1] = 240 /\ base[2] = 0 /\ base[3] = 0
    OBVIOUS
  <2> HIDE DEF base
  <2>2. SUFFICES ASSUME InPrefix(a, base, 4, 8) PROVE a[1] \in 240..255
    BY DEF base
  <2> QED
    BY <2>1, <2>2, Octets
<1> QED
  BY <1>1, <1>2, <1>3, <1>4, <1>5, <1>6, <1>7, <1>8, <1>9, <1>10, FirstThree
  DEF BarredBlocks4, always_disallowed_v4, is_multicast, is_reserved_ipv4, V4

\* is_private, is_loopback and is_link_local cover the local IPv4 blocks.
LEMMA Local4 ==
    ASSUME NEW a \in [1..4 -> 0..255], \E b \in LocalBlocks4 : InPrefix(a, b[1], b[2], 8)
    PROVE  private_or_local_v4(V4(a))
<1>1. InPrefix(a, <<10, 0, 0, 0>>, 8, 8) => a[1] = 10
  <2> DEFINE base == <<10, 0, 0, 0>>
  <2>1. base \in [1..4 -> 0..255] /\ base[1] = 10 /\ base[2] = 0 /\ base[3] = 0
    OBVIOUS
  <2> HIDE DEF base
  <2>2. SUFFICES ASSUME InPrefix(a, base, 8, 8) PROVE a[1] = 10
    BY DEF base
  <2> QED
    BY <2>1, <2>2, Octets
<1>2. InPrefix(a, <<127, 0, 0, 0>>, 8, 8) => a[1] = 127
  <2> DEFINE base == <<127, 0, 0, 0>>
  <2>1. base \in [1..4 -> 0..255] /\ base[1] = 127 /\ base[2] = 0 /\ base[3] = 0
    OBVIOUS
  <2> HIDE DEF base
  <2>2. SUFFICES ASSUME InPrefix(a, base, 8, 8) PROVE a[1] = 127
    BY DEF base
  <2> QED
    BY <2>1, <2>2, Octets
<1>3. InPrefix(a, <<169, 254, 0, 0>>, 16, 8) => a[1] = 169 /\ a[2] = 254
  <2> DEFINE base == <<169, 254, 0, 0>>
  <2>1. base \in [1..4 -> 0..255] /\ base[1] = 169 /\ base[2] = 254 /\ base[3] = 0
    OBVIOUS
  <2> HIDE DEF base
  <2>2. SUFFICES ASSUME InPrefix(a, base, 16, 8) PROVE a[1] = 169 /\ a[2] = 254
    BY DEF base
  <2> QED
    BY <2>1, <2>2, Octets
<1>4. InPrefix(a, <<172, 16, 0, 0>>, 12, 8) => a[1] = 172 /\ a[2] \in 16..31
  <2> DEFINE base == <<172, 16, 0, 0>>
  <2>1. base \in [1..4 -> 0..255] /\ base[1] = 172 /\ base[2] = 16 /\ base[3] = 0
    OBVIOUS
  <2> HIDE DEF base
  <2>2. SUFFICES ASSUME InPrefix(a, base, 12, 8) PROVE a[1] = 172 /\ a[2] \in 16..31
    BY DEF base
  <2> QED
    BY <2>1, <2>2, Octets
<1>5. InPrefix(a, <<192, 168, 0, 0>>, 16, 8) => a[1] = 192 /\ a[2] = 168
  <2> DEFINE base == <<192, 168, 0, 0>>
  <2>1. base \in [1..4 -> 0..255] /\ base[1] = 192 /\ base[2] = 168 /\ base[3] = 0
    OBVIOUS
  <2> HIDE DEF base
  <2>2. SUFFICES ASSUME InPrefix(a, base, 16, 8) PROVE a[1] = 192 /\ a[2] = 168
    BY DEF base
  <2> QED
    BY <2>1, <2>2, Octets
<1> QED
  BY <1>1, <1>2, <1>3, <1>4, <1>5
  DEF LocalBlocks4, private_or_local_v4, is_private, is_loopback, is_link_local, V4
\* The barred IPv6 blocks: the unspecified address, multicast and documentation.
LEMMA Barred6 ==
    ASSUME NEW a \in [1..8 -> Nat], \E b \in BarredBlocks6 : InPrefix(a, b[1], b[2], 16)
    PROVE  is_unspecified(V6(a)) \/ is_multicast(V6(a)) \/ is_documentation(V6(a))
<1>1. InPrefix(a, Words(0, 0, 0), 128, 16) => \A i \in 1..8 : a[i] = 0
  <2>1. Words(0, 0, 0) \in [1..8 -> Nat] /\ \A i \in 1..8 : Words(0, 0, 0)[i] = 0
    BY DEF Words
  <2> QED
    BY <2>1, Segments
<1>2. InPrefix(a, Words(65280, 0, 0), 8, 16) => a[1] \div 256 = 255
  <2>1. Words(65280, 0, 0) \in [1..8 -> Nat] /\ Words(65280, 0, 0)[1] \div 256 = 255
    BY DEF Words
  <2> QED
    BY <2>1, Segments
<1>3. InPrefix(a, Words(8193, 3512, 0), 32, 16) => a[1] = 8193 /\ a[2] = 3512
  <2>1. Words(8193, 3512, 0) \in [1..8 -> Nat] /\ Words(8193, 3512, 0)[1] = 8193
        /\ Words(8193, 3512, 0)[2] = 3512
    BY DEF Words
  <2> QED
    BY <2>1, Segments
<1>4. V6(a).v = 6 /\ V6(a).a = a /\ DOMAIN a = 1..8
  BY DEF V6
<1>5. CASE InPrefix(a, Words(0, 0, 0), 128, 16)
  BY <1>1, <1>4, <1>5 DEF is_unspecified
<1>6. CASE InPrefix(a, Words(65280, 0, 0), 8, 16)
  BY <1>2, <1>4, <1>6 DEF is_multicast
<1>7. CASE InPrefix(a, Words(8193, 3512, 0), 32, 16)
  BY <1>3, <1>4, <1>7 DEF is_documentation
<1> QED
  BY <1>5, <1>6, <1>7 DEF BarredBlocks6

\* The local IPv6 blocks: the loopback address, unique local and link local ones.
LEMMA Local6 ==
    ASSUME NEW a \in [1..8 -> Nat], \E b \in LocalBlocks6 : InPrefix(a, b[1], b[2], 16)
    PROVE  is_loopback(V6(a)) \/ is_unique_or_link_local(V6(a))
<1>1. V6(a).v = 6 /\ V6(a).a = a
  BY DEF V6
<1>2. CASE InPrefix(a, Words(0, 0, 1), 128, 16)
  <2>1. Words(0, 0, 1) \in [1..8 -> Nat] /\ Words(0, 0, 1)[8] = 1
        /\ \A i \in 1..7 : Words(0, 0, 1)[i] = 0
    BY DEF Words
  <2>2. \A i \in 1..8 : a[i] = Words(0, 0, 1)[i]
    BY <1>2, <2>1, Segments
  <2>3. a[1] = 0 /\ a[2] = 0 /\ a[3] = 0 /\ a[4] = 0 /\ a[5] = 0 /\ a[6] = 0 /\ a[7] = 0 /\ a[8] = 1
    BY <2>1, <2>2
  <2>4. a = <<a[1], a[2], a[3], a[4], a[5], a[6], a[7], a[8]>>
    OBVIOUS
  <2> QED
    BY <1>1, <2>3, <2>4 DEF is_loopback
<1>3. CASE InPrefix(a, Words(64512, 0, 0), 7, 16)
  <2>1. Words(64512, 0, 0) \in [1..8 -> Nat] /\ Words(64512, 0, 0)[1] \div 512 = 126
    BY DEF Words
  <2>2. a[1] \div 512 = Words(64512, 0, 0)[1] \div 512
    BY <1>3, <2>1, Segments
  <2> QED
    BY <1>1, <2>1, <2>2 DEF is_unique_or_link_local
<1>4. CASE InPrefix(a, Words(65152, 0, 0), 10, 16)
  <2>1. Words(65152, 0, 0) \in [1..8 -> Nat] /\ Words(65152, 0, 0)[1] \div 64 = 1018
    BY DEF Words
  <2>2. a[1] \div 64 = Words(65152, 0, 0)[1] \div 64
    BY <1>4, <2>1, Segments
  <2> QED
    BY <1>1, <2>1, <2>2 DEF is_unique_or_link_local
<1> QED
  BY <1>2, <1>3, <1>4 DEF LocalBlocks6

\* An address is of one of the two versions.
LEMMA Versions ==
    ASSUME NEW ip \in IPs
    PROVE  \/ ip.v = 6 /\ ip.a \in [1..8 -> Segment] /\ ip = V6(ip.a)
           \/ ip.v = 4 /\ ip.a \in [1..4 -> 0..255] /\ ip = V4(ip.a)
  BY DEF IPs, V4, V6

\* The IPv4 address in an IPv4-mapped one is an IPv4 address.
LEMMA MappedIsV4 ==
    ASSUME NEW ip \in IPs, is_mapped(ip)
    PROVE  to_ipv4(ip).a \in [1..4 -> 0..255] /\ to_ipv4(ip) = V4(to_ipv4(ip).a)
<1>1. ip.a[7] \in Segment /\ ip.a[8] \in Segment
  BY Versions DEF is_mapped
<1>2. ASSUME NEW x \in Segment PROVE x \div 256 \in 0..255 /\ x % 256 \in 0..255
  <2>1. x \in Nat /\ x <= 65535
    BY DEF Segment
  <2>2. x \div 256 \in Nat /\ x \div 256 <= 255
    BY <2>1
  <2>3. x % 256 \in 0..255
    BY <2>1
  <2> QED
    BY <2>2, <2>3
<1> DEFINE p == ip.a[7] \div 256
           q == ip.a[7] % 256
           r == ip.a[8] \div 256
           s == ip.a[8] % 256
<1>3. p \in 0..255 /\ q \in 0..255 /\ r \in 0..255 /\ s \in 0..255
  BY <1>1, <1>2
<1>4. to_ipv4(ip) = V4(<<p, q, r, s>>)
  BY DEF to_ipv4
<1> HIDE DEF p, q, r, s
<1> QED
  BY <1>3, <1>4 DEF V4

\* ProxyPolicy::validate_ip: an address it passes lies in no barred block, and in a
\* local one only if the policy opted in, for every address of either version.
THEOREM PolicyCoversBlocks ==
    ASSUME NEW ip \in IPs, NEW allowLocal \in BOOLEAN, proxy_allows(ip, allowLocal)
    PROVE  ~Barred(ip) /\ (Local(ip) => allowLocal)
<1>1. ~is_always_disallowed(ip) /\ (is_private_or_local(ip) => allowLocal)
  BY DEF proxy_allows
<1>2. CASE ip.v = 4
  <2>1. ip.a \in [1..4 -> 0..255] /\ ip = V4(ip.a) /\ Plain(ip) = ip
    BY <1>2, Versions DEF Plain, is_mapped
  <2>2. ~always_disallowed_v4(ip) /\ (private_or_local_v4(ip) => allowLocal)
    BY <1>1, <1>2 DEF is_always_disallowed, is_private_or_local
  <2>3. ~\E b \in BarredBlocks4 : InPrefix(ip.a, b[1], b[2], 8)
    BY <2>1, <2>2, Barred4
  <2>4. (\E b \in LocalBlocks4 : InPrefix(ip.a, b[1], b[2], 8)) => allowLocal
    BY <2>1, <2>2, Local4
  <2> QED
    BY <1>2, <2>1, <2>3, <2>4 DEF Barred, Local, InBlocks
<1>3. CASE ip.v = 6 /\ is_mapped(ip)
  <2> DEFINE in == to_ipv4(ip)
  <2>1. Plain(ip) = in
    BY <1>3 DEF Plain
  <2>2. ~always_disallowed_v4(in) /\ (private_or_local_v4(in) => allowLocal)
    BY <1>1, <1>3 DEF is_always_disallowed, is_private_or_local
  <2>3. in.a \in [1..4 -> 0..255] /\ in = V4(in.a)
    BY <1>3, MappedIsV4
  <2> HIDE DEF in
  <2>4. in.v = 4
    BY <2>3 DEF V4
  <2>5. ~\E b \in BarredBlocks4 : InPrefix(in.a, b[1], b[2], 8)
    BY <2>2, <2>3, Barred4
  <2>6. (\E b \in LocalBlocks4 : InPrefix(in.a, b[1], b[2], 8)) => allowLocal
    BY <2>2, <2>3, Local4
  <2> QED
    BY <2>1, <2>4, <2>5, <2>6 DEF Barred, Local, InBlocks
<1>4. CASE ip.v = 6 /\ ~is_mapped(ip)
  <2>1. Plain(ip) = ip /\ ip = V6(ip.a) /\ ip.a \in [1..8 -> Segment]
    BY <1>4, Versions DEF Plain
  <2>2. Segment \subseteq Nat
    BY DEF Segment
  <2>3. ip.a \in [1..8 -> Nat]
    BY <2>1, <2>2
  <2>4. /\ ~(is_unspecified(ip) \/ is_multicast(ip) \/ is_documentation(ip))
        /\ is_loopback(ip) \/ is_unique_or_link_local(ip) => allowLocal
    BY <1>1, <1>4 DEF is_always_disallowed, is_private_or_local
  <2>5. ~\E b \in BarredBlocks6 : InPrefix(ip.a, b[1], b[2], 16)
    BY <2>1, <2>3, <2>4, Barred6
  <2>6. (\E b \in LocalBlocks6 : InPrefix(ip.a, b[1], b[2], 16)) => allowLocal
    BY <2>1, <2>3, <2>4, Local6
  <2> QED
    BY <1>4, <2>1, <2>5, <2>6 DEF Barred, Local, InBlocks
<1> QED
  BY <1>2, <1>3, <1>4, Versions

---------------------------------------------------------------------------------
(* The proxy                                                                     *)

Active(r) == r.phase \notin {"idle", "ended"}

\* Where a stream stands fits its kind, and it is on an address it was given.
Placed(r) ==
    /\ r.phase = "idle" => r = Fresh
    /\ r.phase \in {"connecting", "upgrading", "open", "shut"} =>
           r.kind # "http" /\ r.next \in 1..Len(r.pins)
    /\ r.phase \in {"sending", "reading"} => r.kind = "http"

\* Every address kept from a lookup was checked.
Pinned(r) == \A i \in DOMAIN r.pins : validate_ip(r.pins[i])

\* The counters of a stream run ahead of the bytes that passed.
WithinBudget(r) ==
    /\ r.wrote <= MaxRequest /\ r.gave <= MaxResponse
    /\ r.kind = "http" => r.request_bytes <= MaxRequest
    /\ r.kind # "http" => r.wrote <= r.request_bytes /\ r.gave <= r.response_bytes

\* The chain of redirects so far.
ChainSafe(r) ==
    /\ ~policy.allow_insecure_redirects /\ is_secure(r.first.scheme) => is_secure(r.url.scheme)
    /\ ~policy.allow_cross_origin_redirects => target_key(r.url) = target_key(r.first)
    /\ r.auth = "Allowlisted" => target_key(r.url) \in policy.allowed_targets
    /\ r.redirects <= MaxRedirects

StreamSound(r) ==
    /\ r \in Stream /\ Placed(r) /\ Pinned(r) /\ WithinBudget(r)
    /\ Active(r) => ChainSafe(r)

ProxyInv ==
    /\ st \in [Streams -> Stream] /\ permits \in Nat /\ policy \in ProxyPolicy
    /\ \A s \in Streams : StreamSound(st[s])
    /\ IsFiniteSet(Holding) /\ PermitsAccounted

\* A stream that has not begun, or that is gone.
LEMMA RestSound == StreamSound(Fresh) /\ StreamSound(Gone)
<1>1. AnyUrl \in Urls
  BY ProxyAssumption DEF AnyUrl
<1>2. Fresh \in Stream
  <2>1. <<>> \in Seq(IPs)
    OBVIOUS
  <2> QED
    BY <1>1, <2>1 DEF Fresh, Stream, Phases, Kinds, Authorizations
<1>6. Gone \in Stream
  BY <1>2 DEF Gone, Stream, Phases
<1>3. /\ Gone.phase = "ended" /\ Gone.pins = <<>> /\ Gone.kind = "tcp"
      /\ Gone.wrote = 0 /\ Gone.gave = 0 /\ Gone.request_bytes = 0 /\ Gone.response_bytes = 0
  BY DEF Fresh, Gone
<1>4. /\ Fresh.phase = "idle" /\ Fresh.pins = <<>> /\ Fresh.kind = "tcp"
      /\ Fresh.wrote = 0 /\ Fresh.gave = 0 /\ Fresh.request_bytes = 0 /\ Fresh.response_bytes = 0
  BY DEF Fresh
<1>5. DOMAIN <<>> = {}
  OBVIOUS
<1> QED
  BY <1>2, <1>3, <1>4, <1>5, <1>6, ProxyAssumption
  DEF StreamSound, Placed, Pinned, WithinBudget, Active, validate_limits

\* All permits are there before the first call.
LEMMA ProxyStarts == ProxyInit => ProxyInv
<1> SUFFICES ASSUME ProxyInit PROVE ProxyInv
  OBVIOUS
<1>1. \A s \in Streams : st[s] = Fresh
  BY DEF ProxyInit
<1>2. Fresh.phase = "idle"
  BY DEF Fresh
<1>3. Holding = {}
  BY <1>1, <1>2 DEF Holding
<1>4. IsFiniteSet(Holding) /\ Cardinality(Holding) = 0
  BY <1>3, FS_EmptySet
<1>5. Fresh \in Stream
  BY RestSound DEF StreamSound
<1> QED
  BY <1>1, <1>4, <1>5, RestSound, ProxyAssumption
  DEF ProxyInit, ProxyInv, PermitsAccounted, validate_limits

\* One stream changes and the policy stays: the permit moves with the stream.
LEMMA StreamStep ==
    ASSUME ProxyInv, NEW s \in Streams, NEW r, StreamSound(r),
           st' = [st EXCEPT ![s] = r], UNCHANGED policy,
           \/ permits' = permits /\ (Active(r) <=> Active(st[s]))
           \/ permits' = permits - 1 /\ permits > 0 /\ ~Active(st[s]) /\ Active(r)
           \/ permits' = permits + 1 /\ Active(st[s]) /\ ~Active(r)
    PROVE  ProxyInv'
<1>1. st \in [Streams -> Stream] /\ r \in Stream
  BY DEF ProxyInv, StreamSound
<1>2. st' \in [Streams -> Stream] /\ st'[s] = r /\ \A b \in Streams \ {s} : st'[b] = st[b]
  BY <1>1
<1>3. \A q : StreamSound(q) => StreamSound(q)'
  BY DEF StreamSound, Placed, Pinned, validate_ip, WithinBudget, ChainSafe, Active
<1>4. \A b \in Streams : StreamSound(st[b])'
  <2> SUFFICES ASSUME NEW b \in Streams PROVE StreamSound(st[b])'
    OBVIOUS
  <2>1. \E q : q = st'[b] /\ StreamSound(q)'
    BY <1>2, <1>3 DEF ProxyInv
  <2> QED
    BY <2>1 DEF StreamSound, Placed, Pinned, validate_ip, WithinBudget, ChainSafe, Active
<1>5. /\ Active(r) <=> Active(st[s]) => Holding' = Holding
      /\ ~Active(st[s]) /\ Active(r) => s \notin Holding /\ Holding' = Holding \cup {s}
      /\ Active(st[s]) /\ ~Active(r) => s \in Holding /\ Holding' = Holding \ {s}
  BY <1>2 DEF Holding, Active
<1>6. IsFiniteSet(Holding) /\ Cardinality(Holding) \in Nat
  BY FS_CardinalityType DEF ProxyInv
<1>7. /\ s \notin Holding => /\ IsFiniteSet(Holding \cup {s})
                             /\ Cardinality(Holding \cup {s}) = Cardinality(Holding) + 1
      /\ s \in Holding => /\ IsFiniteSet(Holding \ {s})
                          /\ Cardinality(Holding \ {s}) = Cardinality(Holding) - 1
  BY <1>6, FS_AddElement, FS_RemoveElement
<1>8. IsFiniteSet(Holding') /\ permits' \in Nat /\ permits' + Cardinality(Holding') = MaxConcurrent
  <2>1. permits \in Nat /\ permits + Cardinality(Holding) = MaxConcurrent
    BY DEF ProxyInv, PermitsAccounted
  <2>2. CASE permits' = permits /\ (Active(r) <=> Active(st[s]))
    BY <1>5, <1>6, <2>1, <2>2
  <2>3. CASE permits' = permits - 1 /\ permits > 0 /\ ~Active(st[s]) /\ Active(r)
    <3>1. s \notin Holding /\ Holding' = Holding \cup {s}
      BY <1>5, <2>3
    <3>2. IsFiniteSet(Holding') /\ Cardinality(Holding') = Cardinality(Holding) + 1
      BY <1>7, <3>1
    <3> QED
      BY <1>6, <2>1, <2>3, <3>2
  <2>4. CASE permits' = permits + 1 /\ Active(st[s]) /\ ~Active(r)
    BY <1>5, <1>6, <1>7, <2>1, <2>4
  <2> QED
    BY <2>2, <2>3, <2>4
<1> QED
  BY <1>2, <1>4, <1>8 DEF ProxyInv, PermitsAccounted

\* Every way out of a call gives the permit back.
LEMMA EndedStep ==
    ASSUME ProxyInv, NEW s \in Streams, Active(st[s]), Ended(s)
    PROVE  ProxyInv'
<1>1. ~Active(Gone)
  BY DEF Gone, Fresh, Active
<1> QED
  BY <1>1, RestSound, StreamStep DEF Ended

\* open_tcp, open_websocket and request_http up to the lookup.
LEMMA OpenKeeps ==
    ASSUME ProxyInv, NEW s \in Streams, NEW kind \in Kinds, NEW u \in Urls,
           NEW auth \in Authorizations, NEW body \in Lengths, Open(s, kind, u, auth, body)
    PROVE  ProxyInv'
<1>1. st[s] = Fresh /\ st[s] \in Stream /\ ~Active(st[s])
  BY DEF Open, ProxyInv, StreamSound, Placed, Active
<1>2. CASE Refused(s)
  <2>1. ~Active(Gone)
    BY DEF Gone, Fresh, Active
  <2> QED
    BY <1>1, <1>2, <2>1, RestSound, StreamStep DEF Refused
<1>3. CASE ~Refused(s)
  <2> DEFINE bytes == IF kind = "http" THEN body ELSE 0
             r == [st[s] EXCEPT !.phase = "resolving", !.kind = kind, !.auth = auth, !.url = u,
                                !.first = u, !.request_bytes = bytes]
  <2>1. /\ permits > 0 /\ permits' = permits - 1 /\ UNCHANGED policy
        /\ request_fits(kind, body) /\ validate_target(u, auth)
        /\ st' = [st EXCEPT ![s] = r]
    BY <1>3 DEF Open
  <2>2. bytes \in Nat /\ (kind = "http" => bytes <= MaxRequest)
    BY <2>1, ProxyAssumption DEF request_fits, check_request_size
  <2> HIDE DEF bytes
  <2>3. r \in Stream
    BY <1>1, <2>2 DEF Stream, Phases
  <2>4. /\ r.phase = "resolving" /\ r.kind = kind /\ r.auth = auth /\ r.url = u /\ r.first = u
        /\ r.request_bytes = bytes /\ r.pins = Fresh.pins /\ r.redirects = Fresh.redirects
        /\ r.wrote = Fresh.wrote /\ r.gave = Fresh.gave /\ r.response_bytes = Fresh.response_bytes
    BY <1>1 DEF Stream
  <2> HIDE DEF r
  <2>5. /\ Fresh.pins = <<>> /\ Fresh.redirects = 0 /\ Fresh.wrote = 0 /\ Fresh.gave = 0
        /\ Fresh.response_bytes = 0 /\ DOMAIN <<>> = {}
    BY DEF Fresh
  <2>6. Placed(r) /\ Pinned(r) /\ Active(r)
    BY <2>4, <2>5 DEF Placed, Pinned, Active
  <2>7. WithinBudget(r)
    BY <2>2, <2>4, <2>5, ProxyAssumption DEF WithinBudget, validate_limits
  <2>8. ChainSafe(r)
    BY <2>1, <2>4, <2>5, ProxyAssumption DEF ChainSafe, validate_target, validate_limits
  <2> QED
    BY <1>1, <2>1, <2>3, <2>6, <2>7, <2>8, StreamStep DEF StreamSound
<1> QED
  BY <1>2, <1>3

\* An answer of the name server: all of it was checked, or the call ends.
LEMMA ResolvedKeeps ==
    ASSUME ProxyInv, NEW s \in Streams, NEW ips \in Lookups(st[s].url), Resolved(s, ips)
    PROVE  ProxyInv'
<1>1. st[s] \in Stream /\ StreamSound(st[s]) /\ st[s].phase = "resolving" /\ Active(st[s])
  BY DEF Resolved, ProxyInv, Active
<1>2. ips \in Seq(IPs)
  <2>1. Literal[target_key(st[s].url).host] \subseteq IPs
    BY <1>1, ProxyAssumption DEF target_key, Stream
  <2>2. \A ip \in IPs : <<ip>> \in Seq(IPs)
    OBVIOUS
  <2>3. <<>> \in Seq(IPs) /\ AnswerSets \subseteq Seq(IPs)
    BY ProxyAssumption
  <2> QED
    BY <2>1, <2>2, <2>3 DEF Lookups
<1>3. CASE Ended(s)
  BY <1>1, <1>3, EndedStep
<1>4. CASE ~Ended(s)
  <2> DEFINE sent == IF st[s].kind = "http" THEN st[s].request_bytes ELSE 0
             phase == IF st[s].kind = "http" THEN "sending" ELSE "connecting"
             r == [st[s] EXCEPT !.phase = phase, !.pins = ips, !.next = 1, !.wrote = sent]
  <2>1. /\ validate_resolved_target_for(ips) /\ UNCHANGED <<policy, permits>>
        /\ st' = [st EXCEPT ![s] = r]
    BY <1>4 DEF Resolved
  <2>2. sent \in Nat /\ (st[s].kind = "http" => sent = st[s].request_bytes)
        /\ (st[s].kind # "http" => sent = 0)
    BY <1>1 DEF Stream
  <2>3. phase \in {"sending", "connecting"} /\ (phase = "sending" <=> st[s].kind = "http")
    OBVIOUS
  <2> HIDE DEF sent, phase
  <2>4. r \in Stream
    BY <1>1, <1>2, <2>2, <2>3 DEF Stream, Phases
  <2>5. /\ r.phase = phase /\ r.kind = st[s].kind /\ r.auth = st[s].auth /\ r.url = st[s].url
        /\ r.first = st[s].first /\ r.request_bytes = st[s].request_bytes /\ r.pins = ips
        /\ r.next = 1 /\ r.redirects = st[s].redirects /\ r.wrote = sent
        /\ r.gave = st[s].gave /\ r.response_bytes = st[s].response_bytes
    BY <1>1 DEF Stream
  <2> HIDE DEF r
  <2>6. Len(ips) \in Nat /\ ips # <<>> => 1 \in 1..Len(ips)
    BY <1>2
  <2>7. Placed(r)
    BY <1>2, <2>1, <2>3, <2>5, <2>6 DEF Placed, validate_resolved_target_for
  <2>8. Pinned(r) /\ Active(r)
    BY <2>1, <2>3, <2>5 DEF Pinned, Active, validate_resolved_target_for
  <2>9. WithinBudget(r)
    BY <1>1, <2>2, <2>5, ProxyAssumption DEF StreamSound, WithinBudget, validate_limits, Stream
  <2>10. ChainSafe(r)
    BY <1>1, <2>5 DEF StreamSound, ChainSafe
  <2> QED
    BY <1>1, <2>1, <2>4, <2>7, <2>8, <2>9, <2>10, StreamStep DEF StreamSound
<1> QED
  BY <1>3, <1>4

\* A stream that goes on with the target and the addresses it has.
LEMMA GoesOn ==
    ASSUME ProxyInv, NEW s \in Streams, Active(st[s]), NEW r \in Stream,
           st' = [st EXCEPT ![s] = r], UNCHANGED <<policy, permits>>, Active(r),
           r.kind = st[s].kind, r.auth = st[s].auth, r.url = st[s].url, r.first = st[s].first,
           r.redirects = st[s].redirects, r.pins = st[s].pins,
           Placed(r), WithinBudget(r)
    PROVE  ProxyInv'
<1>1. StreamSound(st[s])
  BY DEF ProxyInv
<1>2. StreamSound(r)
  BY <1>1 DEF StreamSound, Pinned, ChainSafe
<1> QED
  BY <1>2, StreamStep

\* The loop over the addresses and the handshake after it.
LEMMA ConnectKeeps ==
    ASSUME ProxyInv, NEW s \in Streams, Connected(s) \/ ConnectFails(s) \/ Upgraded(s)
    PROVE  ProxyInv'
<1>1. st[s] \in Stream /\ StreamSound(st[s]) /\ st[s].phase \in {"connecting", "upgrading"}
      /\ Active(st[s])
  BY DEF Connected, ConnectFails, Upgraded, ProxyInv, Active
<1>2. CASE Ended(s)
  BY <1>1, <1>2, EndedStep
<1>3. CASE /\ UNCHANGED <<policy, permits>>
           /\ \E phase \in {"connecting", "upgrading", "open"}, next \in 1..Len(st[s].pins) :
                  st' = [st EXCEPT ![s] = [st[s] EXCEPT !.phase = phase, !.next = next]]
  <2>1. PICK phase \in {"connecting", "upgrading", "open"}, next \in 1..Len(st[s].pins) :
            st' = [st EXCEPT ![s] = [st[s] EXCEPT !.phase = phase, !.next = next]]
    BY <1>3
  <2> DEFINE r == [st[s] EXCEPT !.phase = phase, !.next = next]
  <2>6. st[s].pins \in Seq(IPs)
    BY <1>1 DEF Stream
  <2>7. next \in Nat
    BY <2>6
  <2>2. r \in Stream
    BY <1>1, <2>7 DEF Stream, Phases
  <2>3. /\ r.phase = phase /\ r.next = next /\ r.kind = st[s].kind /\ r.auth = st[s].auth
        /\ r.url = st[s].url /\ r.first = st[s].first /\ r.request_bytes = st[s].request_bytes
        /\ r.pins = st[s].pins /\ r.redirects = st[s].redirects /\ r.wrote = st[s].wrote
        /\ r.gave = st[s].gave /\ r.response_bytes = st[s].response_bytes
    BY <1>1 DEF Stream
  <2>4. st' = [st EXCEPT ![s] = r]
    BY <2>1
  <2> HIDE DEF r
  <2>5. Placed(r) /\ WithinBudget(r) /\ Active(r)
    BY <1>1, <2>3 DEF StreamSound, Placed, WithinBudget, Active
  <2> QED
    BY <1>1, <1>3, <2>2, <2>3, <2>4, <2>5, GoesOn
<1>4. st[s].next \in 1..Len(st[s].pins) /\ Len(st[s].pins) \in Nat
  BY <1>1 DEF StreamSound, Placed, Stream
<1>5. CASE Connected(s) \/ Upgraded(s)
  <2>1. PICK phase \in {"upgrading", "open"} : st' = [st EXCEPT ![s].phase = phase]
    BY <1>5 DEF Connected, Upgraded
  <2>2. st' = [st EXCEPT ![s] = [st[s] EXCEPT !.phase = phase, !.next = st[s].next]]
    BY <1>1, <2>1 DEF Stream
  <2>3. UNCHANGED <<policy, permits>>
    BY <1>5 DEF Connected, Upgraded
  <2> QED
    BY <1>3, <1>4, <2>2, <2>3
<1>6. CASE /\ st[s].next < Len(st[s].pins) /\ UNCHANGED <<policy, permits>>
           /\ st' = [st EXCEPT ![s].phase = "connecting", ![s].next = st[s].next + 1]
  <2>1. st[s].next + 1 \in 1..Len(st[s].pins)
    BY <1>4, <1>6
  <2>2. st' = [st EXCEPT ![s] = [st[s] EXCEPT !.phase = "connecting", !.next = st[s].next + 1]]
    BY <1>6
  <2> QED
    BY <1>3, <1>6, <2>1, <2>2
<1> QED
  BY <1>2, <1>5, <1>6 DEF ConnectFails

\* Frames of the peer and reads of the far end: the count is compared before a byte
\* passes, and the bytes that passed are among those counted.
LEMMA TransferKeeps ==
    ASSUME ProxyInv, NEW s \in Streams,
           \/ \E f \in Frame : HandleFin(s, f) \/ \E w \in 0..f.len : HandleData(s, f, w)
           \/ \E n \in Lengths : ReadFrame(s, n)
    PROVE  ProxyInv'
<1>1. st[s] \in Stream /\ StreamSound(st[s]) /\ st[s].phase \in {"open", "shut"}
      /\ Active(st[s])
  BY DEF HandleFin, HandleData, ReadFrame, ProxyInv, Active
<1>2. UNCHANGED <<policy, permits>>
  BY DEF HandleFin, HandleData, ReadFrame
<1>3. /\ st[s].kind # "http" /\ st[s].next \in 1..Len(st[s].pins)
      /\ st[s].wrote \in Nat /\ st[s].gave \in Nat
      /\ st[s].request_bytes \in Nat /\ st[s].response_bytes \in Nat
      /\ st[s].wrote <= MaxRequest /\ st[s].gave <= MaxResponse
      /\ st[s].wrote <= st[s].request_bytes /\ st[s].gave <= st[s].response_bytes
      /\ MaxRequest \in Nat /\ MaxResponse \in Nat
  BY <1>1, ProxyAssumption DEF StreamSound, Placed, WithinBudget, Stream, validate_limits
<1>4. ASSUME NEW phase \in {"open", "shut"}, NEW sent \in Nat, NEW wrote1 \in Nat, NEW got \in Nat,
             NEW gave1 \in Nat,
             st' = [st EXCEPT ![s] = [st[s] EXCEPT !.phase = phase, !.request_bytes = sent,
                                         !.wrote = wrote1, !.response_bytes = got, !.gave = gave1]],
             wrote1 <= MaxRequest, gave1 <= MaxResponse, wrote1 <= sent, gave1 <= got
      PROVE  ProxyInv'
  <2> DEFINE r == [st[s] EXCEPT !.phase = phase, !.request_bytes = sent, !.wrote = wrote1,
                                !.response_bytes = got, !.gave = gave1]
  <2>1. r \in Stream
    BY <1>1 DEF Stream, Phases
  <2>2. /\ r.phase = phase /\ r.next = st[s].next /\ r.kind = st[s].kind /\ r.auth = st[s].auth
        /\ r.url = st[s].url /\ r.first = st[s].first /\ r.request_bytes = sent
        /\ r.pins = st[s].pins /\ r.redirects = st[s].redirects /\ r.wrote = wrote1
        /\ r.gave = gave1 /\ r.response_bytes = got
    BY <1>1 DEF Stream
  <2>3. st' = [st EXCEPT ![s] = r]
    BY <1>4
  <2> HIDE DEF r
  <2>4. Placed(r) /\ WithinBudget(r) /\ Active(r)
    BY <1>3, <1>4, <2>2 DEF Placed, WithinBudget, Active
  <2> QED
    BY <1>1, <1>2, <2>1, <2>2, <2>3, <2>4, GoesOn
<1>5. CASE \E f \in Frame : HandleFin(s, f)
  <2>1. st' = [st EXCEPT ![s].phase = "shut"]
    BY <1>5 DEF HandleFin
  <2>2. st' = [st EXCEPT ![s] = [st[s] EXCEPT !.phase = "shut",
                                    !.request_bytes = st[s].request_bytes, !.wrote = st[s].wrote,
                                    !.response_bytes = st[s].response_bytes, !.gave = st[s].gave]]
    BY <1>1, <2>1 DEF Stream
  <2> QED
    BY <1>3, <1>4, <2>2
<1>6. CASE \E f \in Frame : \E w \in 0..f.len : HandleData(s, f, w)
  <2>1. PICK f \in Frame : \E w \in 0..f.len : HandleData(s, f, w)
    BY <1>6
  <2>2. PICK w \in 0..f.len : HandleData(s, f, w)
    BY <2>1
  <2> DEFINE sum == st[s].request_bytes + f.len
  <2>3. f.len \in Nat /\ w \in Nat /\ w <= f.len /\ sum \in Nat
    <3>1. f.len \in Lengths
      BY DEF Frame
    <3>2. f.len \in Nat
      BY <3>1, ProxyAssumption
    <3> QED
      BY <1>3, <3>2
  <2>4. /\ st[s].phase = "open"
        /\ st' = [st EXCEPT ![s].request_bytes = sum, ![s].wrote = st[s].wrote + w]
    BY <2>2 DEF HandleData
  <2>5. w = 0 \/ sum <= MaxRequest
    BY <2>2, <2>3 DEF HandleData, websocket_accepts, tcp_accepts, check_request_size
  <2>6. st[s].wrote + w \in Nat /\ st[s].wrote + w <= sum /\ st[s].wrote + w <= MaxRequest
    BY <1>3, <2>3, <2>5
  <2> HIDE DEF sum
  <2>7. st' = [st EXCEPT ![s] = [st[s] EXCEPT !.phase = "open",
                                    !.request_bytes = sum, !.wrote = st[s].wrote + w,
                                    !.response_bytes = st[s].response_bytes, !.gave = st[s].gave]]
    BY <1>1, <2>4 DEF Stream
  <2> QED
    BY <1>3, <1>4, <2>3, <2>6, <2>7
<1>7. CASE \E n \in Lengths : ReadFrame(s, n)
  <2>1. PICK n \in Lengths : ReadFrame(s, n)
    BY <1>7
  <2> DEFINE sum == st[s].response_bytes + n
             given == IF returns(st[s].kind, sum, n) THEN st[s].gave + n ELSE st[s].gave
  <2>2. n \in Nat /\ sum \in Nat
    BY <1>3, ProxyAssumption
  <2>3. st' = [st EXCEPT ![s].response_bytes = sum, ![s].gave = given]
    BY <2>1 DEF ReadFrame
  <2>4. given \in Nat /\ given <= sum /\ given <= MaxResponse
    <3>1. CASE returns(st[s].kind, sum, n)
      <4>1. sum <= MaxResponse /\ given = st[s].gave + n
        BY <3>1 DEF returns, check_response_size
      <4> QED
        BY <1>3, <2>2, <4>1
    <3>2. CASE ~returns(st[s].kind, sum, n)
      BY <1>3, <2>2, <3>2
    <3> QED
      BY <3>1, <3>2
  <2> HIDE DEF sum, given
  <2>5. st' = [st EXCEPT ![s] = [st[s] EXCEPT !.phase = st[s].phase,
                                    !.request_bytes = st[s].request_bytes, !.wrote = st[s].wrote,
                                    !.response_bytes = sum, !.gave = given]]
    BY <1>1, <2>3 DEF Stream
  <2> QED
    BY <1>1, <1>3, <1>4, <2>2, <2>4, <2>5
<1> QED
  BY <1>5, <1>6, <1>7

\* A redirect, the headers and the body of an answer.
LEMMA HttpKeeps ==
    ASSUME ProxyInv, NEW s \in Streams,
           \/ \E u \in Urls : Redirected(s, u)
           \/ \E n \in Lengths : Answered(s, n) \/ BodyChunk(s, n)
    PROVE  ProxyInv'
<1>1. st[s] \in Stream /\ StreamSound(st[s]) /\ st[s].phase \in {"sending", "reading"}
      /\ Active(st[s])
  BY DEF Redirected, Answered, BodyChunk, ProxyInv, Active
<1>2. /\ st[s].kind = "http" /\ st[s].gave \in Nat /\ st[s].redirects \in Nat
      /\ MaxResponse \in Nat /\ MaxRedirects \in Nat
  BY <1>1, ProxyAssumption DEF StreamSound, Placed, Stream, validate_limits
<1>3. CASE Ended(s)
  BY <1>1, <1>3, EndedStep
<1>4. ASSUME NEW u \in Urls, Redirected(s, u), ~Ended(s) PROVE ProxyInv'
  <2> DEFINE r == [st[s] EXCEPT !.phase = "resolving", !.url = u, !.pins = <<>>,
                                !.redirects = st[s].redirects + 1]
  <2>1. /\ validate_redirect(st[s].url, u, st[s].auth, st[s].redirects)
        /\ UNCHANGED <<policy, permits>> /\ st' = [st EXCEPT ![s] = r]
    BY <1>4 DEF Redirected
  <2>2. <<>> \in Seq(IPs) /\ st[s].redirects + 1 \in Nat /\ DOMAIN <<>> = {}
    BY <1>2
  <2>3. r \in Stream
    BY <1>1, <2>2 DEF Stream, Phases
  <2>4. /\ r.phase = "resolving" /\ r.kind = st[s].kind /\ r.auth = st[s].auth
        /\ r.url = u /\ r.first = st[s].first /\ r.request_bytes = st[s].request_bytes
        /\ r.pins = <<>> /\ r.redirects = st[s].redirects + 1 /\ r.wrote = st[s].wrote
        /\ r.gave = st[s].gave /\ r.response_bytes = st[s].response_bytes
    BY <1>1 DEF Stream
  <2> HIDE DEF r
  <2>5. Placed(r) /\ Pinned(r) /\ Active(r)
    BY <2>2, <2>4 DEF Placed, Pinned, Active
  <2>6. WithinBudget(r)
    BY <1>1, <2>4 DEF StreamSound, WithinBudget
  <2>7. ChainSafe(st[s])
    BY <1>1 DEF StreamSound
  <2>8. r.redirects <= MaxRedirects
    BY <1>2, <2>1, <2>4 DEF validate_redirect
  <2>9. ChainSafe(r)
    BY <2>1, <2>4, <2>7, <2>8 DEF ChainSafe, validate_redirect, validate_target
  <2> QED
    BY <1>1, <2>1, <2>3, <2>5, <2>6, <2>9, StreamStep DEF StreamSound
<1>5. ASSUME NEW phase \in {"sending", "reading"}, NEW given \in Nat, given <= MaxResponse,
             st' = [st EXCEPT ![s] = [st[s] EXCEPT !.phase = phase, !.gave = given]],
             UNCHANGED <<policy, permits>>
      PROVE  ProxyInv'
  <2> DEFINE r == [st[s] EXCEPT !.phase = phase, !.gave = given]
  <2>1. r \in Stream
    BY <1>1 DEF Stream, Phases
  <2>2. /\ r.phase = phase /\ r.kind = st[s].kind /\ r.auth = st[s].auth
        /\ r.url = st[s].url /\ r.first = st[s].first /\ r.request_bytes = st[s].request_bytes
        /\ r.pins = st[s].pins /\ r.redirects = st[s].redirects /\ r.wrote = st[s].wrote
        /\ r.gave = given
    BY <1>1 DEF Stream
  <2>3. st' = [st EXCEPT ![s] = r]
    BY <1>5
  <2> HIDE DEF r
  <2>4. Placed(r) /\ WithinBudget(r) /\ Active(r)
    BY <1>1, <1>2, <1>5, <2>2 DEF StreamSound, Placed, WithinBudget, Active
  <2> QED
    BY <1>1, <1>5, <2>1, <2>2, <2>3, <2>4, GoesOn
<1>6. ASSUME NEW n \in Lengths, Answered(s, n), ~Ended(s) PROVE ProxyInv'
  <2>1. st' = [st EXCEPT ![s].phase = "reading"] /\ UNCHANGED <<policy, permits>>
    BY <1>6 DEF Answered
  <2>2. st' = [st EXCEPT ![s] = [st[s] EXCEPT !.phase = "reading", !.gave = st[s].gave]]
    BY <1>1, <2>1 DEF Stream
  <2>3. st[s].gave <= MaxResponse
    BY <1>1 DEF StreamSound, WithinBudget
  <2> QED
    BY <1>2, <1>5, <2>1, <2>2, <2>3
<1>7. ASSUME NEW n \in Lengths, BodyChunk(s, n), ~Ended(s) PROVE ProxyInv'
  <2> DEFINE sum == st[s].gave + n
  <2>1. /\ st' = [st EXCEPT ![s].gave = sum] /\ UNCHANGED <<policy, permits>>
        /\ sum <= MaxResponse
    BY <1>7 DEF BodyChunk, check_response_size
  <2>2. n \in Nat
    BY ProxyAssumption
  <2>3. sum \in Nat
    BY <1>2, <2>2
  <2> HIDE DEF sum
  <2>4. st' = [st EXCEPT ![s] = [st[s] EXCEPT !.phase = st[s].phase, !.gave = sum]]
    BY <1>1, <2>1 DEF Stream
  <2> QED
    BY <1>1, <1>5, <2>1, <2>3, <2>4
<1> QED
  BY <1>3, <1>4, <1>6, <1>7

\* ProxyInv holds whatever the peers, the far ends and the name servers do, and
\* wherever a future is dropped.
LEMMA ProxyInvariant == ProxySpec => []ProxyInv
<1>1. ProxyInv /\ [ProxyNext]_proxyVars => ProxyInv'
  <2> SUFFICES ASSUME ProxyInv, [ProxyNext]_proxyVars PROVE ProxyInv'
    OBVIOUS
  <2>1. CASE ProxyNext
    <3>1. PICK s \in Streams :
              \/ \E kind \in Kinds, u \in Urls, auth \in Authorizations, body \in Lengths :
                     Open(s, kind, u, auth, body)
              \/ \E ips \in Lookups(st[s].url) : Resolved(s, ips)
              \/ Connected(s) \/ ConnectFails(s) \/ Upgraded(s)
              \/ \E f \in Frame : HandleFin(s, f) \/ \E w \in 0..f.len : HandleData(s, f, w)
              \/ \E n \in Lengths : ReadFrame(s, n)
              \/ \E u \in Urls : Redirected(s, u)
              \/ \E n \in Lengths : Answered(s, n) \/ BodyChunk(s, n)
              \/ Leave(s)
      BY <2>1 DEF ProxyNext
    <3>2. Leave(s) => ProxyInv'
      BY EndedStep DEF Leave, Active
    <3> QED
      BY <3>1, <3>2, OpenKeeps, ResolvedKeeps, ConnectKeeps, TransferKeeps, HttpKeeps
  <2>2. CASE UNCHANGED proxyVars
    BY <2>2 DEF proxyVars, ProxyInv, StreamSound, Placed, Pinned, validate_ip, WithinBudget,
                ChainSafe, Active, Holding, PermitsAccounted
  <2> QED
    BY <2>1, <2>2
<1> QED
  BY ProxyStarts, <1>1, PTL DEF ProxySpec

\* ProxyStreamService: permits are given back by every way out of a call.
THEOREM PermitsReturned == ProxySpec => []PermitsAccounted
<1>1. ProxyInv => PermitsAccounted
  BY DEF ProxyInv
<1> QED
  BY ProxyInvariant, <1>1, PTL

\* validate_redirect compares a target with the one before it only; the chain as a
\* whole still keeps its scheme, its origin, its authorisation and its length.
THEOREM ChainsStaySafe == ProxySpec => []RedirectsStaySafe
<1>1. ProxyInv => RedirectsStaySafe
  BY DEF ProxyInv, StreamSound, Active, ChainSafe, Holding, RedirectsStaySafe
<1> QED
  BY ProxyInvariant, <1>1, PTL

\* handle_frame, read_frame and request_http pass no byte beyond their limit.
THEOREM BudgetsHold == ProxySpec => []BudgetsKept
<1>1. ProxyInv => BudgetsKept
  BY DEF ProxyInv, StreamSound, WithinBudget, BudgetsKept
<1> QED
  BY ProxyInvariant, <1>1, PTL

\* resolve_and_validate and validate_retry: no TCP or WebSocket stream is connected, and
\* no HTTP client pinned, to an address of a special block, for every address, every
\* answer and every redirect.
THEOREM PinsStayApproved == ProxySpec => []PinsApproved
<1>1. ProxyInv => PinsApproved
  <2> SUFFICES ASSUME ProxyInv, NEW s \in Streams
               PROVE  /\ \A i \in DOMAIN st[s].pins : Approved(st[s].pins[i])
                      /\ st[s].phase \in {"upgrading", "open", "shut"} =>
                             st[s].next \in DOMAIN st[s].pins
    BY DEF PinsApproved
  <2>1. st[s] \in Stream /\ Placed(st[s]) /\ Pinned(st[s]) /\ policy \in ProxyPolicy
    BY DEF ProxyInv, StreamSound
  <2>2. policy.allow_local_targets \in BOOLEAN
    BY <2>1 DEF ProxyPolicy
  <2>3. st[s].pins \in Seq(IPs) /\ DOMAIN st[s].pins = 1..Len(st[s].pins)
    BY <2>1 DEF Stream
  <2>4. \A i \in DOMAIN st[s].pins : Approved(st[s].pins[i])
    <3> SUFFICES ASSUME NEW i \in DOMAIN st[s].pins PROVE Approved(st[s].pins[i])
      OBVIOUS
    <3>1. st[s].pins[i] \in IPs
      BY <2>3
    <3>2. proxy_allows(st[s].pins[i], policy.allow_local_targets)
      BY <2>1 DEF Pinned, validate_ip
    <3> QED
      BY <2>2, <3>1, <3>2, PolicyCoversBlocks DEF Approved
  <2> QED
    BY <2>1, <2>3, <2>4 DEF Placed
<1> QED
  BY ProxyInvariant, <1>1, PTL

---------------------------------------------------------------------------------
(* The web control surface                                                       *)

Shape ==
    /\ now \in Nat
    /\ sessions \in [Ids -> Records]
    /\ req \in [Requests -> [at : {"idle", "create", "close"},
                             id : Ids \cup {"none"}, read : Nat]]
    /\ sock \in [Sockets -> [at : {"none", "hello", "open", "closing", "done"},
                             id : Ids \cup {"none"}]]
    /\ drawn \subseteq Ids

(* The instant a request has read is not in the future.                    *)
ReadsThePast == \A r \in Requests : req[r].read <= now

(* Only ids that were drawn have a record, or a socket.                    *)
OnlyDrawn ==
    /\ \A id \in Ids : sessions[id].state # "Absent" => id \in drawn
    /\ \A k \in Sockets : sock[k].at # "none" => sock[k].id \in drawn
    /\ \A r \in Requests : req[r].at = "close" => req[r].id \in drawn

IInv == Shape /\ ReadsThePast /\ OnlyDrawn

(* What a step may do to the record of a session: it stays closed, and it  *)
(* does not become usable.                                                 *)
Advances(id) ==
    /\ sessions[id].state = "Closed" => sessions'[id].state = "Closed"
    /\ Usable(sessions'[id], now') => Usable(sessions[id], now)

(* close_session_record touches one record, and only one that is there.    *)
LEMMA CloseRecordKeeps ==
    ASSUME NEW table \in [Ids -> Records], NEW id \in Ids
    PROVE  /\ CloseRecord(table, id) \in [Ids -> Records]
           /\ \A j \in Ids :
                  /\ CloseRecord(table, id)[j].state \in {table[j].state, "Closed"}
                  /\ CloseRecord(table, id)[j].state = "Absent"
                         <=> table[j].state = "Absent"
           /\ ~ \E t \in Nat : Usable(CloseRecord(table, id)[id], t)
  BY DEF CloseRecord, Records, Usable

(* The clean-up of create_session drops only what had expired by then.     *)
LEMMA PurgedKeeps ==
    ASSUME NEW table \in [Ids -> Records], NEW t \in Nat
    PROVE  /\ Purged(table, t) \in [Ids -> Records]
           /\ \A j \in Ids :
                  \/ Purged(table, t)[j] = table[j]
                  \/ /\ Purged(table, t)[j] = Absent
                     /\ table[j].state # "Closed"
                     /\ table[j].expires_at <= t
  BY DEF Purged, Records, Absent

(* An empty table, before the first request.                               *)
LEMMA InvInit == Init => IInv
  BY DEF Init, IInv, Shape, ReadsThePast, OnlyDrawn, Absent, Records, Idle,
         NoSocket

(* Every step of a request or a socket task, and every tick of the clock,  *)
(* keeps the invariant.                                                    *)
LEMMA InvNext == IInv /\ [Next]_vars => IInv'
<1> SUFFICES ASSUME IInv, [Next]_vars
             PROVE  IInv'
  OBVIOUS
<1> USE WebConstants DEF IInv, Shape, ReadsThePast, OnlyDrawn
<1>1. CASE Tick
  BY <1>1 DEF Tick
<1>2. ASSUME NEW r \in Requests, CreateArrives(r)
      PROVE  IInv'
  BY <1>2 DEF CreateArrives
<1>3. ASSUME NEW r \in Requests, CreateServed(r)
      PROVE  IInv'
  <2> DEFINE t == req[r].read
             table == Purged(sessions, t)
  <2>1. /\ table \in [Ids -> Records]
        /\ \A j \in Ids : table[j].state # "Absent" => sessions[j].state # "Absent"
    <3>1. t \in Nat
      OBVIOUS
    <3>2. /\ table \in [Ids -> Records]
          /\ \A j \in Ids : table[j] = sessions[j] \/ table[j] = Absent
      BY <3>1, PurgedKeeps
    <3>3. Absent.state = "Absent"
      BY DEF Absent
    <3> HIDE DEF table
    <3> QED
      BY <3>2, <3>3
  <2>2. /\ req' = [req EXCEPT ![r] = Idle]
        /\ sock' = sock /\ now' = now
        /\ \/ /\ sessions' = table
              /\ drawn' = drawn
           \/ \E id \in Ids \ drawn :
                  /\ sessions' = [table EXCEPT ![id] =
                                     SessionRecord("Active", ExpiresAt(t))]
                  /\ drawn' = drawn \cup {id}
    BY <1>3 DEF CreateServed
  <2>3. SessionRecord("Active", ExpiresAt(t)) \in Records
    BY DEF SessionRecord, ExpiresAt, Records
  <2> HIDE DEF table, t
  <2> QED
    BY <2>1, <2>2, <2>3 DEF Idle
<1>4. ASSUME NEW r \in Requests, NEW id \in Ids, CloseArrives(r, id)
      PROVE  IInv'
  BY <1>4 DEF CloseArrives
<1>5. ASSUME NEW r \in Requests, CloseServed(r)
      PROVE  IInv'
  <2> DEFINE table == CloseRecord(sessions, req[r].id)
  <2>1. req[r].id \in Ids
    BY <1>5 DEF CloseServed
  <2>2. /\ table \in [Ids -> Records]
        /\ \A j \in Ids : table[j].state = "Absent" <=> sessions[j].state = "Absent"
    BY <2>1, CloseRecordKeeps
  <2>3. sessions' = table
    BY <1>5 DEF CloseServed
  <2> HIDE DEF table
  <2> QED
    BY <1>5, <2>2, <2>3 DEF CloseServed, Idle
<1>6. ASSUME NEW k \in Sockets, NEW id \in Ids, Upgrade(k, id)
      PROVE  IInv'
  BY <1>6 DEF Upgrade, Usable
<1>7. ASSUME NEW k \in Sockets, FirstMessage(k) \/ HelloTimeout(k) \/ LoopEnds(k)
      PROVE  IInv'
  BY <1>7 DEF FirstMessage, HelloTimeout, LoopEnds, Moves
<1>8. ASSUME NEW k \in Sockets, CloseMessage(k) \/ TaskEnds(k)
      PROVE  IInv'
  <2> DEFINE table == CloseRecord(sessions, sock[k].id)
  <2>1. sock[k].id \in Ids
    BY <1>8 DEF CloseMessage, TaskEnds
  <2>2. /\ table \in [Ids -> Records]
        /\ \A j \in Ids : table[j].state = "Absent" <=> sessions[j].state = "Absent"
    BY <2>1, CloseRecordKeeps
  <2>3. sessions' = table
    BY <1>8 DEF CloseMessage, TaskEnds
  <2>4. /\ sock' \in [Sockets -> [at : {"none", "hello", "open", "closing", "done"},
                                 id : Ids \cup {"none"}]]
        /\ \A j \in Sockets :
               /\ sock'[j].id = sock[j].id
               /\ sock[j].at = "none" => sock'[j].at = "none"
    BY <1>8 DEF CloseMessage, TaskEnds
  <2>5. now' = now /\ req' = req /\ drawn' = drawn
    BY <1>8 DEF CloseMessage, TaskEnds
  <2> HIDE DEF table
  <2> QED
    BY <2>2, <2>3, <2>4, <2>5
<1>9. CASE UNCHANGED vars
  BY <1>9 DEF vars
<1> QED
  BY <1>1, <1>2, <1>3, <1>4, <1>5, <1>6, <1>7, <1>8, <1>9 DEF Next

(* Every step advances the record of every session that was drawn.         *)
LEMMA StepAdvances ==
    ASSUME IInv, [Next]_vars, NEW id \in drawn
    PROVE  Advances(id)
<1> USE DEF IInv, Shape, Advances
<1>0. id \in Ids /\ sessions[id] \in Records
  OBVIOUS
<1>1. CASE Tick
  BY <1>0, <1>1 DEF Tick, Usable, Records
<1>2. ASSUME NEW r \in Requests, CreateServed(r)
      PROVE  Advances(id)
  <2> DEFINE t == req[r].read
             table == Purged(sessions, t)
  <2>1. /\ t \in Nat /\ t <= now
        /\ now' = now
        /\ sessions'[id] = table[id]
    <3>1. table \in [Ids -> Records]
      BY PurgedKeeps
    <3> QED
      BY <1>2, <3>1 DEF CreateServed, ReadsThePast
  <2>2. \/ table[id] = sessions[id]
        \/ /\ table[id] = Absent
           /\ sessions[id].state # "Closed"
    BY <1>0, PurgedKeeps
  <2> QED
    BY <1>0, <2>1, <2>2 DEF Usable, Absent
<1>3. ASSUME NEW j \in Ids, sessions' = CloseRecord(sessions, j), now' = now
      PROVE  Advances(id)
  BY <1>0, <1>3 DEF CloseRecord, Usable, Records
<1>4. ASSUME sessions' = sessions, now' = now
      PROVE  Advances(id)
  BY <1>4
<1>5. ASSUME NEW r \in Requests, CloseServed(r)
      PROVE  Advances(id)
  BY <1>3, <1>5 DEF CloseServed, OnlyDrawn
<1>6. ASSUME NEW k \in Sockets, CloseMessage(k) \/ TaskEnds(k)
      PROVE  Advances(id)
  BY <1>3, <1>6 DEF CloseMessage, TaskEnds, OnlyDrawn
<1>7. ASSUME NEW r \in Requests, NEW j \in Ids,
             CreateArrives(r) \/ CloseArrives(r, j)
      PROVE  Advances(id)
  BY <1>4, <1>7 DEF CreateArrives, CloseArrives
<1>8. ASSUME NEW k \in Sockets, NEW j \in Ids,
             \/ Upgrade(k, j) \/ FirstMessage(k)
             \/ HelloTimeout(k) \/ LoopEnds(k)
      PROVE  Advances(id)
  BY <1>4, <1>8 DEF Upgrade, FirstMessage, HelloTimeout, LoopEnds, Moves
<1>9. CASE UNCHANGED vars
  BY <1>4, <1>9 DEF vars
<1> QED
  BY <1>0, <1>1, <1>2, <1>5, <1>6, <1>7, <1>8, <1>9 DEF Next

(* What clients are told of a session never goes back: session_status and  *)
(* GET answer active, then expired, then closed, in this order, whatever   *)
(* create_session cleans up.                                               *)
THEOREM StatusAdvances == Spec => StatusOnlyAdvances
<1>1. ASSUME NEW id, Advances(id)
      PROVE  Rank(Status(sessions[id], now)) <= Rank(Status(sessions'[id], now'))
  BY <1>1 DEF Advances, Status, Rank, Usable
<1>2. IInv /\ [Next]_vars =>
        [\A id \in drawn : Rank(Status(sessions[id], now))
                              <= Rank(Status(sessions'[id], now'))]_vars
  BY <1>1, StepAdvances
<1> QED
  BY <1>2, InvInit, InvNext, PTL DEF Spec, StatusOnlyAdvances

(* Whichever way run_websocket ends, the session it was for cannot be used *)
(* after that, by another socket or after any request.                     *)
THEOREM SocketsEndSessions == Spec => []EndedSocketEndsSession
<1>1. Init => EndedSocketEndsSession
  BY DEF Init, EndedSocketEndsSession, NoSocket
<1>2. IInv /\ EndedSocketEndsSession /\ [Next]_vars => EndedSocketEndsSession'
  <2> SUFFICES ASSUME IInv, EndedSocketEndsSession, [Next]_vars,
                      NEW k \in Sockets, sock'[k].at = "done"
               PROVE  ~ Usable(sessions'[sock'[k].id], now')
    BY DEF EndedSocketEndsSession
  <2>1. CASE sock[k].at = "done"
    <3>1. sock'[k].id = sock[k].id
      BY <2>1 DEF Next, vars, Tick, CreateArrives, CreateServed, CloseArrives,
                  CloseServed, Upgrade, FirstMessage, HelloTimeout, LoopEnds,
                  Moves, CloseMessage, TaskEnds, IInv, Shape
    <3>2. sock[k].id \in drawn
      BY <2>1 DEF IInv, OnlyDrawn
    <3> QED
      BY <2>1, <3>1, <3>2, StepAdvances DEF Advances, EndedSocketEndsSession
  <2>2. CASE sock[k].at # "done"
    <3>1. /\ sessions' = CloseRecord(sessions, sock[k].id)
          /\ sock'[k].id = sock[k].id
          /\ now' = now
          /\ sock[k].at # "none"
      BY <2>2 DEF Next, vars, Tick, CreateArrives, CreateServed, CloseArrives,
                  CloseServed, Upgrade, FirstMessage, HelloTimeout, LoopEnds,
                  Moves, CloseMessage, TaskEnds, IInv, Shape
    <3>2. sock[k].id \in Ids
      BY <3>1 DEF IInv, OnlyDrawn, Shape
    <3> QED
      BY <3>1, <3>2, CloseRecordKeeps DEF IInv, Shape
  <2> QED
    BY <2>1, <2>2
<1> QED
  BY <1>1, <1>2, InvInit, InvNext, PTL DEF Spec

UsableAt(table, t) == {id \in Ids : Usable(table[id], t)}

(* No more than max_sessions sessions can be used at a time, for requests  *)
(* that waited for the lock for any time and were overtaken by any number  *)
(* of others.                                                              *)
THEOREM SessionsStayBounded == Spec => []SessionsBounded
<1> USE DEF UsableAt
<1>0. \A table, t : IsFiniteSet(UsableAt(table, t))
  BY WebConstants, FS_Subset
<1>1. Init => SessionsBounded
  <2> SUFFICES ASSUME Init PROVE SessionsBounded
    OBVIOUS
  <2>1. {id \in Ids : Usable(sessions[id], now)} = {}
    BY DEF Init, Usable, Absent
  <2> QED
    BY <2>1, FS_EmptySet, WebConstants DEF SessionsBounded
<1>2. IInv /\ SessionsBounded /\ [Next]_vars => SessionsBounded'
  <2> SUFFICES ASSUME IInv, SessionsBounded, [Next]_vars
               PROVE  SessionsBounded'
    OBVIOUS
  <2> DEFINE before == UsableAt(sessions, now)
             after  == UsableAt(sessions', now')
  <2>1. Cardinality(before) <= MaxSessions /\ Cardinality(before) \in Nat
    BY <1>0, FS_CardinalityType DEF SessionsBounded
  <2>2. ASSUME after \subseteq before
        PROVE  SessionsBounded'
    <3>1. Cardinality(after) <= Cardinality(before) /\ Cardinality(after) \in Nat
      BY <1>0, <2>2, FS_Subset, FS_CardinalityType
    <3> QED
      BY <2>1, <3>1, WebConstants DEF SessionsBounded
  <2>3. CASE drawn' = drawn
    <3>1. \A id \in Ids \ drawn : sessions'[id].state = "Absent"
      BY <2>3, InvNext DEF IInv, OnlyDrawn
    <3>2. after \subseteq before
      BY <3>1, StepAdvances DEF Advances, Usable
    <3> QED
      BY <2>2, <3>2
  <2>4. ASSUME NEW r \in Requests, CreateServed(r), drawn' # drawn
        PROVE  SessionsBounded'
    <3> DEFINE t == req[r].read
               table == Purged(sessions, t)
               counted == UsableAt(table, t)
    <3>1. t \in Nat /\ now \in Nat /\ t <= now /\ now' = now
      BY <2>4 DEF CreateServed, IInv, Shape, ReadsThePast
    <3>2. table \in [Ids -> Records]
      BY <3>1, PurgedKeeps DEF IInv, Shape
    <3>3. PICK id \in Ids \ drawn :
              sessions' = [table EXCEPT ![id] =
                              SessionRecord("Active", ExpiresAt(t))]
      BY <2>4 DEF CreateServed
    <3>4. Cardinality(counted) < MaxSessions
      BY <2>4 DEF CreateServed, RoomLeft
    <3> HIDE DEF table, t
    <3>5. after \subseteq counted \cup {id}
      BY <3>1, <3>2, <3>3 DEF Usable, Records
    <3>6. IsFiniteSet(counted)
      BY <1>0
    <3> HIDE DEF counted
    <3>7. /\ Cardinality(counted) \in Nat
          /\ IsFiniteSet(counted \cup {id})
          /\ Cardinality(counted \cup {id}) = Cardinality(counted)
                \/ Cardinality(counted \cup {id}) = Cardinality(counted) + 1
      BY <3>6, FS_AddElement, FS_CardinalityType
    <3>8. /\ IsFiniteSet(counted \cup {id})
          /\ Cardinality(counted \cup {id}) <= Cardinality(counted) + 1
          /\ Cardinality(counted) \in Nat
          /\ Cardinality(counted \cup {id}) \in Nat
      BY <3>7
    <3>9. Cardinality(after) <= Cardinality(counted \cup {id})
          /\ Cardinality(after) \in Nat
      BY <1>0, <3>5, <3>8, FS_Subset, FS_CardinalityType
    <3> QED
      BY <3>4, <3>8, <3>9, WebConstants DEF SessionsBounded
  <2>5. drawn' = drawn \/ \E r \in Requests : CreateServed(r)
    BY DEF Next, vars, Tick, CreateArrives, CloseArrives, CloseServed, Upgrade,
           FirstMessage, HelloTimeout, LoopEnds, Moves, CloseMessage, TaskEnds
  <2> QED
    BY <2>3, <2>4, <2>5
<1> QED
  BY <1>1, <1>2, InvInit, InvNext, PTL DEF Spec

-----------------------------------------------------------------------------
(* The rate of creations                                                   *)

Window(x) == x..x + RateWindow - 1

CreatedIn(x) == {i \in 1..Len(created) : created[i] \in Window(x)}

(* Requests that read the clock in the window and wait for the lock.       *)
WaitingFrom(x) == {r \in Requests : req[r].at = "create" /\ req[r].read \in Window(x)}

(* A window is held in full by creation_times, so every creation in it was *)
(* counted; or a request that read the clock after it has cleaned up, and  *)
(* what can still be added is bounded by the requests that wait.           *)
Counted(x) == CreatedIn(x) \subseteq times /\ Cardinality(CreatedIn(x)) <= MaxCreations

Overtaken(x) ==
    /\ now >= x + RateWindow
    /\ Cardinality(CreatedIn(x)) + Cardinality(WaitingFrom(x)) <= MaxCreations + Cardinality(Requests) - 1

Creations == created \in Seq(Nat) /\ times \subseteq 1..Len(created)

RateInv == Creations /\ \A x \in Nat : Counted(x) \/ Overtaken(x)

(* The sets that are counted are finite.                                   *)
LEMMA CountsFinite ==
    ASSUME Creations, NEW x
    PROVE  /\ IsFiniteSet(CreatedIn(x)) /\ Cardinality(CreatedIn(x)) \in Nat
           /\ IsFiniteSet(WaitingFrom(x)) /\ Cardinality(WaitingFrom(x)) \in Nat
           /\ IsFiniteSet(times) /\ IsFiniteSet(Requests) /\ Cardinality(Requests) \in Nat
<1>1. Len(created) \in Nat
  BY DEF Creations
<1>2. IsFiniteSet(1..Len(created))
  BY <1>1, FS_Interval
<1>3. IsFiniteSet(CreatedIn(x)) /\ IsFiniteSet(times)
  BY <1>2, FS_Subset DEF CreatedIn, Creations
<1>4. IsFiniteSet(WaitingFrom(x))
  BY WebConstants, FS_Subset DEF WaitingFrom
<1> QED
  BY <1>3, <1>4, WebConstants, FS_CardinalityType

(* Every step but the one that creates leaves the creations alone; only a  *)
(* request that arrives reads the clock, and it reads the present.         *)
LEMMA OtherStepsKeepRate ==
    ASSUME IInv, RateInv, [Next]_vars, UNCHANGED <<created, times>>,
           ~ \E r \in Requests : CreateServed(r)
    PROVE  RateInv'
<1>1. now' \in Nat /\ now \in Nat /\ now' >= now
  BY DEF IInv, Shape, Next, vars, Tick, CreateArrives, CreateServed, CloseArrives, CloseServed,
         Upgrade, FirstMessage, HelloTimeout, LoopEnds, Moves, CloseMessage, TaskEnds
<1>2. \A r \in Requests : req'[r].at = "create" => req'[r] = req[r] \/ req'[r].read = now
  BY DEF IInv, Shape, Next, vars, Tick, CreateArrives, CreateServed, CloseArrives, CloseServed,
         Upgrade, FirstMessage, HelloTimeout, LoopEnds, Moves, CloseMessage, TaskEnds, Idle
<1>3. Creations'
  BY DEF RateInv, Creations
<1>4. ASSUME NEW x \in Nat PROVE (Counted(x) \/ Overtaken(x))'
  <2>1. CreatedIn(x)' = CreatedIn(x)
    BY DEF CreatedIn
  <2>2. CASE Counted(x)
    BY <2>1, <2>2 DEF Counted
  <2>3. CASE Overtaken(x)
    <3>1. now \notin Window(x)
      BY <1>1, <2>3, WebConstants DEF Overtaken, Window
    <3>2. WaitingFrom(x)' \subseteq WaitingFrom(x)
      BY <1>2, <3>1 DEF WaitingFrom
    <3>3. /\ Cardinality(WaitingFrom(x)') <= Cardinality(WaitingFrom(x))
          /\ Cardinality(WaitingFrom(x)') \in Nat /\ Cardinality(WaitingFrom(x)) \in Nat
          /\ Cardinality(CreatedIn(x)) \in Nat /\ Cardinality(Requests) \in Nat
      BY <3>2, CountsFinite, FS_Subset, FS_CardinalityType DEF RateInv
    <3>4. Overtaken(x)'
      BY <1>1, <2>1, <2>3, <3>3, WebConstants DEF Overtaken
    <3> QED
      BY <3>4
  <2> QED
    BY <2>2, <2>3 DEF RateInv
<1> QED
  BY <1>3, <1>4 DEF RateInv

(* The creation, or the refusal, of a request that read the clock at t: a  *)
(* clean-up that takes something from a window comes after it, and then    *)
(* this request is not one of those that read the clock in it.             *)
LEMMA ServedKeepsRate ==
    ASSUME IInv, RateInv, NEW r \in Requests, CreateServed(r)
    PROVE  RateInv'
<1> DEFINE t == req[r].read
           calls == WithinWindow(times, t)
           n == Len(created)
           Made == created' = Append(created, t)
<1>1. /\ t \in Nat /\ now \in Nat /\ t <= now /\ now' = now
      /\ req[r].at = "create"
      /\ req' = [req EXCEPT ![r] = Idle]
  BY DEF CreateServed, IInv, Shape, ReadsThePast
<1>2. \/ /\ Made /\ times' = calls \cup {Len(created')} /\ Cardinality(calls) < MaxCreations
      \/ UNCHANGED created /\ times' = calls
  BY DEF CreateServed
<1>3. created \in Seq(Nat) /\ n \in Nat /\ times \subseteq 1..n
  BY DEF RateInv, Creations
<1>4. Made => /\ created' \in Seq(Nat) /\ Len(created') = n + 1
              /\ \A i \in 1..n : created'[i] = created[i]
              /\ created'[n + 1] = t
  BY <1>1, <1>3, AppendProperties
<1>5. calls \subseteq times
  BY DEF WithinWindow
<1>6. Creations'
  <2> HIDE DEF t, calls, n
  <2>1. n + 1 \in 1..n + 1 /\ 1..n \subseteq 1..n + 1
    BY <1>3
  <2> QED
    BY <1>2, <1>3, <1>4, <1>5, <2>1 DEF Creations, n
<1>7. ASSUME NEW x \in Nat PROVE (Counted(x) \/ Overtaken(x))'
  <2> DEFINE C == CreatedIn(x)
             D == CreatedIn(x)'
             W == WaitingFrom(x)
             V == WaitingFrom(x)'
  <2>1. /\ IsFiniteSet(C) /\ Cardinality(C) \in Nat
        /\ IsFiniteSet(W) /\ Cardinality(W) \in Nat
        /\ IsFiniteSet(times) /\ IsFiniteSet(Requests) /\ Cardinality(Requests) \in Nat
    BY CountsFinite DEF RateInv
  <2>2. /\ Made /\ t \in Window(x) => D = C \cup {n + 1} /\ n + 1 \notin C
        /\ ~(Made /\ t \in Window(x)) => D = C
    <3>1. CASE ~Made
      BY <1>2, <3>1 DEF CreatedIn
    <3>2. CASE Made
      <4>1. 1..n + 1 = 1..n \cup {n + 1} /\ n + 1 \notin 1..n
        BY <1>3
      <4>2. D = {i \in 1..n + 1 : created'[i] \in Window(x)}
        BY <1>4, <3>2 DEF CreatedIn, Window
      <4>3. C = {i \in 1..n : created[i] \in Window(x)}
        BY DEF CreatedIn
      <4> HIDE DEF t, n, C, D
      <4> QED
        BY <1>4, <3>2, <4>1, <4>2, <4>3
    <3> QED
      BY <3>1, <3>2
  <2>3. V = W \ {r}
    BY <1>1 DEF WaitingFrom, Window, IInv, Shape, Idle
  <2>4. r \in W <=> t \in Window(x)
    BY <1>1 DEF WaitingFrom
  <2>5. t \in Window(x) => t < x + RateWindow
    BY <1>1, WebConstants DEF Window
  <2>6. \A i \in C \ calls : i \in times => t >= x + RateWindow
    BY <1>1, <1>3, WebConstants DEF CreatedIn, Window, WithinWindow, Since
  <2>7. CASE Counted(x) /\ C \subseteq calls
    <3>1. CASE Made /\ t \in Window(x)
      <4>1. IsFiniteSet(calls) /\ Cardinality(calls) \in Nat /\ Cardinality(C) <= Cardinality(calls)
        BY <1>5, <2>1, <2>7, FS_Subset, FS_CardinalityType
      <4>2. D = C \cup {n + 1} /\ n + 1 \notin C
        BY <2>2, <3>1
      <4>3. Cardinality(D) = Cardinality(C) + 1
        BY <2>1, <4>2, FS_AddElement
      <4>4. Cardinality(calls) < MaxCreations /\ times' = calls \cup {n + 1}
        <5>1. created' # created
          BY <1>3, <1>4, <3>1
        <5> QED
          BY <1>2, <1>4, <3>1, <5>1
      <4>5. D \subseteq times' /\ Cardinality(D) <= MaxCreations
        <5> HIDE DEF calls, C, D, n
        <5> QED
          BY <2>1, <2>7, <4>1, <4>2, <4>3, <4>4, WebConstants
      <4> QED
        BY <4>5 DEF Counted
    <3>2. CASE ~(Made /\ t \in Window(x))
      <4>1. D \subseteq times' /\ Cardinality(D) <= MaxCreations
        BY <1>2, <2>2, <2>7, <3>2 DEF Counted
      <4> QED
        BY <4>1 DEF Counted
    <3> QED
      BY <3>1, <3>2
  <2>8. CASE Counted(x) /\ ~(C \subseteq calls)
    <3>1. t >= x + RateWindow
      BY <2>6, <2>8 DEF Counted
    <3>2. t \notin Window(x) /\ D = C
      BY <1>1, <2>2, <2>5, <3>1, WebConstants
    <3>3. V \subseteq Requests \ {r}
      BY <2>3 DEF WaitingFrom
    <3>4. Cardinality(Requests \ {r}) = Cardinality(Requests) - 1 /\ IsFiniteSet(Requests \ {r})
      BY <2>1, FS_RemoveElement
    <3>5. Cardinality(V) <= Cardinality(Requests) - 1 /\ Cardinality(V) \in Nat
      <4> HIDE DEF V
      <4> QED
        BY <3>3, <3>4, FS_Subset, FS_CardinalityType
    <3>6. Cardinality(C) <= MaxCreations
      BY <2>8 DEF Counted
    <3>7. Overtaken(x)'
      <4>1. Cardinality(D) + Cardinality(V) <= MaxCreations + Cardinality(Requests) - 1
        <5> HIDE DEF C, D, V
        <5> QED
          BY <2>1, <3>2, <3>5, <3>6, WebConstants
      <4>2. now' >= x + RateWindow
        BY <1>1, <3>1, WebConstants
      <4> QED
        BY <4>1, <4>2 DEF Overtaken
    <3> QED
      BY <3>7
  <2>9. CASE Overtaken(x)
    <3>1. Cardinality(C) + Cardinality(W) <= MaxCreations + Cardinality(Requests) - 1
          /\ now' >= x + RateWindow
      BY <1>1, <2>9 DEF Overtaken
    <3>2. Cardinality(V) = Cardinality(W) - (IF t \in Window(x) THEN 1 ELSE 0)
      <4>1. CASE r \in W
        <5> HIDE DEF V, W, t
        <5> QED
          BY <2>1, <2>3, <2>4, <4>1, FS_RemoveElement
      <4>2. CASE r \notin W
        <5>1. V = W
          BY <2>3, <4>2
        <5> HIDE DEF V, W, t
        <5> QED
          BY <2>1, <2>4, <4>2, <5>1
      <4> QED
        BY <4>1, <4>2
    <3>3. Cardinality(D) <= Cardinality(C) + (IF t \in Window(x) THEN 1 ELSE 0) /\ Cardinality(D) \in Nat
      <4>1. CASE Made /\ t \in Window(x)
        <5>1. Cardinality(D) = Cardinality(C) + 1
          BY <2>1, <2>2, <4>1, FS_AddElement
        <5> HIDE DEF C, D, t
        <5> QED
          BY <2>1, <4>1, <5>1
      <4>2. CASE ~(Made /\ t \in Window(x))
        <5>1. D = C
          BY <2>2, <4>2
        <5> HIDE DEF C, D, t
        <5> QED
          BY <2>1, <5>1
      <4> QED
        BY <4>1, <4>2
    <3>4. Cardinality(D) + Cardinality(V) <= MaxCreations + Cardinality(Requests) - 1
      <4> HIDE DEF C, D, V, W, t
      <4> QED
        BY <2>1, <3>1, <3>2, <3>3, WebConstants
    <3> QED
      BY <3>1, <3>4 DEF Overtaken
  <2> QED
    BY <2>7, <2>8, <2>9 DEF RateInv
<1> QED
  BY <1>6, <1>7 DEF RateInv

(* The rate limit of create_session holds in every window up to one        *)
(* request less than wait for the lock at a time, for any limits and any   *)
(* number of requests: each creation over max_session_creations is of a    *)
(* request that was overtaken by a later one.                              *)
THEOREM RateStaysBounded == Spec => []RateBounded
<1>1. Init => RateInv
  <2> SUFFICES ASSUME Init PROVE RateInv
    OBVIOUS
  <2>1. created = <<>> /\ times = {}
    BY DEF Init
  <2>2. Creations
    BY <2>1 DEF Creations
  <2>3. \A x \in Nat : CreatedIn(x) = {}
    BY <2>1 DEF CreatedIn
  <2>4. \A x \in Nat : Counted(x)
    BY <2>1, <2>3, FS_EmptySet, WebConstants DEF Counted
  <2> QED
    BY <2>2, <2>4 DEF RateInv
<1>2. IInv /\ RateInv /\ [Next]_vars => RateInv'
  <2> SUFFICES ASSUME IInv, RateInv, [Next]_vars PROVE RateInv'
    OBVIOUS
  <2>1. (\E r \in Requests : CreateServed(r)) \/ UNCHANGED <<created, times>>
    BY DEF Next, vars, Tick, CreateArrives, CloseArrives, CloseServed, Upgrade,
           FirstMessage, HelloTimeout, LoopEnds, Moves, CloseMessage, TaskEnds
  <2> QED
    BY <2>1, OtherStepsKeepRate, ServedKeepsRate
<1>3. IInv /\ RateInv => RateBounded
  <2> SUFFICES ASSUME IInv, RateInv, NEW x \in 0..now
               PROVE  Cardinality(CreatedIn(x)) <= MaxCreations + Cardinality(Requests) - 1
    BY DEF RateBounded, CreatedIn, Window
  <2>1. x \in Nat /\ Cardinality(CreatedIn(x)) \in Nat
        /\ Cardinality(WaitingFrom(x)) \in Nat /\ Cardinality(Requests) \in Nat
    BY CountsFinite DEF IInv, Shape, RateInv
  <2>2. Cardinality(Requests) # 0
    BY WebConstants, FS_EmptySet
  <2> QED
    BY <2>1, <2>2, WebConstants DEF RateInv, Counted, Overtaken
<1> QED
  BY <1>1, <1>2, <1>3, InvInit, InvNext, PTL DEF Spec
=================================================================================
