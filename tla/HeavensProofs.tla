---------------------------- MODULE HeavensProofs ----------------------------
(***************************************************************************)
(* The types of Heavens, what a caller is told, and that the copy of the   *)
(* trampoline is faithful, for every trampoline, every place of the        *)
(* buffers and every offset of errno find_libc accepts.                    *)
(*                                                                         *)
(* The argument for the copy: what decompile_copy reads at the position of *)
(* an instruction is what the processor reads there (OpcodeRead,           *)
(* OperandRead), so that a turn of its loop copies that instruction, moved *)
(* (CopyIs), and ends where the next one begins (Reads).                   *)
(***************************************************************************)
EXTENDS Heavens, SelectionProofs, TLAPS

-----------------------------------------------------------------------------
(* The bytes of a trampoline.                                              *)

LEMMA Appended ==
  ASSUME NEW b \in Seq(Byte), NEW c \in Seq(Byte)
  PROVE  b \o c \in Seq(Byte) /\ Len(b \o c) = Len(b) + Len(c)
  OBVIOUS

LEMMA Bytes4Type ==
  ASSUME NEW n \in Int
  PROVE  Bytes4(n) \in Seq(Byte) /\ Len(Bytes4(n)) = 4
<1>1. \A i \in Int : i % 256 \in Byte
  BY DEF Byte
<1>2. n \div 256 \in Int /\ n \div 65536 \in Int /\ n \div 16777216 \in Int
  OBVIOUS
<1> QED BY <1>1, <1>2 DEF Bytes4

LEMMA EncodedType ==
  ASSUME NEW i \in Instruction
  PROVE  Encoded(i) \in Seq(Byte)
<1>1. i.rex \in Seq(Byte) /\ i.opcode \in Seq(Byte) /\ i.operand \in Seq(Byte) /\ i.imm \in Seq(Byte)
  BY DEF Instruction
<1>2. Displacement(i) \in Seq(Byte)
  <2>1. i.value \in Int
    BY DEF Instruction
  <2> QED BY <2>1, Bytes4Type DEF Displacement
<1> DEFINE d == Displacement(i)
<1> HIDE DEF d
<1>3. i.rex \o i.opcode \o i.operand \o d \o i.imm \in Seq(Byte)
  BY <1>1, <1>2, Appended DEF d
<1> QED BY <1>3 DEF Encoded, d

(* The bytes of a trampoline, one instruction after the other.             *)
LEMMA CodeUpToIs ==
  ASSUME NEW is \in Seq(Instruction)
  PROVE  /\ CodeUpTo(is) \in [0 .. Len(is) -> Seq(Byte)]
         /\ CodeUpTo(is)[0] = <<>>
         /\ \A n \in 1 .. Len(is) : CodeUpTo(is)[n] = CodeUpTo(is)[n - 1] \o Encoded(is[n])
<1> DEFINE N == Len(is)
           E == [k \in 1 .. N |-> Encoded(is[k])]
           F == [x \in (1 .. N) \X Seq(Byte) |-> x[2] \o E[x[1]]]
           Then(t, n) == t \o Encoded(is[n])
           Loop(g) == [n \in 0 .. N |-> IF n = 0 THEN <<>> ELSE Then(g[n - 1], n)]
           f == CodeUpTo(is)
<1>1. N \in Nat /\ \A k \in 1 .. N : E[k] = Encoded(is[k]) /\ E[k] \in Seq(Byte)
  BY EncodedType
<1>2. F \in [(1 .. N) \X Seq(Byte) -> Seq(Byte)]
  <2> HIDE DEF E, N
  <2>1. ASSUME NEW k \in 1 .. N, NEW t \in Seq(Byte) PROVE t \o E[k] \in Seq(Byte)
    BY <1>1, Appended
  <2> QED BY <2>1
<1>3. PICK g \in [0 .. N -> Seq(Byte)] : g[0] = <<>> /\ \A k \in 1 .. N : g[k] = F[<<k, g[k - 1]>>]
  <2> HIDE DEF F, N
  <2>1. <<>> \in Seq(Byte)
    OBVIOUS
  <2>2. Iterations(Seq(Byte), <<>>, N, F) # {}
    BY <1>1, <1>2, <2>1, LoopRuns
  <2> QED BY <2>2 DEF Iterations
<1>4. g = Loop(g)
  <2>1. ASSUME NEW k \in 1 .. N PROVE g[k] = g[k - 1] \o Encoded(is[k])
    <3>1. g[k - 1] \in Seq(Byte) /\ k - 1 \in 0 .. N
      OBVIOUS
    <3>2. F[<<k, g[k - 1]>>] = g[k - 1] \o E[k]
      <4> HIDE DEF E, N
      <4> QED BY <3>1
    <3> HIDE DEF F, E
    <3> QED BY <1>1, <1>3, <3>2
  <2>3. \A k \in 1 .. N : g[k] = Then(g[k - 1], k)
    BY <2>1
  <2> HIDE DEF N, F, Then
  <2>2. \A k \in 0 .. N : g[k] = Loop(g)[k]
    BY <1>1, <1>3, <2>3
  <2> QED BY <2>2
<1>5. f = CHOOSE h : h = Loop(h)
  BY DEF CodeUpTo
<1>6. f = Loop(f)
  <2> HIDE DEF Loop, f
  <2> QED BY <1>4, <1>5
<1> HIDE DEF f, N, E, F
<1>7. f[0] = <<>> /\ \A k \in 1 .. N : f[k] = f[k - 1] \o Encoded(is[k])
  <2> SUFFICES f[0] = <<>> /\ \A k \in 1 .. N : f[k] = Then(f[k - 1], k)
    OBVIOUS
  <2> HIDE DEF Then
  <2>1. Loop(f)[0] = <<>> /\ \A k \in 1 .. N : Loop(f)[k] = Then(f[k - 1], k)
    BY <1>1
  <2> HIDE DEF Loop
  <2> QED BY <1>6, <2>1
<1> DEFINE S == {n \in Nat : f[n] \in Seq(Byte)}
<1>8. 0 .. N \subseteq S
  <2>1. 0 \in S
    <3>1. <<>> \in Seq(Byte)
      OBVIOUS
    <3> QED BY <1>7, <3>1
  <2>2. ASSUME NEW n \in 1 .. N, n - 1 \in S PROVE n \in S
    <3>1. f[n - 1] \in Seq(Byte) /\ E[n] \in Seq(Byte) /\ f[n] = f[n - 1] \o E[n]
      BY <1>1, <1>7, <2>2
    <3>2. f[n] \in Seq(Byte) /\ n \in Nat
      BY <1>1, <3>1, Appended
    <3> QED BY <3>2
  <2> HIDE DEF S
  <2> QED BY <1>1, <2>1, <2>2, UpToInduct
<1>9. f \in [0 .. N -> Seq(Byte)]
  BY <1>6, <1>8
<1> QED BY <1>7, <1>9 DEF f, N

LEMMA TwoParts ==
  ASSUME NEW b \in Seq(Byte), NEW c \in Seq(Byte)
  PROVE  /\ b \o c \in Seq(Byte) /\ Len(b \o c) = Len(b) + Len(c)
         /\ \A j \in 1 .. Len(b) : (b \o c)[j] = b[j]
         /\ \A j \in 1 .. Len(c) : (b \o c)[Len(b) + j] = c[j]
  OBVIOUS

(* The bytes of an instruction stay where they are, whatever follows.      *)
LEMMA CodeAfter ==
  ASSUME NEW is \in Seq(Instruction), NEW k \in 1 .. Len(is)
  PROVE  /\ Len(CodeUpTo(is)[k - 1]) \in Nat
         /\ Len(Encoded(is[k])) \in Nat
         /\ Len(CodeUpTo(is)[k]) = Len(CodeUpTo(is)[k - 1]) + Len(Encoded(is[k]))
         /\ Len(CodeUpTo(is)[k]) <= Len(Code(is))
         /\ \A j \in 1 .. Len(Encoded(is[k])) :
              Code(is)[Len(CodeUpTo(is)[k - 1]) + j] = Encoded(is[k])[j]
<1> DEFINE N == Len(is)
           f == CodeUpTo(is)
           e == Encoded(is[k])
           P == Len(f[k - 1])
           Has(n) == Len(f[k]) <= Len(f[n]) /\ \A j \in 1 .. Len(e) : f[n][P + j] = e[j]
           S == {m \in Nat : Has(k + m)}
<1>1. N \in Nat /\ k \in 1 .. N
  OBVIOUS
<1>2. \A n \in 1 .. N : Encoded(is[n]) \in Seq(Byte)
  BY EncodedType
<1>3. f \in [0 .. N -> Seq(Byte)] /\ \A n \in 1 .. N : f[n] = f[n - 1] \o Encoded(is[n])
  BY CodeUpToIs
<1>4. Code(is) = f[N]
  BY DEF Code
<1>5. e \in Seq(Byte)
  BY <1>2
<1> DEFINE c == [n \in 1 .. N |-> Encoded(is[n])]
<1>6. \A n \in 1 .. N : c[n] \in Seq(Byte) /\ f[n] = f[n - 1] \o c[n]
  BY <1>2, <1>3
<1>7. c[k] = e
  OBVIOUS
<1> HIDE DEF N, f, e, c
<1>8. \A n \in 1 .. N : /\ f[n - 1] \in Seq(Byte) /\ f[n] \in Seq(Byte)
                        /\ Len(f[n - 1]) \in Nat /\ Len(c[n]) \in Nat
                        /\ Len(f[n]) = Len(f[n - 1]) + Len(c[n])
  <2> TAKE n \in 1 .. N
  <2>1. f[n - 1] \in Seq(Byte) /\ f[n] \in Seq(Byte) /\ c[n] \in Seq(Byte) /\ f[n] = f[n - 1] \o c[n]
    <3>1. n \in 0 .. N /\ n - 1 \in 0 .. N
      BY <1>1
    <3> QED BY <1>3, <1>6, <3>1
  <2> QED BY <2>1, Appended
<1>9. P \in Nat /\ Len(e) \in Nat /\ Len(f[k]) = P + Len(e)
  BY <1>1, <1>5, <1>7, <1>8
<1>10. 0 .. (N - k) \subseteq S
  <2>1. 0 \in S
    <3>1. f[k] = f[k - 1] \o e /\ f[k - 1] \in Seq(Byte) /\ e \in Seq(Byte)
      BY <1>1, <1>6, <1>7, <1>8
    <3>2. \A j \in 1 .. Len(e) : f[k][Len(f[k - 1]) + j] = e[j]
      BY <3>1, TwoParts
    <3>3. Has(k) /\ k + 0 = k
      BY <1>1, <1>9, <3>2
    <3> HIDE DEF Has
    <3> QED BY <3>3
  <2>2. ASSUME NEW m \in 1 .. (N - k), m - 1 \in S PROVE m \in S
    <3> DEFINE n == k + m
    <3>1. n \in 1 .. N /\ n - 1 = k + (m - 1)
      BY <1>1
    <3>2. Has(n - 1)
      BY <2>2, <3>1
    <3> HIDE DEF n
    <3>3. f[n - 1] \in Seq(Byte) /\ c[n] \in Seq(Byte) /\ f[n] = f[n - 1] \o c[n]
      BY <1>6, <1>8, <3>1
    <3>4. \A j \in 1 .. Len(f[n - 1]) : f[n][j] = f[n - 1][j]
      <4> DEFINE a == f[n - 1]
      <4>1. a \in Seq(Byte) /\ c[n] \in Seq(Byte) /\ f[n] = a \o c[n]
        BY <3>3
      <4> HIDE DEF a
      <4>2. \A j \in 1 .. Len(a) : (a \o c[n])[j] = a[j]
        BY <4>1, TwoParts
      <4> QED BY <4>1, <4>2 DEF a
    <3>5. ASSUME NEW j \in 1 .. Len(e) PROVE f[n][P + j] = e[j]
      <4>1. Len(f[n - 1]) \in Nat /\ Len(f[k]) <= Len(f[n - 1])
        BY <1>8, <3>1, <3>2
      <4>2. P + j \in 1 .. Len(f[n - 1])
        <5> HIDE DEF P
        <5> QED BY <1>9, <4>1
      <4> QED BY <3>2, <3>4, <4>2
    <3>6. Len(f[k]) <= Len(f[n])
      <4>1. Len(f[n - 1]) \in Nat /\ Len(c[n]) \in Nat /\ Len(f[n]) = Len(f[n - 1]) + Len(c[n])
        BY <1>8, <3>1
      <4>2. Len(f[k]) <= Len(f[n - 1]) /\ Len(f[k]) \in Nat
        BY <1>1, <1>8, <3>2
      <4>3. \A u, v, w, x \in Nat : u <= v /\ w = v + x => u <= w
        OBVIOUS
      <4>4. Len(f[n]) \in Nat
        BY <1>8, <3>1
      <4> QED BY ONLY <4>1, <4>2, <4>3, <4>4
    <3>7. Has(n)
      BY <3>5, <3>6
    <3> HIDE DEF Has
    <3> QED BY <3>7 DEF n
  <2> HIDE DEF S
  <2>3. N - k \in Nat
    BY <1>1
  <2> QED BY <2>1, <2>2, <2>3, UpToInduct
<1>11. Has(N)
  <2>1. N - k \in 0 .. (N - k) /\ k + (N - k) = N
    BY <1>1
  <2> HIDE DEF Has
  <2> QED BY <1>10, <2>1
<1> QED BY <1>4, <1>9, <1>11 DEF f, e

LEMMA CodeType ==
  ASSUME program \in Programs
  PROVE  program \in Seq(Instruction) /\ Code(program) \in Seq(Byte)
<1>1. program \in Seq(Instruction)
  BY ProgramsAssumption
<1>2. Len(program) \in 0 .. Len(program)
  BY <1>1
<1> QED BY <1>1, <1>2, CodeUpToIs DEF Code

-----------------------------------------------------------------------------
(* What decompile_copy makes of the bytes from a position on.              *)

LEMMA AtByte ==
  ASSUME program \in Programs, NEW k \in Nat \ {0}
  PROVE  At(k) \in Byte
<1>1. Code(program) \in Seq(Byte)
  BY CodeType
<1>2. CASE k <= Len(Code(program))
  <2>1. Code(program)[k] \in Byte
    BY <1>1, <1>2
  <2> QED BY <2>1, <1>2 DEF At
<1>3. CASE ~(k <= Len(Code(program)))
  BY <1>3 DEF At, Nop, Byte
<1> QED BY <1>2, <1>3

LEMMA SequenceOfBytes ==
  ASSUME NEW n \in Nat, NEW f \in [1 .. n -> Byte]
  PROVE  f \in Seq(Byte) /\ Len(f) = n
  OBVIOUS

LEMMA SliceType ==
  ASSUME program \in Programs, NEW from \in Nat \ {0}, NEW to \in Int, to >= from - 1
  PROVE  /\ Slice(from, to) \in Seq(Byte)
         /\ Len(Slice(from, to)) = to + 1 - from
         /\ Slice(from, to) \in [1 .. (to + 1 - from) -> Byte]
<1> DEFINE n == to + 1 - from
<1>1. n \in Nat
  OBVIOUS
<1>2. \A j \in 1 .. n : At(from + j - 1) \in Byte
  <2> TAKE j \in 1 .. n
  <2>1. from + j - 1 \in Nat \ {0}
    OBVIOUS
  <2> QED BY <2>1, AtByte
<1>3. Slice(from, to) = [j \in 1 .. n |-> At(from + j - 1)]
  BY DEF Slice
<1>4. [j \in 1 .. n |-> At(from + j - 1)] \in [1 .. n -> Byte]
  BY <1>2
<1>5. Slice(from, to) \in [1 .. n -> Byte]
  BY <1>3, <1>4
<1> HIDE DEF n
<1>6. Slice(from, to) \in Seq(Byte) /\ Len(Slice(from, to)) = n
  BY <1>1, <1>5, SequenceOfBytes
<1> QED BY <1>5, <1>6 DEF n

LEMMA Signed4Type ==
  ASSUME NEW b \in [1 .. 4 -> Byte]
  PROVE  Signed4(b) \in Int
<1>1. 1 \in 1 .. 4 /\ 2 \in 1 .. 4 /\ 3 \in 1 .. 4 /\ 4 \in 1 .. 4
  OBVIOUS
<1>2. \A i \in 1 .. 4 : b[i] \in Int
  BY DEF Byte
<1>3. \A w, x, y, z \in Int :
        w + 256 * x + 65536 * y + 16777216 * (IF z < 128 THEN z ELSE z - 256) \in Int
  OBVIOUS
<1> QED BY <1>1, <1>2, <1>3 DEF Signed4

(* Where the parts of an instruction begin: it has at most ten bytes.      *)
LEMMA Parts ==
  ASSUME NEW k \in Nat \ {0}
  PROVE  /\ OpAt(k) \in k .. (k + 1)
         /\ ModrmAt(k) \in (k + 1) .. (k + 3)
         /\ DispAt(k) \in (k + 1) .. (k + 5)
         /\ DispSize(k) \in 0 .. 4
         /\ ImmSize(k) \in 0 .. 1
         /\ End(k) \in (DispAt(k) + DispSize(k) - 1) .. (k + 9)
<1>1. OpAt(k) \in k .. (k + 1)
  BY DEF OpAt
<1>2. ModrmAt(k) \in (k + 1) .. (k + 3)
  BY <1>1 DEF ModrmAt
<1>3. DispAt(k) \in (k + 1) .. (k + 5)
  BY <1>2 DEF DispAt
<1>4. DispSize(k) \in 0 .. 4
  BY DEF DispSize
<1>5. ImmSize(k) \in 0 .. 1
  BY DEF ImmSize
<1>6. End(k) = DispAt(k) + DispSize(k) + ImmSize(k) - 1
  BY DEF End
<1> HIDE DEF OpAt, ModrmAt, DispAt, DispSize, ImmSize, End
<1>7. End(k) \in (DispAt(k) + DispSize(k) - 1) .. (k + 9)
  BY <1>3, <1>4, <1>5, <1>6
<1> QED BY <1>1, <1>2, <1>3, <1>4, <1>5, <1>7

LEMMA CopiedDispType ==
  ASSUME program \in Programs, NEW k \in Nat \ {0}
  PROVE  CopiedDisp(k) \in Seq(Byte) /\ Len(CopiedDisp(k)) = DispSize(k)
<1>1. DispAt(k) \in Nat \ {0} /\ DispSize(k) \in 0 .. 4
  BY Parts
<1>2. CASE IsCall(k)
  <2>1. CopiedDisp(k) = Bytes4(CoreAddr - (OutAddr + DispAt(k) - 1) - 4)
    BY <1>2 DEF CopiedDisp
  <2>2. CoreAddr - (OutAddr + DispAt(k) - 1) - 4 \in Int
    BY <1>1, AddressAssumption
  <2>3. DispSize(k) = 4
    BY <1>2 DEF DispSize
  <2> QED BY <2>1, <2>2, <2>3, Bytes4Type
<1>3. CASE ~IsCall(k) /\ IsRip(k)
  <2> DEFINE old == Slice(DispAt(k), DispAt(k) + 3)
  <2>1. old \in [1 .. 4 -> Byte]
    <3>1. DispAt(k) + 3 \in Int /\ DispAt(k) + 3 >= DispAt(k) - 1
      BY <1>1
    <3>2. DispAt(k) + 3 + 1 - DispAt(k) = 4
      BY <1>1
    <3> QED BY <1>1, <3>1, <3>2, SliceType
  <2>2. Signed4(old) \in Int
    BY <2>1, Signed4Type
  <2>3. CopiedDisp(k) = Bytes4(Signed4(old) + distance)
    BY <1>3 DEF CopiedDisp
  <2> HIDE DEF old
  <2>4. Signed4(old) + distance \in Int
    BY <2>2, AddressAssumption DEF distance
  <2>5. DispSize(k) = 4
    BY <1>3 DEF DispSize
  <2> QED BY <2>3, <2>4, <2>5, Bytes4Type
<1>4. CASE ~IsCall(k) /\ ~IsRip(k)
  <2>1. CopiedDisp(k) = Slice(DispAt(k), DispAt(k) + DispSize(k) - 1)
    BY <1>4 DEF CopiedDisp
  <2>2. /\ DispAt(k) + DispSize(k) - 1 \in Int
        /\ DispAt(k) + DispSize(k) - 1 >= DispAt(k) - 1
        /\ DispAt(k) + DispSize(k) - 1 + 1 - DispAt(k) = DispSize(k)
    BY <1>1
  <2> QED BY <1>1, <2>1, <2>2, SliceType
<1> QED BY <1>2, <1>3, <1>4

LEMMA CopyOfType ==
  ASSUME program \in Programs, NEW k \in Nat \ {0}
  PROVE  CopyOf(k) \in Seq(Byte) /\ Len(CopyOf(k)) = End(k) + 1 - k
<1> DEFINE a == Slice(k, DispAt(k) - 1)
           c == Slice(DispAt(k) + DispSize(k), End(k))
           d == CopiedDisp(k)
<1>1. /\ DispAt(k) \in (k + 1) .. (k + 5)
      /\ DispSize(k) \in 0 .. 4
      /\ End(k) \in (DispAt(k) + DispSize(k) - 1) .. (k + 9)
  BY Parts
<1>2. a \in Seq(Byte) /\ Len(a) = DispAt(k) - k
  <2>1. DispAt(k) - 1 \in Int /\ DispAt(k) - 1 >= k - 1 /\ DispAt(k) - 1 + 1 - k = DispAt(k) - k
    BY <1>1
  <2> QED BY <2>1, SliceType
<1>3. c \in Seq(Byte) /\ Len(c) = End(k) + 1 - (DispAt(k) + DispSize(k))
  <2> DEFINE from == DispAt(k) + DispSize(k)
  <2>1. from \in Nat \ {0} /\ End(k) \in Int /\ End(k) >= from - 1
    BY <1>1
  <2>2. c = Slice(from, End(k))
    OBVIOUS
  <2> HIDE DEF from, c
  <2>3. c \in Seq(Byte) /\ Len(c) = End(k) + 1 - from
    BY <2>1, <2>2, SliceType
  <2> QED BY <2>3 DEF from
<1>4. d \in Seq(Byte) /\ Len(d) = DispSize(k)
  BY CopiedDispType
<1>5. CopyOf(k) = a \o d \o c
  BY DEF CopyOf
<1> HIDE DEF a, c, d
<1>6. a \o d \o c \in Seq(Byte) /\ Len(a \o d \o c) = Len(a) + Len(d) + Len(c)
  <2>1. a \in Seq(Byte) /\ c \in Seq(Byte) /\ d \in Seq(Byte)
    BY <1>2, <1>3, <1>4
  <2>2. a \o d \in Seq(Byte) /\ Len(a \o d) = Len(a) + Len(d)
    BY <2>1, Appended
  <2>3. (a \o d) \o c \in Seq(Byte) /\ Len((a \o d) \o c) = Len(a \o d) + Len(c)
    BY <2>1, <2>2, Appended
  <2>4. Len(a) \in Nat /\ Len(c) \in Nat /\ Len(d) \in Nat
    BY <2>1
  <2> QED BY ONLY <2>2, <2>3, <2>4
<1>7. (DispAt(k) - k) + DispSize(k) + (End(k) + 1 - (DispAt(k) + DispSize(k))) = End(k) + 1 - k
  BY <1>1
<1>8. Len(a \o d \o c) = End(k) + 1 - k
  BY <1>2, <1>3, <1>4, <1>6, <1>7
<1> QED BY <1>5, <1>6, <1>8

-----------------------------------------------------------------------------
(* The frame of the core.  libc may write errno, at any offset that        *)
(* find_libc accepts, over the pointer at fs:0, but never over what the    *)
(* core still needs: that is what the 24 and the 32 in syscall.S are for.  *)

Kept == {Return, Rbp, OldFs}

LEMMA FrameTypes ==
  ASSUME offset \in Offsets
  PROVE  {Return, Rbp, OldFs, Self, Errno} \subseteq Field
<1>1. FrameSize = 800 /\ FsBase = 536
  BY DEF FrameSize, FsBase, ERRNO_OFFSET_MAX, ERRNO_OFFSET_MIN
<1>2. offset \in Int
  BY OffsetsAssumption
<1> QED BY <1>1, <1>2 DEF Return, Rbp, OldFs, Self, Errno, Field

LEMMA KeptDisjoint ==
  ASSUME offset \in Offsets
  PROVE  \A f \in Kept : Disjoint(Self, f) /\ Disjoint(Errno, f)
<1>1. FrameSize = 800 /\ FsBase = 536
  BY DEF FrameSize, FsBase, ERRNO_OFFSET_MAX, ERRNO_OFFSET_MIN
<1>2. offset \in -511 .. 255
  BY OffsetsAssumption DEF ERRNO_OFFSET_MAX, ERRNO_OFFSET_MIN
<1>3. /\ Self.at = 536 /\ Self.size = 8
      /\ Errno.at = 536 + offset /\ Errno.size = 4
  BY <1>1 DEF Self, Errno
<1>4. /\ Return.at = 808 /\ Return.size = 8
      /\ Rbp.at = 800 /\ Rbp.size = 8
      /\ OldFs.at = 8 /\ OldFs.size = 8
  BY <1>1 DEF Return, Rbp, OldFs
<1> QED BY <1>2, <1>3, <1>4 DEF Kept, Disjoint

LEMMA KeptApart ==
  Disjoint(Rbp, Return) /\ Disjoint(OldFs, Return) /\ Disjoint(OldFs, Rbp)
BY DEF Disjoint, Return, Rbp, OldFs, FrameSize, ERRNO_OFFSET_MAX, ERRNO_OFFSET_MIN

LEMMA EnterFrame ==
  ASSUME offset \in Offsets
  PROVE  /\ Kept \subseteq Stored(Self, Stored(OldFs, Stored(Rbp, Stored(Return, {}))))
         /\ Stored(Self, Stored(OldFs, Stored(Rbp, Stored(Return, {})))) \subseteq Field
<1>1. Return \in Stored(Return, {}) /\ Stored(Return, {}) \subseteq Field
  BY FrameTypes DEF Stored
<1> DEFINE one == Stored(Return, {})
           two == Stored(Rbp, one)
           three == Stored(OldFs, two)
<1>2. {Return, Rbp} \subseteq two /\ two \subseteq Field
  BY <1>1, FrameTypes, KeptApart DEF Stored
<1>3. {Return, Rbp, OldFs} \subseteq three /\ three \subseteq Field
  <2> HIDE DEF two
  <2> QED BY <1>2, FrameTypes, KeptApart DEF Stored
<1>4. Kept \subseteq Stored(Self, three) /\ Stored(Self, three) \subseteq Field
  <2> HIDE DEF three
  <2> QED BY <1>3, FrameTypes, KeptDisjoint DEF Stored, Kept
<1> QED BY <1>4

LEMMA ErrnoFrame ==
  ASSUME offset \in Offsets, frame \subseteq Field, Kept \subseteq frame
  PROVE  Kept \subseteq Stored(Errno, frame)
BY KeptDisjoint DEF Stored, Kept

LEMMA StoredType ==
  ASSUME NEW f \in Field, NEW fields, fields \subseteq Field
  PROVE  Stored(f, fields) \subseteq Field
BY DEF Stored

-----------------------------------------------------------------------------
(* What errnoConv makes of what the core returns.                          *)

Number == 0 .. 4095

LEMMA SetErrnoType ==
  \A e \in Number : SetErrno(e) \in Number
BY DEF SetErrno, EINVAL, Number

LEMMA RaxType ==
  ASSUME TypeOK
  PROVE  /\ did.rax = -1 => Rax = -did.errno /\ did.errno \in 0 .. 4095
         /\ did.rax # -1 => Rax = did.rax /\ did.rax \in Nat
         /\ Rax \in Int /\ Rax > -4096
<1>1. did \in [rax : {-1} \cup Nat, errno : {0} \cup Errnos]
  BY DEF TypeOK
<1>2. did.rax \in {-1} \cup Nat /\ did.errno \in {0} \cup Errnos
  BY <1>1
<1>3. did.errno \in 0 .. 4095
  <2>1. \A e \in Errnos : e \in 0 .. 4095
    BY ErrnosAssumption
  <2>2. did.errno = 0 \/ did.errno \in Errnos
    BY <1>2
  <2> QED BY ONLY <2>1, <2>2
<1>4. did.rax = -1 => Rax = -did.errno
  BY DEF Rax
<1>5. did.rax # -1 => Rax = did.rax /\ did.rax \in Nat
  BY <1>2 DEF Rax
<1>6. Rax \in Int /\ Rax > -4096
  <2>1. CASE did.rax = -1
    <3> DEFINE e == did.errno
    <3>1. Rax = -e
      BY <1>4, <2>1
    <3>2. e \in 0 .. 4095
      BY <1>3
    <3> HIDE DEF Rax, e
    <3>3. -e \in Int /\ -e > -4096
      BY ONLY <3>2
    <3> QED BY ONLY <3>1, <3>3
  <2>2. CASE did.rax # -1
    <3>1. Rax \in Nat
      BY <1>5, <2>2
    <3> HIDE DEF Rax
    <3> QED BY <3>1
  <2> QED BY <2>1, <2>2
<1> QED BY <1>3, <1>4, <1>5, <1>6, SMTT(30)

-----------------------------------------------------------------------------
(* Types.                                                                  *)

LEMMA TypeInit == Init => TypeOK
<1> SUFFICES ASSUME Init PROVE TypeOK
  OBVIOUS
<1>1. Limit \in Nat
  BY SizeAssumption
<1>2. p \in 1 .. (Limit + 16) /\ out \in Seq(Byte) /\ Len(out) = p - 1
  BY <1>1 DEF Init
<1> QED BY <1>2 DEF Init, TypeOK

LEMMA TypeCopy ==
  ASSUME TypeOK, CopyInstruction
  PROVE  TypeOK'
<1>1. p \in 1 .. Limit /\ p \in Nat \ {0} /\ Limit \in Nat
  BY SizeAssumption DEF TypeOK, CopyInstruction
<1>2. CopyOf(p) \in Seq(Byte) /\ Len(CopyOf(p)) = End(p) + 1 - p
  BY <1>1, CopyOfType DEF TypeOK
<1>3. End(p) \in p .. (p + 9)
  <2>1. End(p) \in (DispAt(p) + DispSize(p) - 1) .. (p + 9)
    BY <1>1, Parts
  <2>2. DispAt(p) \in (p + 1) .. (p + 5) /\ DispSize(p) \in 0 .. 4
    BY <1>1, Parts
  <2> QED BY <1>1, <2>1, <2>2
<1>4. p' = End(p) + 1 /\ out' = out \o CopyOf(p)
  BY DEF CopyInstruction
<1>5. p' \in 1 .. (Limit + 16)
  BY <1>1, <1>3, <1>4
<1>6. out \in Seq(Byte) /\ Len(out) = p - 1
  BY DEF TypeOK
<1>7. out' \in Seq(Byte) /\ Len(out') = Len(out) + Len(CopyOf(p))
  BY <1>2, <1>4, <1>6, Appended
<1>8. Len(out') = p' - 1
  BY <1>1, <1>2, <1>3, <1>4, <1>6, <1>7
<1> QED BY <1>5, <1>7, <1>8 DEF TypeOK, CopyInstruction, callVars

LEMMA TypeReady ==
  ASSUME TypeOK, NEW copied \in Seq(Byte), Len(copied) \in 0 .. 2,
         p <= Limit \/ copied = <<>>,
         Ready(copied)
  PROVE  TypeOK'
<1>1. p \in 1 .. (Limit + 16) /\ Limit \in Nat /\ out \in Seq(Byte) /\ Len(out) = p - 1
  BY SizeAssumption DEF TypeOK
<1>2. out' = out \o copied /\ p' = p + Len(copied)
  BY DEF Ready
<1>3. p' \in 1 .. (Limit + 16)
  <2>1. CASE p <= Limit
    <3>1. Len(copied) \in 0 .. 2 /\ p \in 1 .. Limit /\ Limit \in Nat
      BY <1>1, <2>1
    <3>2. \A m \in Nat : \A k \in 1 .. m : \A n \in 0 .. 2 : k + n \in 1 .. (m + 16)
      OBVIOUS
    <3>3. p + Len(copied) \in 1 .. (Limit + 16)
      BY <3>1, <3>2
    <3> QED BY <1>2, <3>3
  <2>2. CASE copied = <<>>
    <3>1. Len(copied) = 0
      BY <2>2
    <3> QED BY <1>1, <1>2, <3>1
  <2> QED BY <2>1, <2>2
<1>4. out' \in Seq(Byte) /\ Len(out') = Len(out) + Len(copied)
  BY <1>1, <1>2, Appended
<1>5. Len(out') = p' - 1
  BY <1>1, <1>2, <1>4
<1> QED BY <1>3, <1>4, <1>5 DEF TypeOK, Ready, Goto, callVars

LEMMA TypeLeave ==
  ASSUME TypeOK, Leave
  PROVE  TypeOK'
<1>1. result' \in {-1} \cup Nat /\ errno' \in 0 .. 4095
  <2>1. CASE -4096 < Rax /\ Rax < 0 /\ Rax = -26
    BY <2>1 DEF Leave, TypeOK, ETXTBSY
  <2>2. CASE -4096 < Rax /\ Rax < 0 /\ Rax # -26
    <3> DEFINE n == -Rax
    <3>1. Rax \in Int
      BY RaxType
    <3>2. n \in Number
      BY <2>2, <3>1 DEF Number
    <3>3. result' = -1 /\ errno' = SetErrno(n)
      BY <2>2 DEF Leave
    <3> HIDE DEF n
    <3>4. errno' \in Number
      BY <3>2, <3>3, SetErrnoType
    <3> QED BY <3>3, <3>4 DEF Number
  <2>3. CASE ~(-4096 < Rax /\ Rax < 0)
    <3>1. Rax \in Nat
      BY <2>3, RaxType
    <3>2. result' = Rax /\ errno' = errno
      BY <2>3 DEF Leave
    <3>3. errno \in 0 .. 4095
      BY DEF TypeOK
    <3> QED BY <3>1, <3>2, <3>3
  <2> QED BY <2>1, <2>2, <2>3
<1>2. fs' \in {"teb", "lost"} /\ frame' = {} /\ pc' \in {"ready", "crashed"}
  BY DEF Leave, Goto
<1> QED BY <1>1, <1>2 DEF Leave, TypeOK, setupVars

LEMMA TypeStep == TypeOK /\ [Next]_vars => TypeOK'
<1> SUFFICES ASSUME TypeOK, [Next]_vars PROVE TypeOK'
  OBVIOUS
<1> USE DEF setupVars, callVars, Goto
<1>1. CASE Setup \/ SetupFails
  <2>1. CASE Setup
    BY <2>1 DEF TypeOK, Setup
  <2>2. CASE SetupFails
    BY <2>2 DEF TypeOK, SetupFails
  <2> QED BY <1>1, <2>1, <2>2
<1>2. CASE CopyInstruction
  BY <1>2, TypeCopy
<1>3. CASE UnknownInstruction
  BY <1>3 DEF TypeOK, UnknownInstruction
<1>4. CASE Iret
  <2>1. p \in Nat \ {0} /\ p <= Limit
    BY <1>4 DEF Iret, TypeOK
  <2>2. OpAt(p) \in p .. (p + 1)
    BY <2>1, Parts
  <2>3. OpAt(p) \in Int /\ OpAt(p) >= p - 1 /\ OpAt(p) + 1 - p \in 0 .. 2
    BY <2>1, <2>2
  <2>a. program \in Programs
    BY DEF TypeOK
  <2>4. Slice(p, OpAt(p)) \in Seq(Byte) /\ Len(Slice(p, OpAt(p))) = OpAt(p) + 1 - p
    BY <2>1, <2>3, <2>a, SliceType
  <2>5. Ready(Slice(p, OpAt(p)))
    BY <1>4 DEF Iret
  <2> QED BY <2>1, <2>3, <2>4, <2>5, TypeReady
<1>5. CASE EndOfTrampoline
  <2>1. <<>> \in Seq(Byte) /\ Len(<<>>) \in 0 .. 2 /\ Ready(<<>>)
    BY <1>5 DEF EndOfTrampoline
  <2> QED BY <2>1, TypeReady
<1>6. CASE Enter
  <2>1. frame' \subseteq Field
    BY <1>6, EnterFrame DEF Enter, TypeOK
  <2> QED BY <1>6, <2>1 DEF TypeOK, Enter
<1>7. CASE EnterFaults
  BY <1>7 DEF TypeOK, EnterFaults
<1>8. ASSUME NEW r \in Results, Succeeds(r) PROVE TypeOK'
  <2>1. r \in Nat
    BY ResultsAssumption
  <2> QED BY <1>8, <2>1 DEF TypeOK, Succeeds
<1>9. ASSUME NEW e \in Errnos, Fails(e) PROVE TypeOK'
  <2>1. frame' \subseteq Field
    BY <1>9, FrameTypes, StoredType DEF TypeOK, Fails
  <2> QED BY <1>9, <2>1 DEF TypeOK, Fails
<1>10. CASE Leave
  BY <1>10, TypeLeave
<1>11. CASE UNCHANGED vars
  BY <1>11 DEF TypeOK, vars
<1> QED BY <1>1, <1>2, <1>3, <1>4, <1>5, <1>6, <1>7, <1>8, <1>9, <1>10, <1>11 DEF Next

(* The copy keeps step with the position it is made at, and at most one    *)
(* instruction is read beyond the limit of decompile_copy, whatever the    *)
(* trampoline consists of (src/heavens.c 83-240).                          *)
THEOREM HeavensTypes == Spec => []TypeOK
<1>1. Init => TypeOK
  BY TypeInit
<1>2. TypeOK /\ [Next]_vars => TypeOK'
  BY TypeStep
<1> QED BY <1>1, <1>2, PTL DEF Spec

-----------------------------------------------------------------------------
(* What a caller is told.  During a call the core can still find what it   *)
(* needs to return, whatever libc wrote; between calls the segment base is *)
(* the caller's; and an errno was reported by libc.                        *)

CallInv ==
  /\ pc \in {"libc", "leave"} => Kept \subseteq frame
  /\ pc \in {"setup", "copy", "ready"} => fs = "teb"
  /\ pc \in {"setup", "copy"} => did.rax = 0 /\ result = 0
  /\ did.rax = -1 => did.errno \in Errnos

TellInv == TypeOK /\ CallInv /\ FailureIsTold

(* The numbers errnoConv is given and what it makes of them.               *)
LEMMA Counterparts ==
  \A e \in Number \ {0} :
    /\ SetErrno(e) \in {IF e = 36 THEN 35 ELSE e, EINVAL}
    /\ e \in 1 .. 34 \cup {ENOSYS} => SetErrno(e) = e
BY DEF SetErrno, EINVAL, ENOSYS, Named, Number

LEMMA LeaveTells ==
  ASSUME TellInv, Leave
  PROVE  CallInv' /\ FailureIsTold'
<1>1. Kept \subseteq frame /\ pc = "leave"
  BY DEF TellInv, CallInv, Leave
<1>2. pc' = "ready" /\ fs' = "teb" /\ did' = did
  BY <1>1 DEF Leave, Goto, Kept
<1>3. CallInv'
  BY <1>2 DEF TellInv, CallInv
<1>4. ASSUME did.rax # -1 PROVE result' = did.rax
  <2>1. Rax = did.rax /\ did.rax \in Nat
    BY <1>4, RaxType DEF TellInv
  <2>2. ~(-4096 < Rax /\ Rax < 0)
    BY <2>1
  <2>3. result' = Rax
    BY <2>2 DEF Leave
  <2> QED BY <2>1, <2>3
<1>5. ASSUME did.rax = -1
      PROVE  /\ did.errno = 26 => result' = ETXTBSY
             /\ did.errno # 26 => result' = -1 /\ errno' = SetErrno(did.errno)
             /\ did.errno \in Number \ {0}
  <2> DEFINE e == did.errno
  <2>1. e \in Errnos
    BY <1>5 DEF TellInv, CallInv
  <2>2. Rax = -e
    BY <1>5, RaxType DEF TellInv
  <2> HIDE DEF e
  <2>3. e \in 1 .. 4095
    BY <2>1, ErrnosAssumption
  <2>4. -4096 < -e /\ -e < 0 /\ -(-e) = e /\ (-e = -26 <=> e = 26)
    BY ONLY <2>3
  <2>n. e \in Number \ {0}
    BY ONLY <2>3 DEF Number
  <2> DEFINE r == Rax
  <2>5. IF -4096 < r /\ r < 0
        THEN IF r = -26
             THEN result' = ETXTBSY /\ UNCHANGED errno
             ELSE result' = -1 /\ errno' = SetErrno(-r)
        ELSE result' = r /\ UNCHANGED errno
    BY DEF Leave
  <2>6. r = -e
    BY <2>2
  <2> HIDE DEF r
  <2>7. CASE e = 26
    BY <2>n, <2>4, <2>5, <2>6, <2>7 DEF e
  <2>8. CASE e # 26
    <3>1. -4096 < r /\ r < 0 /\ r # -26 /\ -r = e
      BY <2>4, <2>6, <2>8
    <3>2. result' = -1 /\ errno' = SetErrno(-r)
      BY <2>5, <3>1
    <3>3. errno' = SetErrno(e)
      BY ONLY <3>1, <3>2
    <3> QED BY <2>n, <2>8, <3>2, <3>3 DEF e
  <2> QED BY <2>7, <2>8
<1>6. FailureIsTold'
  <2>1. did.rax = -1 /\ did.errno # 26 =>
          /\ errno' \in {IF did.errno = 36 THEN 35 ELSE did.errno, EINVAL}
          /\ did.errno \in 1 .. 34 \cup {ENOSYS} => errno' = did.errno
    <3> SUFFICES ASSUME did.rax = -1, did.errno # 26
                 PROVE  /\ errno' \in {IF did.errno = 36 THEN 35 ELSE did.errno, EINVAL}
                        /\ did.errno \in 1 .. 34 \cup {ENOSYS} => errno' = did.errno
      OBVIOUS
    <3> DEFINE e == did.errno
    <3>1. e \in Number \ {0} /\ errno' = SetErrno(e)
      BY <1>5
    <3> HIDE DEF e
    <3>2. /\ SetErrno(e) \in {IF e = 36 THEN 35 ELSE e, EINVAL}
          /\ e \in 1 .. 34 \cup {ENOSYS} => SetErrno(e) = e
      BY <3>1, Counterparts
    <3> QED BY <3>1, <3>2 DEF e
  <2> QED BY <1>2, <1>4, <1>5, <2>1 DEF FailureIsTold
<1> QED BY <1>3, <1>6

LEMMA TellStep == TellInv /\ [Next]_vars => CallInv' /\ FailureIsTold'
<1> SUFFICES ASSUME TellInv, [Next]_vars PROVE CallInv' /\ FailureIsTold'
  OBVIOUS
<1> USE DEF setupVars, callVars, Goto
<1>1. CASE Setup
  BY <1>1 DEF TellInv, CallInv, FailureIsTold, Setup
<1>2. CASE SetupFails
  BY <1>2 DEF TellInv, CallInv, FailureIsTold, SetupFails
<1>3. CASE CopyInstruction
  BY <1>3 DEF TellInv, CallInv, FailureIsTold, CopyInstruction
<1>4. CASE UnknownInstruction
  BY <1>4 DEF TellInv, CallInv, FailureIsTold, UnknownInstruction
<1>5. CASE Iret
  BY <1>5 DEF TellInv, CallInv, FailureIsTold, Iret, Ready
<1>6. CASE EndOfTrampoline
  BY <1>6 DEF TellInv, CallInv, FailureIsTold, EndOfTrampoline, Ready
<1>7. CASE Enter
  <2>1. Kept \subseteq frame'
    BY <1>7, EnterFrame DEF Enter, TellInv, TypeOK
  <2> QED BY <1>7, <2>1 DEF TellInv, CallInv, FailureIsTold, Enter
<1>8. CASE EnterFaults
  BY <1>8 DEF TellInv, CallInv, FailureIsTold, EnterFaults
<1>9. ASSUME NEW r \in Results, Succeeds(r) PROVE CallInv' /\ FailureIsTold'
  <2>1. r # -1
    BY ResultsAssumption
  <2> QED BY <1>9, <2>1 DEF TellInv, CallInv, FailureIsTold, Succeeds
<1>10. ASSUME NEW e \in Errnos, Fails(e) PROVE CallInv' /\ FailureIsTold'
  <2>1. Kept \subseteq frame'
    BY <1>10, ErrnoFrame DEF TellInv, CallInv, TypeOK, Fails
  <2>2. did'.errno = e
    BY <1>10 DEF Fails
  <2> QED BY <1>10, <2>1, <2>2 DEF TellInv, CallInv, FailureIsTold, Fails
<1>11. CASE Leave
  BY <1>11, LeaveTells
<1>12. CASE UNCHANGED vars
  BY <1>12 DEF TellInv, CallInv, FailureIsTold, vars
<1> QED BY <1>1, <1>2, <1>3, <1>4, <1>5, <1>6, <1>7, <1>8, <1>9, <1>10, <1>11, <1>12 DEF Next

(* Every caller of the gate learns what libc said of its call, as far as   *)
(* errnoConv has a number for it, and gets its segment base back: errno    *)
(* never falls on what the core keeps in the same frame (src/syscall.S,    *)
(* src/errno_conv.c).                                                      *)
THEOREM CallersAreTold == Spec => []FailureIsTold
<1>1. Init => TellInv
  <2> SUFFICES ASSUME Init PROVE CallInv /\ FailureIsTold
    BY TypeInit DEF TellInv
  <2> QED BY DEF Init, CallInv, FailureIsTold
<1>2. TellInv /\ [Next]_vars => TellInv'
  BY TypeStep, TellStep DEF TellInv
<1>3. TellInv => FailureIsTold
  BY DEF TellInv
<1> QED BY <1>1, <1>2, <1>3, PTL DEF Spec

-----------------------------------------------------------------------------
(* How decompile_copy reads an instruction that is encoded at a position.  *)

ReadAt(q, i) == \A j \in 1 .. Len(Encoded(i)) : At(q + j - 1) = Encoded(i)[j]

OpcodeOf(i)  == Len(i.rex)
OperandOf(i) == OpcodeOf(i) + Len(i.opcode)
TargetOf(i)  == OperandOf(i) + Len(i.operand)
ImmOf(i)     == TargetOf(i) + Len(Displacement(i))

LEMMA DisplacementType ==
  ASSUME NEW i \in Instruction
  PROVE  /\ Displacement(i) \in Seq(Byte)
         /\ Len(Displacement(i)) = IF i.target = "none" THEN 0 ELSE 4
<1>1. i.value \in Int
  BY DEF Instruction
<1>2. Bytes4(i.value) \in Seq(Byte) /\ Len(Bytes4(i.value)) = 4
  BY <1>1, Bytes4Type
<1>3. <<>> \in Seq(Byte) /\ Len(<<>>) = 0
  OBVIOUS
<1>4. CASE i.target = "none"
  BY <1>3, <1>4 DEF Displacement
<1>5. CASE i.target # "none"
  BY <1>2, <1>5, Zenon DEF Displacement
<1> QED BY <1>4, <1>5

ConsistsOf(s, a, b, c, d, e) ==
  /\ Len(s) = Len(a) + Len(b) + Len(c) + Len(d) + Len(e)
  /\ \A j \in 1 .. Len(a) : s[j] = a[j]
  /\ \A j \in 1 .. Len(b) : s[Len(a) + j] = b[j]
  /\ \A j \in 1 .. Len(c) : s[Len(a) + Len(b) + j] = c[j]
  /\ \A j \in 1 .. Len(d) : s[Len(a) + Len(b) + Len(c) + j] = d[j]
  /\ \A j \in 1 .. Len(e) : s[Len(a) + Len(b) + Len(c) + Len(d) + j] = e[j]

LEMMA FiveParts ==
  ASSUME NEW a \in Seq(Byte), NEW b \in Seq(Byte), NEW c \in Seq(Byte), NEW d \in Seq(Byte),
         NEW e \in Seq(Byte)
  PROVE  ConsistsOf(a \o b \o c \o d \o e, a, b, c, d, e)
<1> DEFINE s == a \o b \o c \o d \o e
           ab == a \o b
           abc == ab \o c
           abcd == abc \o d
<1>1. /\ ab \in Seq(Byte) /\ Len(ab) = Len(a) + Len(b)
      /\ \A j \in 1 .. Len(a) : ab[j] = a[j]
      /\ \A j \in 1 .. Len(b) : ab[Len(a) + j] = b[j]
  BY TwoParts
<1> HIDE DEF ab
<1>2. /\ abc \in Seq(Byte) /\ Len(abc) = Len(ab) + Len(c)
      /\ \A j \in 1 .. Len(ab) : abc[j] = ab[j]
      /\ \A j \in 1 .. Len(c) : abc[Len(ab) + j] = c[j]
  BY <1>1, TwoParts
<1> HIDE DEF abc
<1>3. /\ abcd \in Seq(Byte) /\ Len(abcd) = Len(abc) + Len(d)
      /\ \A j \in 1 .. Len(abc) : abcd[j] = abc[j]
      /\ \A j \in 1 .. Len(d) : abcd[Len(abc) + j] = d[j]
  BY <1>2, TwoParts
<1> HIDE DEF abcd
<1>4. s = abcd \o e
  BY DEF abcd, abc, ab
<1>5. /\ Len(s) = Len(abcd) + Len(e)
      /\ \A j \in 1 .. Len(abcd) : s[j] = abcd[j]
      /\ \A j \in 1 .. Len(e) : s[Len(abcd) + j] = e[j]
  <2> DEFINE t == abcd \o e
  <2>1. /\ Len(t) = Len(abcd) + Len(e)
        /\ \A j \in 1 .. Len(abcd) : t[j] = abcd[j]
        /\ \A j \in 1 .. Len(e) : t[Len(abcd) + j] = e[j]
    BY <1>3, TwoParts
  <2>2. s = t
    BY <1>4
  <2> HIDE DEF t
  <2> QED BY <2>1, <2>2
<1>6. Len(a) \in Nat /\ Len(b) \in Nat /\ Len(c) \in Nat /\ Len(d) \in Nat /\ Len(e) \in Nat
  OBVIOUS
<1> HIDE DEF s
<1>7. \A j \in 1 .. Len(a) : s[j] = a[j]
  <2> TAKE j \in 1 .. Len(a)
  <2>1. j \in 1 .. Len(ab) /\ j \in 1 .. Len(abc) /\ j \in 1 .. Len(abcd)
    BY <1>1, <1>2, <1>3, <1>6
  <2> QED BY <1>1, <1>2, <1>3, <1>5, <2>1
<1>8. \A j \in 1 .. Len(b) : s[Len(a) + j] = b[j]
  <2> TAKE j \in 1 .. Len(b)
  <2>1. Len(a) + j \in 1 .. Len(ab) /\ Len(a) + j \in 1 .. Len(abc) /\ Len(a) + j \in 1 .. Len(abcd)
    BY <1>1, <1>2, <1>3, <1>6
  <2> QED BY <1>1, <1>2, <1>3, <1>5, <2>1
<1>9. \A j \in 1 .. Len(c) : s[Len(ab) + j] = c[j]
  <2> TAKE j \in 1 .. Len(c)
  <2>1. Len(ab) + j \in 1 .. Len(abc) /\ Len(ab) + j \in 1 .. Len(abcd)
    BY <1>1, <1>2, <1>3, <1>6
  <2> QED BY <1>2, <1>3, <1>5, <2>1
<1>10. \A j \in 1 .. Len(d) : s[Len(abc) + j] = d[j]
  <2> TAKE j \in 1 .. Len(d)
  <2>1. Len(abc) + j \in 1 .. Len(abcd)
    BY <1>1, <1>2, <1>3, <1>6
  <2> QED BY <1>3, <1>5, <2>1
<1>11. /\ Len(ab) = Len(a) + Len(b) /\ Len(abc) = Len(a) + Len(b) + Len(c)
       /\ Len(abcd) = Len(a) + Len(b) + Len(c) + Len(d)
  BY <1>1, <1>2, <1>3
<1>12. ConsistsOf(s, a, b, c, d, e)
  BY <1>5, <1>7, <1>8, <1>9, <1>10, <1>11 DEF ConsistsOf
<1> QED BY <1>12 DEF s

LEMMA PartsRead ==
  ASSUME NEW i \in Instruction, NEW q \in Nat \ {0}, ReadAt(q, i)
  PROVE  /\ OpcodeOf(i) \in Nat /\ OperandOf(i) \in Nat /\ TargetOf(i) \in Nat /\ ImmOf(i) \in Nat
         /\ Len(Encoded(i)) = ImmOf(i) + Len(i.imm)
         /\ \A j \in 1 .. Len(i.rex) : At(q + j - 1) = i.rex[j]
         /\ \A j \in 1 .. Len(i.opcode) : At(q + OpcodeOf(i) + j - 1) = i.opcode[j]
         /\ \A j \in 1 .. Len(i.operand) : At(q + OperandOf(i) + j - 1) = i.operand[j]
         /\ \A j \in 1 .. Len(Displacement(i)) : At(q + TargetOf(i) + j - 1) = Displacement(i)[j]
         /\ \A j \in 1 .. Len(i.imm) : At(q + ImmOf(i) + j - 1) = i.imm[j]
<1> DEFINE a == i.rex
           b == i.opcode
           c == i.operand
           d == Displacement(i)
           e == i.imm
           s == Encoded(i)
<1>1. a \in Seq(Byte) /\ b \in Seq(Byte) /\ c \in Seq(Byte) /\ d \in Seq(Byte) /\ e \in Seq(Byte)
  BY DisplacementType DEF Instruction
<1>2. s = a \o b \o c \o d \o e
  BY DEF Encoded
<1>3. \A j \in 1 .. Len(s) : At(q + j - 1) = s[j]
  BY DEF ReadAt
<1>4. OpcodeOf(i) = Len(a) /\ OperandOf(i) = Len(a) + Len(b) /\ TargetOf(i) = Len(a) + Len(b) + Len(c)
      /\ ImmOf(i) = Len(a) + Len(b) + Len(c) + Len(d)
  BY DEF OpcodeOf, OperandOf, TargetOf, ImmOf
<1> HIDE DEF a, b, c, d, e, s
<1> DEFINE n == ImmOf(i)
           m == TargetOf(i)
           l == OperandOf(i)
           k == OpcodeOf(i)
<1>5. k \in Nat /\ l \in Nat /\ m \in Nat /\ n \in Nat /\ l = k + Len(b) /\ m = l + Len(c) /\ n = m + Len(d)
      /\ Len(a) = k /\ Len(b) \in Nat /\ Len(c) \in Nat /\ Len(d) \in Nat /\ Len(e) \in Nat
  BY <1>1, <1>4
<1>6. /\ Len(s) = n + Len(e)
      /\ \A j \in 1 .. Len(a) : s[j] = a[j]
      /\ \A j \in 1 .. Len(b) : s[k + j] = b[j]
      /\ \A j \in 1 .. Len(c) : s[l + j] = c[j]
      /\ \A j \in 1 .. Len(d) : s[m + j] = d[j]
      /\ \A j \in 1 .. Len(e) : s[n + j] = e[j]
  <2>1. /\ Len(s) = Len(a) + Len(b) + Len(c) + Len(d) + Len(e)
        /\ \A j \in 1 .. Len(a) : s[j] = a[j]
        /\ \A j \in 1 .. Len(b) : s[Len(a) + j] = b[j]
        /\ \A j \in 1 .. Len(c) : s[Len(a) + Len(b) + j] = c[j]
        /\ \A j \in 1 .. Len(d) : s[Len(a) + Len(b) + Len(c) + j] = d[j]
        /\ \A j \in 1 .. Len(e) : s[Len(a) + Len(b) + Len(c) + Len(d) + j] = e[j]
    <3>1. ConsistsOf(a \o b \o c \o d \o e, a, b, c, d, e)
      BY <1>1, FiveParts
    <3>2. ConsistsOf(s, a, b, c, d, e)
      BY <1>2, <3>1
    <3> QED BY <3>2 DEF ConsistsOf
  <2> HIDE <1>2
  <2> QED BY <1>4, <2>1
<1> HIDE <1>2, <1>4
<1> HIDE DEF k, l, m, n
<1>7. \A j \in 1 .. Len(a) : At(q + j - 1) = a[j]
  BY <1>3, <1>5, <1>6
<1>8. \A j \in 1 .. Len(b) : At(q + k + j - 1) = b[j]
  <2> TAKE j \in 1 .. Len(b)
  <2>1. k + j \in 1 .. Len(s) /\ q + (k + j) - 1 = q + k + j - 1
    <3>1. Len(s) = k + Len(b) + Len(c) + Len(d) + Len(e)
      BY <1>5, <1>6
    <3> QED BY <1>5, <3>1
  <2> QED BY <1>3, <1>6, <2>1
<1>9. \A j \in 1 .. Len(c) : At(q + l + j - 1) = c[j]
  <2> TAKE j \in 1 .. Len(c)
  <2>1. l + j \in 1 .. Len(s) /\ q + (l + j) - 1 = q + l + j - 1
    BY <1>5, <1>6
  <2> QED BY <1>3, <1>6, <2>1
<1>10. \A j \in 1 .. Len(d) : At(q + m + j - 1) = d[j]
  <2> TAKE j \in 1 .. Len(d)
  <2>1. m + j \in 1 .. Len(s) /\ q + (m + j) - 1 = q + m + j - 1
    BY <1>5, <1>6
  <2> QED BY <1>3, <1>6, <2>1
<1>11. \A j \in 1 .. Len(e) : At(q + n + j - 1) = e[j]
  <2> TAKE j \in 1 .. Len(e)
  <2>1. n + j \in 1 .. Len(s) /\ q + (n + j) - 1 = q + n + j - 1
    BY <1>5, <1>6
  <2> QED BY <1>3, <1>6, <2>1
<1> QED BY <1>5, <1>6, <1>7, <1>8, <1>9, <1>10, <1>11 DEF a, b, c, d, e, s, k, l, m, n

(* An opcode is one byte that is no prefix, or 15 and another.             *)
LEMMA OpcodeShape ==
  ASSUME NEW i \in Instruction, Encoding(i)
  PROVE  \/ \E b \in Byte : b \notin 64 .. 79 /\ b # 15 /\ i.opcode = <<b>>
         \/ \E b \in Byte : i.opcode = <<15, b>>
<1> DEFINE o == i.opcode
<1>1. o \in Seq(Byte)
  BY DEF Instruction
<1>2. \/ o \in WithOperand \cup Alone \cup {Jb, CallRel}
      \/ o \notin Rex /\ ((Len(o) = 1 /\ o # <<15>>) \/ (Len(o) = 2 /\ o[1] = 15))
  <2>1. \/ o \in WithOperand \/ o \in Alone \/ o = Jb \/ o = CallRel
        \/ /\ o \notin WithOperand \cup Alone \cup Rex \cup {Jb, CallRel}
           /\ (Len(o) = 1 /\ o # <<15>>) \/ (Len(o) = 2 /\ o[1] = 15)
    BY Zenon DEF Encoding
  <2> HIDE DEF o
  <2> QED BY <2>1
<1> HIDE DEF o
<1>3. CASE o = Btr
  BY <1>3 DEF Btr, Byte, o
<1>4. CASE o \in (WithOperand \cup Alone \cup {Jb, CallRel}) \ {Btr}
  <2>1. \E b \in Byte : b \notin 64 .. 79 /\ b # 15 /\ o = <<b>>
    BY <1>4 DEF WithOperand, Alone, Jb, CallRel, IretOp, Byte
  <2> QED BY <2>1 DEF o
<1>5. CASE o \notin Rex /\ Len(o) = 1 /\ o # <<15>>
  <2>1. o[1] \in Byte /\ o = <<o[1]>>
    BY <1>1, <1>5
  <2>2. o[1] \notin 64 .. 79 /\ o[1] # 15
    BY <1>5, <2>1 DEF Rex
  <2> QED BY <2>1, <2>2 DEF o
<1>6. CASE Len(o) = 2 /\ o[1] = 15
  <2>1. o[2] \in Byte /\ o = <<o[1], o[2]>>
    BY <1>1, <1>6
  <2> QED BY <1>6, <2>1 DEF o
<1> QED BY <1>2, <1>3, <1>4, <1>5, <1>6

LEMMA OpcodeRead ==
  ASSUME NEW i \in Instruction, Encoding(i), NEW q \in Nat \ {0}, ReadAt(q, i)
  PROVE  /\ OpcodeOf(i) \in 0 .. 1
         /\ OpAt(q) = q + OpcodeOf(i)
         /\ WantModrm(q) <=> i.opcode \in WithOperand
         /\ IsBtr(q) <=> i.opcode = Btr
         /\ IsJb(q) <=> i.opcode = Jb
         /\ IsCall(q) <=> i.opcode = CallRel
         /\ IsIret(q) <=> i.opcode = IretOp
         /\ Known(q) <=> i.opcode \in WithOperand \cup Alone \cup {Jb, CallRel}
         /\ Known(q) => ModrmAt(q) = q + OperandOf(i)
<1> DEFINE r == OpcodeOf(i)
           o == i.opcode
<1>1. /\ r \in Nat
      /\ \A j \in 1 .. Len(i.rex) : At(q + j - 1) = i.rex[j]
      /\ \A j \in 1 .. Len(o) : At(q + r + j - 1) = o[j]
  BY PartsRead
<1>2. i.rex = <<>> \/ \E b \in 64 .. 79 : i.rex = <<b>>
  BY DEF Encoding, Rex
<1>3. o \in Seq(Byte) /\ Len(o) \in 1 .. 2 /\ o[1] \notin 64 .. 79
  <2>1. o \in Seq(Byte)
    BY DEF Instruction
  <2>2. CASE \E b \in Byte : b \notin 64 .. 79 /\ b # 15 /\ o = <<b>>
    <3>1. PICK b \in Byte : b \notin 64 .. 79 /\ b # 15 /\ o = <<b>>
      BY <2>2
    <3> HIDE DEF o
    <3> QED BY <2>1, <3>1
  <2>3. CASE \E b \in Byte : o = <<15, b>>
    <3>1. PICK b \in Byte : o = <<15, b>>
      BY <2>3
    <3> HIDE DEF o
    <3> QED BY <2>1, <3>1
  <2> QED BY <2>2, <2>3, OpcodeShape
<1>4. At(q + r) = o[1] /\ (Len(o) = 2 => At(q + r + 1) = o[2])
  <2> HIDE DEF o, r
  <2>1. 1 \in 1 .. Len(o) /\ q + r + 1 - 1 = q + r
    <3>1. r \in Nat /\ q \in Nat /\ Len(o) \in 1 .. 2
      BY <1>1, <1>3
    <3> QED BY ONLY <3>1
  <2>2. Len(o) = 2 => 2 \in 1 .. Len(o) /\ q + r + 2 - 1 = q + r + 1
    BY <1>1, <1>3
  <2> QED BY <1>1, <2>1, <2>2
<1>5. r \in 0 .. 1 /\ OpAt(q) = q + r
  <2>1. CASE i.rex = <<>>
    <3>1. r = 0
      BY <2>1 DEF OpcodeOf
    <3>2. At(q) = o[1]
      BY <1>4, <3>1
    <3> QED BY <1>3, <3>1, <3>2 DEF OpAt, HasRex
  <2>2. CASE \E b \in 64 .. 79 : i.rex = <<b>>
    <3>1. PICK b \in 64 .. 79 : i.rex = <<b>>
      BY <2>2
    <3>2. r = 1
      BY <3>1 DEF OpcodeOf
    <3>3. At(q) = b
      <4>1. 1 \in 1 .. Len(i.rex) /\ q + 1 - 1 = q /\ i.rex[1] = b
        BY <3>1
      <4> QED BY <1>1, <4>1
    <3> QED BY <3>1, <3>2, <3>3 DEF OpAt, HasRex
  <2> QED BY <1>2, <2>1, <2>2
<1>6. Op(q) = o[1] /\ (Len(o) = 2 => At(OpAt(q) + 1) = o[2])
  BY <1>4, <1>5 DEF Op
<1>7. OperandOf(i) = r + Len(o)
  BY DEF OperandOf
<1>8. CASE \E b \in Byte : b \notin 64 .. 79 /\ b # 15 /\ o = <<b>>
  <2>1. PICK b \in Byte : b \notin 64 .. 79 /\ b # 15 /\ o = <<b>>
    BY <1>8
  <2>2. Len(o) = 1 /\ o[1] = b
    BY <2>1
  <2>3. Op(q) = b
    BY <1>6, <2>2
  <2>4. ~IsBtr(q) /\ o # Btr
    BY <2>1, <2>3 DEF IsBtr, Btr
  <2>5. (IsIret(q) <=> b = 207) /\ (IsCall(q) <=> b = 232) /\ (IsJb(q) <=> b = 114)
        /\ (IsStack(q) <=> b \in 80 .. 95 \cup {156})
        /\ (WantModrm(q) <=> b \in {135, 137, 139, 141, 142, 255})
    BY <2>3, <2>4 DEF IsIret, IsCall, IsJb, IsStack, WantModrm
  <2>6. (o = IretOp <=> b = 207) /\ (o = CallRel <=> b = 232) /\ (o = Jb <=> b = 114)
        /\ (o \in WithOperand <=> b \in {135, 137, 139, 141, 142, 255})
        /\ (o \in Alone <=> b \in 80 .. 95 \cup {156, 207})
    BY <2>1 DEF IretOp, CallRel, Jb, WithOperand, Alone, Btr
  <2>7. ModrmAt(q) = q + OperandOf(i)
    BY <1>5, <1>7, <2>2, <2>4 DEF ModrmAt
  <2>8. Known(q) <=> o \in WithOperand \cup Alone \cup {Jb, CallRel}
    <3> HIDE DEF o
    <3> QED BY <2>5, <2>6 DEF Known
  <2> QED BY <1>5, <2>4, <2>5, <2>6, <2>7, <2>8
<1>9. CASE \E b \in Byte : o = <<15, b>>
  <2>1. PICK b \in Byte : o = <<15, b>>
    BY <1>9
  <2>2. Len(o) = 2 /\ o[1] = 15 /\ o[2] = b
    BY <2>1
  <2>3. Op(q) = 15 /\ At(OpAt(q) + 1) = b
    BY <1>6, <2>2
  <2>4. IsBtr(q) <=> b = 186
    BY <2>3 DEF IsBtr
  <2>5. ~IsIret(q) /\ ~IsCall(q) /\ ~IsJb(q) /\ ~IsStack(q) /\ (WantModrm(q) <=> b = 186)
    BY <2>3, <2>4 DEF IsIret, IsCall, IsJb, IsStack, WantModrm
  <2>6. o # IretOp /\ o # CallRel /\ o # Jb /\ o \notin Alone
        /\ (o = Btr <=> b = 186) /\ (o \in WithOperand <=> b = 186)
    BY <2>1 DEF IretOp, CallRel, Jb, WithOperand, Alone, Btr
  <2>7. b = 186 => ModrmAt(q) = q + OperandOf(i)
    BY <1>5, <1>7, <2>2, <2>4 DEF ModrmAt
  <2>8. /\ Known(q) <=> o \in WithOperand \cup Alone \cup {Jb, CallRel}
        /\ Known(q) => b = 186
    <3> HIDE DEF o
    <3> QED BY <2>5, <2>6 DEF Known
  <2> QED BY <1>5, <2>4, <2>5, <2>6, <2>7, <2>8
<1> QED BY <1>8, <1>9, OpcodeShape

-----------------------------------------------------------------------------
(* Displacements are added modulo 2^32.                                    *)

Modulus == 4294967296

LEMMA Wraps ==
  ASSUME NEW n \in Int, NEW m \in Int
  PROVE  Bytes4(n + Modulus * m) = Bytes4(n)
<1>1. (n + 4294967296 * m) % 256 = n % 256
  OBVIOUS
<1>2. ((n + 4294967296 * m) \div 256) % 256 = (n \div 256) % 256
  <2>1. (n + 4294967296 * m) \div 256 = n \div 256 + 16777216 * m
    OBVIOUS
  <2>2. n \div 256 \in Int
    OBVIOUS
  <2>3. \A k \in Int : (k + 16777216 * m) % 256 = k % 256
    OBVIOUS
  <2> QED BY ONLY <2>1, <2>2, <2>3
<1>3. ((n + 4294967296 * m) \div 65536) % 256 = (n \div 65536) % 256
  <2>1. (n + 4294967296 * m) \div 65536 = n \div 65536 + 65536 * m
    OBVIOUS
  <2>2. n \div 65536 \in Int
    OBVIOUS
  <2>3. \A k \in Int : (k + 65536 * m) % 256 = k % 256
    OBVIOUS
  <2> QED BY ONLY <2>1, <2>2, <2>3
<1>4. ((n + 4294967296 * m) \div 16777216) % 256 = (n \div 16777216) % 256
  <2>1. (n + 4294967296 * m) \div 16777216 = n \div 16777216 + 256 * m
    OBVIOUS
  <2>2. n \div 16777216 \in Int
    OBVIOUS
  <2>3. \A k \in Int : (k + 256 * m) % 256 = k % 256
    OBVIOUS
  <2> QED BY ONLY <2>1, <2>2, <2>3
<1> QED BY <1>1, <1>2, <1>3, <1>4 DEF Bytes4, Modulus

LEMMA SignedIs ==
  ASSUME NEW n \in Int
  PROVE  \E m \in Int : Signed4(Bytes4(n)) = n + Modulus * m
<1> DEFINE a == n % 256
           b == (n \div 256) % 256
           c == (n \div 65536) % 256
           d == (n \div 16777216) % 256
           h == n \div 4294967296
<1>1. /\ Bytes4(n)[1] = a /\ Bytes4(n)[2] = b /\ Bytes4(n)[3] = c /\ Bytes4(n)[4] = d
  BY DEF Bytes4
<1>2. Signed4(Bytes4(n)) = a + 256 * b + 65536 * c + 16777216 * (IF d < 128 THEN d ELSE d - 256)
  BY <1>1 DEF Signed4
<1>3. a \in Int /\ b \in Int /\ c \in Int /\ d \in Int /\ h \in Int
  OBVIOUS
<1>4. a + 256 * b + 65536 * c + 16777216 * d = n - 4294967296 * h
  <2>1. n = 256 * (n \div 256) + a
    OBVIOUS
  <2>2. n \div 256 = 256 * (n \div 65536) + b
    OBVIOUS
  <2>3. n \div 65536 = 256 * (n \div 16777216) + c
    OBVIOUS
  <2>4. n \div 16777216 = 256 * h + d
    OBVIOUS
  <2>5. n \div 256 \in Int /\ n \div 65536 \in Int /\ n \div 16777216 \in Int
    OBVIOUS
  <2> HIDE DEF a, b, c, d, h
  <2> QED BY <1>3, <2>1, <2>2, <2>3, <2>4, <2>5
<1> HIDE DEF a, b, c, d, h
<1> DEFINE m == IF d < 128 THEN -h ELSE -h - 1
<1>5. m \in Int
  BY <1>3
<1>6. CASE d < 128
  <2>1. Signed4(Bytes4(n)) = n + 4294967296 * (-h)
    BY <1>2, <1>3, <1>4, <1>6
  <2>2. -h \in Int
    BY <1>3
  <2> QED BY <2>1, <2>2 DEF Modulus
<1>7. CASE ~(d < 128)
  <2>1. Signed4(Bytes4(n)) = n + 4294967296 * (-h - 1)
    BY <1>2, <1>3, <1>4, <1>7
  <2>2. -h - 1 \in Int
    BY <1>3
  <2> QED BY <2>1, <2>2 DEF Modulus
<1> QED BY <1>6, <1>7

(* A displacement that is read and moved is the one that was written,      *)
(* moved.                                                                  *)
LEMMA DisplacementMoves ==
  ASSUME NEW v \in Int, NEW d \in Int
  PROVE  Bytes4(Signed4(Bytes4(v)) + d) = Bytes4(v + d)
<1>1. PICK m \in Int : Signed4(Bytes4(v)) = v + Modulus * m
  BY SignedIs
<1>2. Signed4(Bytes4(v)) + d = (v + d) + Modulus * m
  BY <1>1 DEF Modulus
<1>3. v + d \in Int
  OBVIOUS
<1> HIDE <1>1
<1> QED BY <1>2, <1>3, Wraps

-----------------------------------------------------------------------------
(* What a turn of the loop copies.                                         *)

(* The opcode tells of an instruction what decompile_copy takes it for.    *)
LEMMA Kinds ==
  ASSUME NEW i \in Instruction, Encoding(i)
  PROVE  /\ i.opcode \in WithOperand => HasOperand(i) /\ Len(i.imm) = IF i.opcode = Btr THEN 1 ELSE 0
         /\ i.opcode \in Alone => i.operand = <<>> /\ i.target = "none" /\ i.imm = <<>>
         /\ i.opcode = Jb => i.operand = <<>> /\ i.target = "none" /\ Len(i.imm) = 1
         /\ i.opcode = CallRel => i.operand = <<>> /\ i.target = "call" /\ i.imm = <<>>
         /\ i.opcode \in WithOperand => i.opcode \notin Alone \cup {Jb, CallRel}
         /\ i.opcode \in Alone => i.opcode \notin {Jb, CallRel, Btr}
         /\ i.opcode = Jb => i.opcode \notin {CallRel, Btr}
         /\ i.opcode = CallRel => i.opcode # Btr
<1> DEFINE o == i.opcode
<1>1. o \in WithOperand => o \notin Alone \cup {Jb, CallRel}
  BY DEF WithOperand, Alone, Jb, CallRel, IretOp, Btr
<1>2. o \in Alone => o \notin {Jb, CallRel, Btr}
  BY DEF Alone, Jb, CallRel, IretOp, Btr
<1>3. (o = Jb => o \notin {CallRel, Btr}) /\ (o = CallRel => o # Btr)
  BY DEF Jb, CallRel, Btr
<1>4. \/ o \in WithOperand /\ HasOperand(i) /\ Len(i.imm) = (IF o = Btr THEN 1 ELSE 0)
      \/ o \in Alone /\ NoOperand(i, "none") /\ i.imm = <<>>
      \/ o = Jb /\ NoOperand(i, "none") /\ Len(i.imm) = 1
      \/ o = CallRel /\ NoOperand(i, "call") /\ i.imm = <<>>
      \/ o \notin WithOperand \cup Alone \cup Rex \cup {Jb, CallRel}
  BY Zenon DEF Encoding
<1> HIDE DEF o
<1> QED BY <1>1, <1>2, <1>3, <1>4 DEF NoOperand, o

(* Where decompile_copy believes the parts of a known instruction to be is *)
(* where they are.                                                         *)
LEMMA OperandRead ==
  ASSUME NEW i \in Instruction, Encoding(i), NEW q \in Nat \ {0}, ReadAt(q, i), Known(q)
  PROVE  /\ DispAt(q) \in Nat /\ DispAt(q) >= q + 1
         /\ DispSize(q) \in Nat /\ DispAt(q) + DispSize(q) = q + ImmOf(i)
         /\ i.target # "none" => DispAt(q) = q + TargetOf(i)
         /\ i.target = "none" <=> ~IsCall(q) /\ ~IsRip(q)
         /\ i.target = "call" <=> IsCall(q)
         /\ i.target = "data" => IsRip(q)
         /\ End(q) = q + Len(Encoded(i)) - 1
<1> DEFINE o == i.opcode
           l == OperandOf(i)
           m == TargetOf(i)
           n == ImmOf(i)
<1>1. /\ OpcodeOf(i) \in 0 .. 1
      /\ WantModrm(q) <=> o \in WithOperand
      /\ IsBtr(q) <=> o = Btr
      /\ IsJb(q) <=> o = Jb
      /\ IsCall(q) <=> o = CallRel
      /\ o \in WithOperand \cup Alone \cup {Jb, CallRel}
      /\ ModrmAt(q) = q + l
  BY OpcodeRead
<1>2. /\ l \in Nat /\ m \in Nat /\ n \in Nat
      /\ Len(Encoded(i)) = n + Len(i.imm)
      /\ \A j \in 1 .. Len(i.operand) : At(q + l + j - 1) = i.operand[j]
  BY PartsRead
<1>3. l >= 1
  <2>1. Len(o) \in 1 .. 2
    <3> HIDE DEF o
    <3>1. (\E b \in Byte : o = <<b>>) \/ (\E b \in Byte : o = <<15, b>>)
      BY OpcodeShape DEF o
    <3> QED BY <3>1
  <2> HIDE DEF o
  <2>2. l = OpcodeOf(i) + Len(o)
    BY DEF OperandOf, o
  <2> HIDE DEF l
  <2> QED BY <1>1, <2>1, <2>2
<1>4. m = l + Len(i.operand) /\ n = m + (IF i.target = "none" THEN 0 ELSE 4)
  BY DisplacementType DEF TargetOf, ImmOf
<1>5. ImmSize(q) = Len(i.imm)
  <2>1. Len(<<>>) = 0
    OBVIOUS
  <2>2. ImmSize(q) = IF o = Btr \/ o = Jb THEN 1 ELSE 0
    BY <1>1 DEF ImmSize
  <2>3. Len(i.imm) = IF o = Btr \/ o = Jb THEN 1 ELSE 0
    <3>1. o = Btr => o \in WithOperand
      BY DEF WithOperand
    <3> HIDE DEF o
    <3> QED BY <1>1, <2>1, <3>1, Kinds DEF o
  <2> QED BY <2>2, <2>3
<1>6. CASE o \in WithOperand
  <2> DEFINE mod == i.operand[1] \div 64
             rm  == i.operand[1] % 8
             sib == IF mod # 3 /\ rm = 4 THEN 1 ELSE 0
             dis == IF mod = 1 THEN 1 ELSE IF mod = 2 THEN 4 ELSE 0
  <2>1. /\ i.operand # <<>>
        /\ Len(i.operand) = 1 + sib + dis
        /\ i.target = IF mod = 0 /\ rm = 5 THEN "data" ELSE "none"
    BY <1>6, Kinds DEF HasOperand
  <2>2. i.operand \in Seq(Byte)
    BY DEF Instruction
  <2>3. i.operand[1] \in Int /\ At(q + l) = i.operand[1]
    <3>1. 1 \in 1 .. Len(i.operand) /\ i.operand[1] \in Byte
      BY <2>1, <2>2
    <3>2. At(q + l + 1 - 1) = i.operand[1] /\ q + l + 1 - 1 = q + l
      BY <1>2, <3>1
    <3>3. i.operand[1] \in Int
      <4>1. \A b \in Byte : b \in Int
        BY DEF Byte
      <4> QED BY <3>1, <4>1
    <3>4. At(q + l) = i.operand[1]
      <4> DEFINE a == q + l
      <4>1. At(a + 1 - 1) = i.operand[1] /\ a + 1 - 1 = a
        BY <3>2
      <4> HIDE DEF a
      <4>2. At(a) = i.operand[1]
        BY ONLY <4>1
      <4> QED BY <4>2 DEF a
    <3> QED BY <3>3, <3>4
  <2>4. Mod(q) = mod /\ Rm(q) = rm
    BY <1>1, <2>3 DEF Mod, Rm
  <2>5. mod \in Int /\ rm \in Int
    BY <2>3
  <2> HIDE DEF mod, rm, o, l, m, n
  <2>6. DispAt(q) = q + l + 1 + sib
    BY <1>1, <1>2, <1>6, <2>4 DEF DispAt, WantSib
  <2>7. ~IsCall(q) /\ (IsRip(q) <=> mod = 0 /\ rm = 5)
    <3>1. o # CallRel
      BY <1>6, Kinds DEF o
    <3> QED BY <1>1, <1>6, <2>4, <3>1 DEF IsRip
  <2>8. DispSize(q) = IF mod = 0 /\ rm = 5 THEN 4 ELSE dis
    BY <1>1, <1>6, <2>4, <2>7 DEF DispSize
  <2>9. mod = 0 /\ rm = 5 => sib = 0 /\ dis = 0
    OBVIOUS
  <2>10. sib \in 0 .. 1 /\ dis \in 0 .. 4
    OBVIOUS
  <2>11. i.target = "data" <=> mod = 0 /\ rm = 5
    BY <2>1
  <2>12. i.target = "none" <=> ~(mod = 0 /\ rm = 5)
    BY <2>1
  <2> HIDE DEF sib, dis
  <2>13. DispAt(q) + DispSize(q) = q + n
    <3>1. CASE mod = 0 /\ rm = 5
      <4>1. m = l + 1 /\ n = m + 4
        BY <1>2, <1>4, <2>1, <2>9, <2>12, <3>1
      <4> QED BY <1>2, <2>6, <2>8, <2>9, <3>1, <4>1
    <3>2. CASE ~(mod = 0 /\ rm = 5)
      <4>1. m = l + 1 + sib + dis /\ n = m
        BY <1>2, <1>4, <2>1, <2>10, <2>12, <3>2
      <4> QED BY <1>2, <2>6, <2>8, <2>10, <3>2, <4>1
    <3> QED BY <3>1, <3>2
  <2>14. i.target # "none" => DispAt(q) = q + m
    BY <1>2, <1>4, <2>1, <2>6, <2>9, <2>12
  <2>15. DispAt(q) \in Nat /\ DispAt(q) >= q + 1 /\ DispSize(q) \in Nat
    BY <1>2, <1>3, <2>6, <2>8, <2>10
  <2>16. End(q) = q + Len(Encoded(i)) - 1
    <3>1. Len(i.imm) \in Nat
      BY DEF Instruction
    <3> QED BY <1>2, <1>5, <2>13, <2>15, <3>1 DEF End
  <2> QED BY <2>1, <2>7, <2>11, <2>12, <2>13, <2>14, <2>15, <2>16 DEF m, n
<1>7. CASE o \notin WithOperand
  <2>1. i.operand = <<>> /\ (i.target = "none" <=> o # CallRel) /\ (i.target = "call" <=> o = CallRel)
        /\ i.target # "data"
    <3> HIDE DEF o
    <3> QED BY <1>1, <1>7, Kinds DEF o
  <2>2. Len(i.operand) = 0
    BY <2>1
  <2>3. ~WantModrm(q) /\ ~IsRip(q) /\ (IsCall(q) <=> o = CallRel)
    BY <1>1, <1>7 DEF IsRip
  <2> HIDE DEF o, l, m, n
  <2>4. DispAt(q) = q + l /\ DispSize(q) = IF o = CallRel THEN 4 ELSE 0
    BY <1>1, <1>2, <2>3 DEF DispAt, DispSize
  <2>5. m = l /\ n = l + (IF o = CallRel THEN 4 ELSE 0)
    BY <1>2, <1>4, <2>1, <2>2
  <2>6. /\ DispAt(q) \in Nat /\ DispAt(q) >= q + 1
        /\ DispSize(q) \in Nat /\ DispAt(q) + DispSize(q) = q + n
        /\ DispAt(q) = q + m
    BY <1>2, <1>3, <2>4, <2>5
  <2>7. End(q) = q + Len(Encoded(i)) - 1
    <3>1. Len(i.imm) \in Nat
      BY DEF Instruction
    <3> QED BY <1>2, <1>5, <2>6, <3>1 DEF End
  <2> QED BY <2>1, <2>3, <2>6, <2>7 DEF m, n
<1> QED BY <1>6, <1>7

(* Bytes that are read are those that are there.                           *)
LEMMA SliceIs ==
  ASSUME NEW s \in Seq(Byte), NEW from \in Nat, NEW to \in Int, to = from + Len(s) - 1,
         \A j \in 1 .. Len(s) : At(from + j - 1) = s[j]
  PROVE  Slice(from, to) = s
<1>1. to + 1 - from = Len(s)
  OBVIOUS
<1>2. Slice(from, to) = [j \in 1 .. Len(s) |-> At(from + j - 1)]
  BY <1>1 DEF Slice
<1>3. Slice(from, to) = [j \in 1 .. Len(s) |-> s[j]]
  BY <1>2
<1>4. s = [j \in 1 .. Len(s) |-> s[j]]
  OBVIOUS
<1> QED BY <1>3, <1>4

LEMMA SlicesMeet ==
  ASSUME NEW x \in Nat, NEW y \in Nat, NEW z \in Int, x <= y, y <= z + 1
  PROVE  Slice(x, y - 1) \o Slice(y, z) = Slice(x, z)
<1> DEFINE a == Slice(x, y - 1)
           b == Slice(y, z)
           c == Slice(x, z)
           s == a \o b
<1>1. /\ y - 1 + 1 - x = y - x /\ y - x \in Nat
      /\ z + 1 - y \in Nat /\ z + 1 - x \in Nat
  OBVIOUS
<1>2. a = [j \in 1 .. (y - x) |-> At(x + j - 1)]
  BY <1>1 DEF Slice
<1>3. b = [j \in 1 .. (z + 1 - y) |-> At(y + j - 1)] /\ c = [j \in 1 .. (z + 1 - x) |-> At(x + j - 1)]
  BY DEF Slice
<1> HIDE DEF a, b, c
<1>4. Len(a) = y - x /\ DOMAIN a = 1 .. (y - x) /\ Len(b) = z + 1 - y /\ DOMAIN b = 1 .. (z + 1 - y)
  BY <1>1, <1>2, <1>3
<1>5. s = [j \in 1 .. (Len(a) + Len(b)) |-> IF j <= Len(a) THEN a[j] ELSE b[j - Len(a)]]
  BY <1>1, <1>2, <1>3
<1>6. Len(a) + Len(b) = z + 1 - x
  BY <1>4
<1>7. ASSUME NEW j \in 1 .. (z + 1 - x)
      PROVE  (IF j <= Len(a) THEN a[j] ELSE b[j - Len(a)]) = At(x + j - 1)
  <2>1. CASE j <= y - x
    BY <1>1, <1>2, <1>4, <2>1
  <2>2. CASE ~(j <= y - x)
    <3>1. j - (y - x) \in 1 .. (z + 1 - y) /\ y + (j - (y - x)) - 1 = x + j - 1
      BY <1>1, <2>2
    <3>2. b[j - (y - x)] = At(y + (j - (y - x)) - 1)
      BY <1>3, <3>1
    <3> QED BY <1>4, <2>2, <3>1, <3>2
  <2> QED BY <2>1, <2>2
<1> HIDE DEF s
<1>8. s = [j \in 1 .. (z + 1 - x) |-> At(x + j - 1)]
  BY <1>5, <1>6, <1>7
<1> QED BY <1>3, <1>8 DEF s, a, b, c

(* What decompile_copy makes of an instruction is the instruction as it    *)
(* has to be at the other place.                                           *)
MovedTo(i, next) == [i EXCEPT !.value = MovedValue(i, next)]

LEMMA CopyIs ==
  ASSUME NEW i \in Instruction, Encoding(i), NEW q \in Nat \ {0}, ReadAt(q, i), Known(q)
  PROVE  CopyOf(q) = Encoded(MovedTo(i, q + Len(Encoded(i)) - 1))
<1> DEFINE next == q + Len(Encoded(i)) - 1
           k == MovedTo(i, next)
           v == MovedValue(i, next)
<1>1. /\ k.rex = i.rex /\ k.opcode = i.opcode /\ k.operand = i.operand /\ k.imm = i.imm
      /\ k.target = i.target /\ k.value = v
  BY DEF MovedTo, Instruction
<1>2. /\ OperandOf(i) \in Nat /\ TargetOf(i) \in Nat /\ ImmOf(i) \in Nat
      /\ Len(Encoded(i)) = ImmOf(i) + Len(i.imm)
      /\ \A j \in 1 .. Len(Displacement(i)) : At(q + TargetOf(i) + j - 1) = Displacement(i)[j]
      /\ \A j \in 1 .. Len(i.imm) : At(q + ImmOf(i) + j - 1) = i.imm[j]
  BY PartsRead
<1>3. /\ DispAt(q) \in Nat /\ DispAt(q) >= q + 1
      /\ DispSize(q) \in Nat /\ DispAt(q) + DispSize(q) = q + ImmOf(i)
      /\ i.target # "none" => DispAt(q) = q + TargetOf(i)
      /\ i.target = "none" <=> ~IsCall(q) /\ ~IsRip(q)
      /\ i.target = "call" <=> IsCall(q)
      /\ i.target = "data" => IsRip(q)
      /\ End(q) = q + Len(Encoded(i)) - 1
  BY OperandRead
<1>4. Encoded(i) \in Seq(Byte) /\ Len(Encoded(i)) \in Nat /\ Len(i.imm) \in Nat
  BY EncodedType DEF Instruction
<1>5. CASE i.target = "none"
  <2> DEFINE x == DispAt(q)
             y == q + ImmOf(i)
             z == End(q)
           w == DispSize(q)
           n == ImmOf(i)
           l == Len(i.imm)
  <2>7. /\ x \in Nat /\ w \in Nat /\ n \in Nat /\ l \in Nat /\ x >= q + 1 /\ x + w = y /\ y = q + n
        /\ z = q + Len(Encoded(i)) - 1 /\ Len(Encoded(i)) = n + l
    BY <1>2, <1>3, <1>4
  <2>1. CopyOf(q) = Slice(q, x - 1) \o Slice(x, y - 1) \o Slice(y, z)
    <3>1. CopiedDisp(q) = Slice(x, x + w - 1)
      BY <1>3, <1>5 DEF CopiedDisp
    <3>2. CopyOf(q) = Slice(q, x - 1) \o CopiedDisp(q) \o Slice(x + w, z)
      BY DEF CopyOf
    <3>3. x + w = y /\ x + w - 1 = y - 1
      BY <2>7
    <3> HIDE DEF x, y, z, w
    <3> QED BY <3>1, <3>2, <3>3, Zenon
  <2> HIDE DEF x, y, z, w, n, l
  <2>2. q <= x /\ x <= y /\ y <= z + 1 /\ x \in Nat /\ y \in Nat /\ z \in Int /\ y - 1 \in Int /\ x <= (y - 1) + 1 /\ q <= y
    <3>1. q \in Nat
      OBVIOUS
    <3> QED BY ONLY <2>7, <3>1
  <2>3. Slice(q, x - 1) \o Slice(x, y - 1) = Slice(q, y - 1)
    BY <2>2, SlicesMeet
  <2>4. Slice(q, y - 1) \o Slice(y, z) = Slice(q, z)
    BY <2>2, SlicesMeet
  <2>5. Slice(q, z) = Encoded(i)
    <3>1. z = q + Len(Encoded(i)) - 1
      BY <1>3 DEF z
    <3>2. \A j \in 1 .. Len(Encoded(i)) : At(q + j - 1) = Encoded(i)[j]
      BY DEF ReadAt
    <3> QED BY <1>4, <2>2, <3>1, <3>2, SliceIs
  <2>6. Encoded(k) = Encoded(i)
    <3> HIDE DEF k
    <3> QED BY <1>1, <1>5 DEF Encoded, Displacement
  <2> QED BY <2>1, <2>3, <2>4, <2>5, <2>6
<1>6. CASE i.target # "none"
  <2> DEFINE head == i.rex \o i.opcode \o i.operand
  <2>1. head \in Seq(Byte) /\ Len(head) = TargetOf(i) /\ \A j \in 1 .. Len(head) : At(q + j - 1) = head[j]
    <3> DEFINE tail == Displacement(i) \o i.imm
    <3>1. /\ i.rex \in Seq(Byte) /\ i.opcode \in Seq(Byte) /\ i.operand \in Seq(Byte) /\ i.imm \in Seq(Byte)
          /\ Displacement(i) \in Seq(Byte)
      BY DisplacementType DEF Instruction
    <3>2. head \in Seq(Byte) /\ Len(head) = Len(i.rex) + Len(i.opcode) + Len(i.operand)
      BY <3>1
    <3>3. TargetOf(i) = Len(i.rex) + Len(i.opcode) + Len(i.operand)
      BY DEF TargetOf, OperandOf, OpcodeOf
    <3> DEFINE d == Displacement(i)
               e == i.imm
    <3>4. Encoded(i) = head \o d \o e
      BY DEF Encoded
    <3>5. d \in Seq(Byte) /\ e \in Seq(Byte)
      BY <3>1
    <3> HIDE DEF head, d, e
    <3> DEFINE hd == head \o d
    <3>6. hd \in Seq(Byte) /\ Len(hd) = Len(head) + Len(d) /\ \A j \in 1 .. Len(head) : hd[j] = head[j]
      BY <3>2, <3>5, TwoParts
    <3> HIDE DEF hd
    <3>7. hd \o e \in Seq(Byte) /\ Len(hd \o e) = Len(hd) + Len(e) /\ \A j \in 1 .. Len(hd) : (hd \o e)[j] = hd[j]
      BY <3>5, <3>6, TwoParts
    <3>14. \A s \in Seq(Byte) : Len(s) \in Nat
      OBVIOUS
    <3>8. Len(head) \in Nat /\ Len(d) \in Nat /\ Len(e) \in Nat
      BY ONLY <3>2, <3>5, <3>14
    <3>9. Encoded(i) = hd \o e
      BY <3>4 DEF hd
    <3>10. \A j \in 1 .. Len(head) : j \in 1 .. Len(hd) /\ j \in 1 .. Len(hd \o e)
      BY <3>6, <3>7, <3>8
    <3>11. \A j \in 1 .. Len(head) : (hd \o e)[j] = head[j]
      BY <3>6, <3>7, <3>10
    <3>12. \A j \in 1 .. Len(hd \o e) : At(q + j - 1) = (hd \o e)[j]
      BY <3>9 DEF ReadAt
    <3>13. \A j \in 1 .. Len(head) : At(q + j - 1) = head[j]
      BY <3>10, <3>11, <3>12
    <3> QED BY <3>2, <3>3, <3>13
  <2> DEFINE m == TargetOf(i)
             n == ImmOf(i)
  <2>2. n = m + 4
    BY <1>6, DisplacementType DEF ImmOf
  <2>3. DispAt(q) = q + m /\ DispSize(q) = 4
    BY <1>2, <1>3, <1>6, <2>2
  <2>9. m \in Nat /\ n \in Nat /\ q \in Nat /\ Len(i.imm) \in Nat
        /\ next = q + Len(Encoded(i)) - 1 /\ Len(Encoded(i)) = n + Len(i.imm)
    BY <1>2, <1>4
  <2> HIDE DEF m, n, next
  <2>4. Slice(q, DispAt(q) - 1) = head
    <3> HIDE DEF head
    <3>1. DispAt(q) - 1 = q + Len(head) - 1 /\ DispAt(q) - 1 \in Int
      BY ONLY <2>1, <2>3, <2>9 DEF m
    <3> QED BY <2>1, <2>9, <3>1, SliceIs
  <2>5. Slice(DispAt(q) + DispSize(q), End(q)) = i.imm
    <3> DEFINE from == q + n
    <3>1. DispAt(q) + DispSize(q) = from /\ from \in Nat /\ End(q) \in Int /\ End(q) = from + Len(i.imm) - 1
      <4>1. End(q) = q + (n + Len(i.imm)) - 1
        <5>1. End(q) = q + Len(Encoded(i)) - 1
          BY <1>3
        <5> QED BY ONLY <2>9, <5>1
      <4>2. from \in Nat /\ from = q + n
        BY ONLY <2>9
      <4>3. DispAt(q) + DispSize(q) = from
        BY ONLY <2>2, <2>3, <2>9, <4>2
      <4> HIDE DEF from
      <4>4. End(q) \in Int /\ End(q) = from + Len(i.imm) - 1
        <5> DEFINE last == End(q)
                   b == Len(i.imm)
        <5>1. last = q + (n + b) - 1 /\ b \in Nat /\ n \in Nat /\ q \in Nat /\ from = q + n
          BY <2>9, <4>1, <4>2
        <5> HIDE DEF last, b
        <5>2. last \in Int /\ last = from + b - 1
          BY ONLY <5>1
        <5> QED BY <5>2 DEF last, b
      <4> QED BY <4>2, <4>3, <4>4
    <3>2. i.imm \in Seq(Byte) /\ \A j \in 1 .. Len(i.imm) : At(from + j - 1) = i.imm[j]
      BY <1>2 DEF Instruction, n
    <3> HIDE DEF from
    <3> QED BY <3>1, <3>2, SliceIs
  <2>6. CopiedDisp(q) = Bytes4(v)
    <3>1. CASE i.target = "call"
      <4>1. CopiedDisp(q) = Bytes4(CoreAddr - (OutAddr + DispAt(q) - 1) - 4)
        BY <1>3, <3>1 DEF CopiedDisp
      <4>2. i.imm = <<>>
        <5>1. i.opcode = CallRel
          BY <1>3, <3>1, OpcodeRead
        <5> QED BY <5>1, Kinds
      <4>3. Len(i.imm) = 0
        BY <4>2
      <4>4. v = CoreAddr - (OutAddr + next)
        BY <3>1 DEF MovedValue
      <4>5. CoreAddr - (OutAddr + DispAt(q) - 1) - 4 = CoreAddr - (OutAddr + next)
        <5>1. CoreAddr \in Nat /\ OutAddr \in Nat
          BY AddressAssumption
        <5> QED BY ONLY <2>2, <2>3, <2>9, <4>3, <5>1
      <4> QED BY <4>1, <4>4, <4>5
    <3>2. CASE i.target = "data"
      <4> DEFINE old == Slice(DispAt(q), DispAt(q) + 3)
      <4>1. CopiedDisp(q) = Bytes4(Signed4(old) + distance)
        BY <1>3, <3>2 DEF CopiedDisp
      <4>2. old = Bytes4(i.value)
        <5> DEFINE d == Displacement(i)
                   from == q + m
        <5>1. d = Bytes4(i.value)
          BY <3>2 DEF Displacement
        <5>2. d \in Seq(Byte) /\ Len(d) = 4
          BY <3>2, DisplacementType
        <5>3. \A j \in 1 .. Len(d) : At(from + j - 1) = d[j]
          BY <1>2 DEF m
        <5>4. from \in Nat /\ DispAt(q) = from /\ from + 3 \in Int /\ from + 3 = from + Len(d) - 1
          <6> HIDE DEF d
          <6> QED BY ONLY <2>3, <2>9, <5>2
        <5> HIDE DEF d, from
        <5>5. Slice(from, from + 3) = d
          BY <5>2, <5>3, <5>4, SliceIs
        <5> QED BY <5>1, <5>4, <5>5
      <4>3. i.value \in Int /\ distance \in Int
        BY AddressAssumption DEF Instruction, distance
      <4>4. v = (InAddr + next + i.value) - (OutAddr + next)
        BY <3>2 DEF MovedValue
      <4>5. v = i.value + distance
        <5>1. next \in Int
          BY ONLY <2>9
        <5>2. InAddr \in Nat /\ OutAddr \in Nat
          BY AddressAssumption
        <5> HIDE DEF v
        <5> QED BY ONLY <4>3, <4>4, <5>1, <5>2 DEF distance
      <4> QED BY <4>1, <4>2, <4>3, <4>5, DisplacementMoves
    <3> QED BY <1>6, <3>1, <3>2 DEF Instruction
  <2>7. CopyOf(q) = head \o Bytes4(v) \o i.imm
    BY <2>4, <2>5, <2>6 DEF CopyOf
  <2>8. Encoded(k) = head \o Bytes4(v) \o i.imm
    <3>1. Displacement(k) = Bytes4(v)
      <4> HIDE DEF k, v
      <4> QED BY <1>1, <1>6, Zenon DEF Displacement
    <3>2. Encoded(k) = i.rex \o i.opcode \o i.operand \o Bytes4(v) \o i.imm
      <4> HIDE DEF k, v
      <4> QED BY <1>1, <3>1, Zenon DEF Encoded
    <3> HIDE DEF k, v
    <3> QED BY <3>2, Zenon DEF head
  <2>10. CopyOf(q) = Encoded(k)
    <3> HIDE DEF k, v, head
    <3> QED BY <2>7, <2>8
  <2> QED BY <2>10 DEF next
<1> QED BY <1>5, <1>6

-----------------------------------------------------------------------------
(* Where the instructions of the trampoline are, and those of its copy.    *)

LEMMA AtInstruction ==
  ASSUME program \in Programs, NEW k \in 1 .. Len(program)
  PROVE  /\ program \in Seq(Instruction) /\ program[k] \in Instruction /\ Encoding(program[k])
         /\ Len(CodeUpTo(program)[k - 1]) \in Nat
         /\ ReadAt(Len(CodeUpTo(program)[k - 1]) + 1, program[k])
<1>1. program \in Seq(Instruction) /\ Encoding(program[k])
  BY ProgramsAssumption
<1> DEFINE q == Len(CodeUpTo(program)[k - 1])
           n == Len(CodeUpTo(program)[k])
           e == Encoded(program[k])
           c == Code(program)
<1>2. /\ q \in Nat /\ Len(e) \in Nat /\ n = q + Len(e) /\ n <= Len(c)
      /\ \A j \in 1 .. Len(e) : c[q + j] = e[j]
  BY <1>1, CodeAfter
<1>4. Len(c) \in Nat
  <2>1. c \in Seq(Byte)
    BY CodeType
  <2> HIDE DEF c
  <2> QED BY <2>1
<1> HIDE DEF q, n, e, c
<1>3. ASSUME NEW j \in 1 .. Len(e) PROVE At(q + 1 + j - 1) = e[j]
  <2>1. q + 1 + j - 1 = q + j /\ q + j <= Len(c)
    BY <1>2, <1>4
  <2>2. At(q + j) = c[q + j]
    BY <2>1 DEF At, c
  <2> QED BY <1>2, <2>1, <2>2
<1> QED BY <1>1, <1>2, <1>3 DEF ReadAt, q, e

(* Behind the trampoline is nothing decompile_copy knows.                  *)
LEMMA PastTheEnd ==
  ASSUME program \in Programs, NEW q, q = Len(Code(program)) + 1
  PROVE  ~Known(q)
<1>1. Code(program) \in Seq(Byte)
  BY CodeType
<1>2. At(q) = 144
  <2> DEFINE c == Code(program)
  <2> HIDE DEF c
  <2>1. ~(q <= Len(c))
    BY <1>1 DEF c
  <2> QED BY <2>1 DEF At, Nop, c
<1>3. Op(q) = 144
  BY <1>2 DEF Op, OpAt, HasRex
<1>4. ~IsBtr(q) /\ ~IsIret(q) /\ ~IsCall(q) /\ ~IsJb(q)
  BY <1>3 DEF IsBtr, IsIret, IsCall, IsJb
<1>5. ~IsStack(q) /\ ~WantModrm(q)
  BY <1>3, <1>4 DEF IsStack, WantModrm
<1> QED BY <1>4, <1>5 DEF Known

LEMMA MovedType ==
  ASSUME NEW i \in Instruction, NEW next \in Nat
  PROVE  MovedTo(i, next) \in Instruction
<1>1. i.value \in Int /\ i.target \in {"none", "data", "call"}
  BY DEF Instruction
<1>2. MovedValue(i, next) \in Int
  BY <1>1, AddressAssumption DEF MovedValue
<1> QED BY <1>2 DEF MovedTo, Instruction

LEMMA SameLength ==
  ASSUME NEW i \in Instruction, NEW next \in Nat
  PROVE  Len(Encoded(MovedTo(i, next))) = Len(Encoded(i))
<1> DEFINE k == MovedTo(i, next)
<1>1. /\ k.rex = i.rex /\ k.opcode = i.opcode /\ k.operand = i.operand /\ k.imm = i.imm
      /\ k.target = i.target
  BY DEF MovedTo, Instruction
<1>2. k \in Instruction
  BY MovedType
<1>3. i.rex \in Seq(Byte) /\ i.opcode \in Seq(Byte) /\ i.operand \in Seq(Byte) /\ i.imm \in Seq(Byte)
  BY DEF Instruction
<1> HIDE DEF k
<1> DEFINE d == Displacement(i)
           e == Displacement(k)
<1>4. d \in Seq(Byte) /\ e \in Seq(Byte) /\ Len(d) = Len(e)
  BY <1>1, <1>2, DisplacementType
<1>5. Encoded(i) = i.rex \o i.opcode \o i.operand \o d \o i.imm
  BY DEF Encoded
<1>6. Encoded(k) = i.rex \o i.opcode \o i.operand \o e \o i.imm
  BY <1>1, Zenon DEF Encoded
<1> HIDE DEF d, e
<1>7. Len(i.rex \o i.opcode \o i.operand \o d \o i.imm)
      = Len(i.rex) + Len(i.opcode) + Len(i.operand) + Len(d) + Len(i.imm)
  <2>1. ConsistsOf(i.rex \o i.opcode \o i.operand \o d \o i.imm, i.rex, i.opcode, i.operand, d, i.imm)
    BY <1>3, <1>4, FiveParts
  <2> QED BY <2>1 DEF ConsistsOf
<1>8. Len(i.rex \o i.opcode \o i.operand \o e \o i.imm)
      = Len(i.rex) + Len(i.opcode) + Len(i.operand) + Len(e) + Len(i.imm)
  <2>1. ConsistsOf(i.rex \o i.opcode \o i.operand \o e \o i.imm, i.rex, i.opcode, i.operand, e, i.imm)
    BY <1>3, <1>4, FiveParts
  <2> QED BY <2>1 DEF ConsistsOf
<1> QED BY ONLY <1>4, <1>5, <1>6, <1>7, <1>8 DEF k

LEMMA MovedIs ==
  ASSUME NEW is \in Seq(Instruction)
  PROVE  /\ Moved(is) \in Seq(Instruction) /\ Len(Moved(is)) = Len(is)
         /\ \A k \in 1 .. Len(is) : Moved(is)[k] = MovedTo(is[k], Len(CodeUpTo(is)[k]))
<1> DEFINE N == Len(is)
<1>1. N \in Nat /\ DOMAIN is = 1 .. N
  OBVIOUS
<1>2. \A k \in 1 .. N : is[k] \in Instruction /\ Len(CodeUpTo(is)[k]) \in Nat
  <2> TAKE k \in 1 .. N
  <2>1. k \in 0 .. N
    BY <1>1
  <2>2. CodeUpTo(is)[k] \in Seq(Byte)
    BY <2>1, CodeUpToIs
  <2> QED BY <2>2
<1>3. Moved(is) = [k \in 1 .. N |-> MovedTo(is[k], Len(CodeUpTo(is)[k]))]
  BY <1>1, Zenon DEF Moved, MovedTo
<1> DEFINE f == [k \in 1 .. N |-> MovedTo(is[k], Len(CodeUpTo(is)[k]))]
<1>4. f \in [1 .. N -> Instruction]
  BY <1>2, MovedType
<1> HIDE DEF N, f
<1>5. f \in Seq(Instruction) /\ Len(f) = N
  BY <1>1, <1>4
<1>6. \A k \in 1 .. N : f[k] = MovedTo(is[k], Len(CodeUpTo(is)[k]))
  BY DEF f
<1>7. Moved(is) = f
  BY <1>3 DEF f
<1> QED BY <1>5, <1>6, <1>7 DEF N

(* An instruction more of the trampoline, and of the copy.                 *)
LEMMA CopyGrows ==
  ASSUME NEW is \in Seq(Instruction), NEW k \in 1 .. Len(is)
  PROVE  LET next == Len(CodeUpTo(is)[k])
         IN  CodeUpTo(Moved(is))[k] = CodeUpTo(Moved(is))[k - 1] \o Encoded(MovedTo(is[k], next))
<1>1. Moved(is) \in Seq(Instruction) /\ Len(Moved(is)) = Len(is)
      /\ Moved(is)[k] = MovedTo(is[k], Len(CodeUpTo(is)[k]))
  BY MovedIs
<1> QED BY <1>1, CodeUpToIs

(* The copy is as long as what it is a copy of.                            *)
LEMMA SameLengths ==
  ASSUME NEW is \in Seq(Instruction)
  PROVE  \A k \in 0 .. Len(is) : Len(CodeUpTo(Moved(is))[k]) = Len(CodeUpTo(is)[k])
<1> DEFINE N == Len(is)
           f == CodeUpTo(is)
           g == CodeUpTo(Moved(is))
           S == {k \in Nat : Len(g[k]) = Len(f[k])}
<1>1. N \in Nat
  OBVIOUS
<1>2. Moved(is) \in Seq(Instruction) /\ Len(Moved(is)) = N
  BY MovedIs
<1>3. 0 \in S
  BY <1>2, CodeUpToIs
<1>4. ASSUME NEW k \in 1 .. N, k - 1 \in S PROVE k \in S
  <2> DEFINE e == Encoded(is[k])
             c == Encoded(MovedTo(is[k], Len(f[k])))
             a == f[k - 1]
             b == g[k - 1]
  <2>1. k \in 0 .. N /\ k - 1 \in 0 .. N /\ k \in Nat
    BY <1>1
  <2>2. f[k] \in Seq(Byte) /\ a \in Seq(Byte) /\ f[k] = a \o e
    BY <2>1, CodeUpToIs
  <2>3. b \in Seq(Byte)
    BY <1>2, <2>1, CodeUpToIs
  <2>4. g[k] = b \o c
    BY CopyGrows
  <2>5. is[k] \in Instruction /\ Len(f[k]) \in Nat
    <3>1. \A s \in Seq(Byte) : Len(s) \in Nat
      OBVIOUS
    <3>2. is[k] \in Instruction
      OBVIOUS
    <3> HIDE DEF f
    <3> QED BY <2>2, <3>1, <3>2
  <2>6. e \in Seq(Byte) /\ c \in Seq(Byte) /\ Len(c) = Len(e)
    BY <2>5, EncodedType, MovedType, SameLength
  <2>7. Len(b) = Len(a)
    BY <1>4
  <2> HIDE DEF a, b, c, e, f, g
  <2>8. Len(f[k]) = Len(a) + Len(e) /\ Len(g[k]) = Len(b) + Len(c)
    BY <2>2, <2>3, <2>4, <2>6, Appended
  <2> QED BY <2>1, <2>6, <2>7, <2>8
<1> HIDE DEF N, S
<1>5. 0 .. N \subseteq S
  BY <1>1, <1>3, <1>4, UpToInduct
<1> QED BY <1>5 DEF N, S

LEMMA CodeGrows ==
  ASSUME NEW is \in Seq(Instruction), NEW k \in 0 .. Len(is), NEW n \in k .. Len(is)
  PROVE  Len(CodeUpTo(is)[k]) \in Nat /\ Len(CodeUpTo(is)[n]) \in Nat
         /\ Len(CodeUpTo(is)[k]) <= Len(CodeUpTo(is)[n])
<1> DEFINE N == Len(is)
           L(j) == Len(CodeUpTo(is)[j])
           S == {m \in Nat : L(k) <= L(k + m)}
<1>1. N \in Nat
  OBVIOUS
<1>2. \A j \in 0 .. N : L(j) \in Nat
  <2> TAKE j \in 0 .. N
  <2>1. CodeUpTo(is)[j] \in Seq(Byte)
    BY CodeUpToIs
  <2> QED BY <2>1
<1>3. \A j \in 1 .. N : L(j - 1) <= L(j)
  <2> TAKE j \in 1 .. N
  <2>1. L(j - 1) \in Nat /\ Len(Encoded(is[j])) \in Nat /\ L(j) = L(j - 1) + Len(Encoded(is[j]))
    BY CodeAfter
  <2> HIDE DEF L
  <2> QED BY <2>1
<1> HIDE DEF N, L
<1>a. k \in Nat /\ n \in Nat /\ N - k \in Nat /\ n - k \in 0 .. (N - k) /\ k + (n - k) = n
      /\ k \in 0 .. N /\ n \in 0 .. N
  BY <1>1 DEF N
<1>4. 0 \in S
  <2>1. L(k) \in Nat /\ k + 0 = k
    BY <1>2, <1>a
  <2> QED BY <2>1
<1>5. ASSUME NEW m \in 1 .. (N - k), m - 1 \in S PROVE m \in S
  <2>1. k + m \in 1 .. N /\ k + (m - 1) = (k + m) - 1 /\ (k + m) - 1 \in 0 .. N /\ k + m \in 0 .. N /\ m \in Nat
    BY <1>1, <1>a
  <2>2. L(k) <= L((k + m) - 1) /\ L((k + m) - 1) <= L(k + m)
    BY <1>3, <1>5, <2>1
  <2>3. L(k) \in Nat /\ L((k + m) - 1) \in Nat /\ L(k + m) \in Nat
    BY <1>2, <1>a, <2>1
  <2>4. \A u, v, w \in Nat : u <= v /\ v <= w => u <= w
    OBVIOUS
  <2>5. L(k) <= L(k + m)
    BY ONLY <2>2, <2>3, <2>4
  <2> QED BY <2>1, <2>5
<1>6. 0 .. (N - k) \subseteq S
  <2> HIDE DEF S
  <2> QED BY <1>a, <1>4, <1>5, UpToInduct
<1>7. L(k) <= L(n)
  BY <1>6, <1>a
<1> QED BY <1>2, <1>a, <1>7 DEF L

-----------------------------------------------------------------------------
(* The first iret.                                                         *)

IsFirstIret(k) == k \in DOMAIN program /\ IretAt(k) /\ \A j \in 1 .. (k - 1) : ~IretAt(j)

LEMMA FirstIretExists ==
  ASSUME program \in Seq(Instruction), HasIret
  PROVE  IsFirstIret(FirstIret)
<1> DEFINE N == Len(program)
           S == {n \in Nat : \A j \in 1 .. n : ~IretAt(j)}
<1>1. N \in Nat /\ DOMAIN program = 1 .. N
  OBVIOUS
<1>2. \E k \in DOMAIN program : IretAt(k) /\ \A j \in 1 .. (k - 1) : ~IretAt(j)
  <2> SUFFICES ASSUME ~ \E k \in DOMAIN program : IretAt(k) /\ \A j \in 1 .. (k - 1) : ~IretAt(j)
               PROVE  FALSE
    OBVIOUS
  <2>1. 0 \in S
    OBVIOUS
  <2>2. ASSUME NEW n \in 1 .. N, n - 1 \in S PROVE n \in S
    <3>1. \A j \in 1 .. (n - 1) : ~IretAt(j)
      BY <2>2
    <3>2. ~IretAt(n)
      BY <1>1, <3>1
    <3>3. \A j \in 1 .. n : j = n \/ j \in 1 .. (n - 1)
      OBVIOUS
    <3>4. \A j \in 1 .. n : ~IretAt(j)
      BY ONLY <3>1, <3>2, <3>3
    <3> QED BY <3>4
  <2>3. N \in S
    <3> HIDE DEF S, N
    <3>1. 0 .. N \subseteq S
      BY <1>1, <2>1, <2>2, UpToInduct
    <3> QED BY <1>1, <3>1
  <2>4. \A j \in 1 .. N : ~IretAt(j)
    BY <2>3
  <2> QED BY <1>1, <2>4 DEF HasIret
<1> QED BY <1>2, Zenon DEF FirstIret, IsFirstIret

LEMMA FirstIretIs ==
  ASSUME program \in Seq(Instruction), NEW k, IsFirstIret(k)
  PROVE  FirstIret = k
<1> DEFINE n == FirstIret
<1>1. HasIret
  BY DEF HasIret, IsFirstIret
<1>2. IsFirstIret(n)
  BY <1>1, FirstIretExists
<1>3. DOMAIN program = 1 .. Len(program) /\ Len(program) \in Nat
  OBVIOUS
<1> HIDE DEF n
<1>4. /\ k \in 1 .. Len(program) /\ n \in 1 .. Len(program)
      /\ IretAt(k) /\ IretAt(n)
      /\ \A j \in 1 .. (k - 1) : ~IretAt(j)
      /\ \A j \in 1 .. (n - 1) : ~IretAt(j)
  BY <1>2, <1>3 DEF IsFirstIret
<1>5. k \notin 1 .. (n - 1) /\ n \notin 1 .. (k - 1)
  BY ONLY <1>4
<1>6. k = n
  BY ONLY <1>3, <1>4, <1>5
<1> QED BY <1>6 DEF n

-----------------------------------------------------------------------------
(* A faithful copy, step by step.                                          *)

(* The copy of the first k instructions has been made, and none is iret.   *)
CopiedUpTo(k) ==
  /\ p = Len(CodeUpTo(program)[k]) + 1
  /\ out = CodeUpTo(Moved(program))[k]
  /\ \A j \in 1 .. k : ~IretAt(j)

CopyInv ==
  /\ pc \in {"setup", "copy"} => gate = NULL /\ \E k \in 0 .. Len(program) : CopiedUpTo(k)
  /\ CopyIsFaithful

(* The loop stands before an instruction it has not read yet.              *)
LEMMA Reads ==
  ASSUME program \in Programs, NEW k \in 0 .. Len(program), CopiedUpTo(k), Known(p)
  PROVE  /\ k + 1 \in 1 .. Len(program) /\ (k + 1) - 1 = k
         /\ p \in Nat \ {0} /\ program \in Seq(Instruction)
         /\ program[k + 1] \in Instruction /\ Encoding(program[k + 1]) /\ ReadAt(p, program[k + 1])
         /\ p + Len(Encoded(program[k + 1])) - 1 = Len(CodeUpTo(program)[k + 1])
         /\ Len(CodeUpTo(program)[k + 1]) \in Nat
<1>1. program \in Seq(Instruction) /\ Len(program) \in Nat
  BY ProgramsAssumption
<1>2. k # Len(program)
  <2> SUFFICES ASSUME k = Len(program) PROVE FALSE
    OBVIOUS
  <2>1. p = Len(Code(program)) + 1
    BY DEF CopiedUpTo, Code
  <2> QED BY <2>1, PastTheEnd
<1>3. k + 1 \in 1 .. Len(program) /\ (k + 1) - 1 = k
  BY <1>1, <1>2
<1> DEFINE n == k + 1
           q == Len(CodeUpTo(program)[k])
<1> HIDE DEF n
<1>4. n \in 1 .. Len(program) /\ n - 1 = k
  BY <1>3 DEF n
<1>5. /\ program[n] \in Instruction /\ Encoding(program[n])
      /\ q \in Nat /\ ReadAt(q + 1, program[n])
  BY <1>4, AtInstruction
<1>6. Len(Encoded(program[n])) \in Nat /\ Len(CodeUpTo(program)[n]) = q + Len(Encoded(program[n]))
  BY <1>1, <1>4, CodeAfter
<1>7. p = q + 1
  BY DEF CopiedUpTo
<1> DEFINE e == Len(Encoded(program[n]))
           f == Len(CodeUpTo(program)[n])
<1> HIDE DEF q, e, f
<1>8. p + e - 1 = f /\ f \in Nat /\ p \in Nat \ {0}
  <2>1. e \in Nat /\ f = q + e /\ q \in Nat
    BY <1>5, <1>6 DEF q, e, f
  <2> QED BY ONLY <1>7, <2>1
<1>9. ReadAt(p, program[n])
  BY <1>5, <1>7
<1> QED BY <1>1, <1>3, <1>5, <1>8, <1>9 DEF n, e, f

LEMMA CopyAdvances ==
  ASSUME TypeOK, CopyInv, CopyInstruction
  PROVE  CopyInv'
<1>1. program \in Programs /\ pc = "copy" /\ Known(p) /\ ~IsIret(p)
  BY DEF TypeOK, CopyInstruction
<1>2. PICK k \in 0 .. Len(program) : CopiedUpTo(k)
  BY <1>1 DEF CopyInv
<1> DEFINE i == program[k + 1]
           next == Len(CodeUpTo(program)[k + 1])
<1>3. /\ k + 1 \in 1 .. Len(program) /\ (k + 1) - 1 = k
      /\ p \in Nat \ {0} /\ program \in Seq(Instruction)
      /\ i \in Instruction /\ Encoding(i) /\ ReadAt(p, i)
      /\ p + Len(Encoded(i)) - 1 = next /\ next \in Nat
  BY <1>1, <1>2, Reads
<1>4. End(p) = next /\ CopyOf(p) = Encoded(MovedTo(i, next))
  <2> HIDE DEF i, next
  <2>1. End(p) = p + Len(Encoded(i)) - 1
    BY <1>1, <1>3, OperandRead
  <2>2. CopyOf(p) = Encoded(MovedTo(i, p + Len(Encoded(i)) - 1))
    BY <1>1, <1>3, CopyIs
  <2> QED BY <1>3, <2>1, <2>2
<1>5. ~IretAt(k + 1)
  <2> HIDE DEF i
  <2>1. i.opcode # IretOp
    BY <1>1, <1>3, OpcodeRead
  <2> QED BY <2>1 DEF IretAt, i
<1>6. p' = next + 1 /\ out' = out \o Encoded(MovedTo(i, next)) /\ program' = program /\ pc' = pc /\ gate' = gate
  BY <1>4 DEF CopyInstruction
<1>7. out' = CodeUpTo(Moved(program))[k + 1]
  <2>1. CodeUpTo(Moved(program))[k + 1] = CodeUpTo(Moved(program))[k] \o Encoded(MovedTo(i, next))
    <3> DEFINE n == k + 1
    <3>1. n \in 1 .. Len(program) /\ n - 1 = k
      BY <1>3
    <3> HIDE DEF n
    <3>2. CodeUpTo(Moved(program))[n] = CodeUpTo(Moved(program))[n - 1]
            \o Encoded(MovedTo(program[n], Len(CodeUpTo(program)[n])))
      BY <1>3, <3>1, CopyGrows
    <3> QED BY <3>1, <3>2 DEF n
  <2>2. out = CodeUpTo(Moved(program))[k]
    BY <1>2 DEF CopiedUpTo
  <2> QED BY <1>6, <2>1, <2>2
<1>8. \A j \in 1 .. (k + 1) : ~IretAt(j)
  <2>1. \A j \in 1 .. k : ~IretAt(j)
    BY <1>2 DEF CopiedUpTo
  <2>2. \A j \in 1 .. (k + 1) : j = k + 1 \/ j \in 1 .. k
    BY <1>3
  <2> QED BY <1>5, <2>1, <2>2
<1>9. CopiedUpTo(k + 1)'
  BY <1>6, <1>7, <1>8 DEF CopiedUpTo, IretAt
<1>10. k + 1 \in 0 .. Len(program')
  BY <1>3, <1>6
<1>11. gate' = NULL /\ pc' = "copy"
  BY <1>1, <1>6 DEF CopyInv
<1> QED BY <1>9, <1>10, <1>11 DEF CopyInv, CopyIsFaithful

(* The iret the loop comes to is the first.                                *)
LEMMA IretEnds ==
  ASSUME TypeOK, CopyInv, Iret
  PROVE  CopyInv'
<1>1. program \in Programs /\ pc = "copy" /\ IsIret(p) /\ Known(p)
  BY DEF TypeOK, Iret, Known
<1>2. PICK k \in 0 .. Len(program) : CopiedUpTo(k)
  BY <1>1 DEF CopyInv
<1> DEFINE n == k + 1
           i == program[n]
           next == Len(CodeUpTo(program)[n])
<1>3. /\ n \in 1 .. Len(program) /\ n - 1 = k
      /\ p \in Nat \ {0} /\ program \in Seq(Instruction)
      /\ i \in Instruction /\ Encoding(i) /\ ReadAt(p, i)
      /\ p + Len(Encoded(i)) - 1 = next /\ next \in Nat
  BY <1>1, <1>2, Reads
<1> HIDE DEF n, i, next
<1>4. i.opcode = IretOp /\ OpAt(p) = p + OpcodeOf(i) /\ OpcodeOf(i) \in 0 .. 1
  BY <1>1, <1>3, OpcodeRead
<1>5. i.operand = <<>> /\ i.target = "none" /\ i.imm = <<>>
  BY <1>3, <1>4, Kinds DEF Alone
<1>6. OpAt(p) = p + Len(Encoded(i)) - 1 /\ OpAt(p) \in Int
  <2>1. Len(Encoded(i)) = ImmOf(i) + Len(i.imm)
    BY <1>3, PartsRead
  <2>2. Len(Displacement(i)) = 0
    BY <1>3, <1>5, DisplacementType
  <2>3. Len(i.opcode) = 1
    BY <1>4 DEF IretOp
  <2>4. Len(i.operand) = 0 /\ Len(i.imm) = 0
    BY <1>5
  <2>5. ImmOf(i) = OpcodeOf(i) + 1 + 0 + 0
    BY <2>2, <2>3, <2>4 DEF ImmOf, TargetOf, OperandOf
  <2> QED BY <1>3, <1>4, <2>1, <2>4, <2>5
<1>7. Slice(p, OpAt(p)) = Encoded(i)
  <2>1. Encoded(i) \in Seq(Byte)
    BY <1>3, EncodedType
  <2>2. \A j \in 1 .. Len(Encoded(i)) : At(p + j - 1) = Encoded(i)[j]
    BY <1>3 DEF ReadAt
  <2> QED BY <1>3, <1>6, <2>1, <2>2, SliceIs
<1>8. MovedTo(i, next) = i
  <2>1. MovedValue(i, next) = i.value
    BY <1>5 DEF MovedValue
  <2>2. [i EXCEPT !.value = i.value] = i
    BY <1>3 DEF Instruction
  <2> QED BY <2>1, <2>2 DEF MovedTo
<1>9. out' = out \o Slice(p, OpAt(p)) /\ program' = program /\ pc' = "ready"
  BY DEF Iret, Ready, Goto
<1>10. out' = CodeUpTo(Moved(program))[n]
  <2>1. CodeUpTo(Moved(program))[n] = CodeUpTo(Moved(program))[n - 1] \o Encoded(MovedTo(i, next))
    BY <1>3, CopyGrows DEF i, next
  <2>2. out = CodeUpTo(Moved(program))[n - 1]
    BY <1>2, <1>3 DEF CopiedUpTo
  <2> QED BY <1>7, <1>8, <1>9, <2>1, <2>2
<1>11. FirstIret = n
  <2>1. IretAt(n)
    BY <1>4 DEF IretAt, i
  <2>2. \A j \in 1 .. (n - 1) : ~IretAt(j)
    BY <1>2, <1>3 DEF CopiedUpTo
  <2>3. IsFirstIret(n)
    BY <1>3, <2>1, <2>2 DEF IsFirstIret
  <2> QED BY <1>3, <2>3, FirstIretIs
<1>12. FirstIret' = FirstIret
  BY <1>9 DEF FirstIret, IretAt
<1> QED BY <1>9, <1>10, <1>11, <1>12 DEF CopyInv, CopyIsFaithful

(* An iret the loop does not come to is beyond the room.                   *)
LEMMA LimitEnds ==
  ASSUME TypeOK, CopyInv, EndOfTrampoline
  PROVE  CopyInv'
<1>1. program \in Programs /\ pc = "copy" /\ p > Limit /\ program \in Seq(Instruction) /\ Len(program) \in Nat
  BY ProgramsAssumption DEF TypeOK, EndOfTrampoline
<1>2. PICK k \in 0 .. Len(program) : CopiedUpTo(k)
  BY <1>1 DEF CopyInv
<1>3. ~Fits
  <2> SUFFICES ASSUME Fits PROVE FALSE
    OBVIOUS
  <2> DEFINE n == FirstIret
             L(j) == Len(CodeUpTo(program)[j])
  <2>1. IsFirstIret(n)
    BY <1>1, FirstIretExists DEF Fits
  <2>2. L(n) <= Room
    BY DEF Fits
  <2> HIDE DEF n
  <2>3. n \in 1 .. Len(program) /\ IretAt(n)
    BY <1>1, <2>1 DEF IsFirstIret
  <2>4. n \notin 1 .. k
    BY <1>2, <2>3 DEF CopiedUpTo
  <2>5. n - 1 \in k .. Len(program)
    BY <1>1, <2>3, <2>4
  <2>6. L(k) \in Nat /\ L(k) <= L(n - 1)
    BY <1>1, <2>5, CodeGrows
  <2>7. L(n - 1) \in Nat /\ Len(Encoded(program[n])) \in Nat /\ L(n) = L(n - 1) + Len(Encoded(program[n]))
    BY <1>1, <2>3, CodeAfter
  <2>8. Len(Encoded(program[n])) >= 1
    <3> DEFINE i == program[n]
    <3>1. i \in Instruction /\ i.opcode = IretOp
      BY <1>1, <2>3 DEF IretAt
    <3> HIDE DEF i
    <3>2. Encoded(i) = i.rex \o IretOp \o i.operand \o Displacement(i) \o i.imm
      BY <3>1 DEF Encoded
    <3>3. /\ i.rex \in Seq(Byte) /\ IretOp \in Seq(Byte) /\ i.operand \in Seq(Byte) /\ i.imm \in Seq(Byte)
          /\ Displacement(i) \in Seq(Byte)
      BY <3>1, DisplacementType DEF Instruction, IretOp, Byte
    <3> DEFINE d == Displacement(i)
    <3> HIDE DEF d
    <3>4. ConsistsOf(i.rex \o IretOp \o i.operand \o d \o i.imm, i.rex, IretOp, i.operand, d, i.imm)
      BY <3>3, FiveParts DEF d
    <3>5. Len(Encoded(i)) = Len(i.rex) + Len(IretOp) + Len(i.operand) + Len(d) + Len(i.imm)
      BY <3>2, <3>4 DEF ConsistsOf, d
    <3>6. Len(IretOp) = 1
      BY DEF IretOp
    <3>7. Len(i.rex) \in Nat /\ Len(i.operand) \in Nat /\ Len(d) \in Nat /\ Len(i.imm) \in Nat
      BY <3>3 DEF d
    <3>8. Len(Encoded(i)) >= 1
      <4>1. \A t, v, w, x \in Nat : t + 1 + v + w + x >= 1
        OBVIOUS
      <4>2. Len(i.rex) + 1 + Len(i.operand) + Len(d) + Len(i.imm) >= 1
        BY ONLY <3>7, <4>1
      <4> DEFINE u == Len(Encoded(i))
                 r == Len(i.rex)
                 o == Len(i.operand)
                 l == Len(d)
                 m == Len(i.imm)
      <4>3. u = r + 1 + o + l + m /\ r + 1 + o + l + m >= 1
        BY <3>5, <3>6, <4>2
      <4> HIDE DEF u, r, o, l, m
      <4>4. u >= 1
        BY ONLY <4>3
      <4> QED BY <4>4 DEF u
    <3> QED BY <3>8 DEF i
  <2>9. p = L(k) + 1
    BY <1>2 DEF CopiedUpTo
  <2>10. Limit \in Nat /\ Room \in Nat /\ Room <= Limit
    BY SizeAssumption
  <2> DEFINE e == Len(Encoded(program[n]))
  <2> HIDE DEF L, e
  <2>11. e \in Nat /\ e >= 1 /\ L(n) = L(n - 1) + e /\ L(n - 1) \in Nat
    BY <2>7, <2>8 DEF e
  <2> QED BY ONLY <1>1, <2>2, <2>6, <2>9, <2>10, <2>11
<1>4. program' = program /\ pc' = "ready"
  BY DEF EndOfTrampoline, Ready, Goto
<1>5. ~Fits'
  BY <1>3, <1>4 DEF Fits, HasIret, FirstIret, IretAt
<1> QED BY <1>4, <1>5 DEF CopyInv, CopyIsFaithful

(* A faithful copy that fits its room runs.                                *)
LEMMA FittingRuns ==
  ASSUME TypeOK, CopyIsFaithful, gate # NULL, Fits
  PROVE  Runs
<1>1. program \in Programs /\ program \in Seq(Instruction)
  BY ProgramsAssumption DEF TypeOK
<1> DEFINE n == FirstIret
           f == CodeUpTo(program)
           g == CodeUpTo(Moved(program))
           i == program[n]
           c == MovedTo(i, Len(f[n]))
<1>2. IsFirstIret(n)
  BY <1>1, FirstIretExists DEF Fits
<1>3. out = g[n] /\ Len(f[n]) <= Room
  BY DEF CopyIsFaithful, Fits
<1> HIDE DEF n
<1>4. n \in 1 .. Len(program) /\ n \in 0 .. Len(program) /\ n - 1 \in 0 .. Len(program) /\ i.opcode = IretOp
      /\ i \in Instruction /\ Encoding(i)
  BY <1>1, <1>2, ProgramsAssumption DEF IsFirstIret, IretAt
<1>5. Len(g[n]) = Len(f[n])
  BY <1>1, <1>4, SameLengths
<1>6. g[n] = g[n - 1] \o Encoded(c)
  BY <1>1, <1>4, CopyGrows
<1>7. Moved(program) \in Seq(Instruction) /\ Len(Moved(program)) = Len(program)
  BY <1>1, MovedIs
<1>8. g[n - 1] \in Seq(Byte)
  BY <1>4, <1>7, CodeUpToIs
<1>9. Len(f[n]) \in Nat
  BY <1>1, <1>4, CodeAfter
<1>10. Encoded(c) \in Seq(Byte) /\ Len(Encoded(c)) \in Nat \ {0} /\ Encoded(c)[Len(Encoded(c))] = 207
  <2> HIDE DEF i
  <2>1. i.operand = <<>> /\ i.target = "none" /\ i.imm = <<>>
    BY <1>4, Kinds DEF Alone
  <2>2. c.rex = i.rex /\ c.opcode = IretOp /\ c.operand = <<>> /\ c.target = "none" /\ c.imm = <<>>
    BY <1>4, <2>1 DEF MovedTo, Instruction
  <2> HIDE DEF c
  <2>3. i.rex \in Seq(Byte)
    BY <1>4 DEF Instruction
  <2>4. Encoded(c) = i.rex \o <<207>> \o <<>> \o <<>> \o <<>>
    BY <2>2, Zenon DEF Encoded, Displacement, IretOp
  <2>5. <<207>> \in Seq(Byte) /\ <<>> \in Seq(Byte)
    BY DEF Byte
  <2> DEFINE a == i.rex
             b == a \o <<207>>
  <2>6. b \in Seq(Byte) /\ Len(b) = Len(a) + 1 /\ b[Len(a) + 1] = 207
    BY <2>3, <2>5
  <2>7. Len(a) \in Nat
    BY <2>3
  <2>8. Encoded(c) = b \o <<>> \o <<>> \o <<>>
    BY <2>4
  <2> HIDE DEF a, b
  <2>9. Encoded(c) = b
    BY <2>6, <2>8
  <2> QED BY <2>6, <2>7, <2>9
<1> DEFINE a == g[n - 1]
           b == Encoded(c)
<1> HIDE DEF a, b
<1>11. out = a \o b /\ a \in Seq(Byte) /\ b \in Seq(Byte) /\ Len(b) \in Nat \ {0} /\ b[Len(b)] = 207
  BY <1>3, <1>6, <1>8, <1>10 DEF a, b
<1>12. Len(out) \in Nat \ {0} /\ out[Len(out)] = 207 /\ out # <<>>
  BY ONLY <1>11
<1>13. Len(out) <= Room
  BY <1>3, <1>5
<1> QED BY <1>12, <1>13 DEF Runs

LEMMA CopyStep == TypeOK /\ CallInv /\ CopyInv /\ [Next]_vars => CopyInv'
<1> SUFFICES ASSUME TypeOK, CallInv, CopyInv, [Next]_vars PROVE CopyInv'
  OBVIOUS
<1>1. ASSUME UNCHANGED setupVars
      PROVE  /\ (\E k \in 0 .. Len(program) : CopiedUpTo(k))' <=> \E k \in 0 .. Len(program) : CopiedUpTo(k)
             /\ Fits' <=> Fits
             /\ FirstIret' = FirstIret /\ out' = out /\ gate' = gate /\ program' = program
  BY <1>1 DEF setupVars, CopiedUpTo, Fits, HasIret, FirstIret, IretAt
<1>2. ASSUME UNCHANGED setupVars, pc' = "crashed" => pc = "crashed" \/ ~Fits,
             pc' \in {"setup", "copy"} => pc \in {"setup", "copy"}
      PROVE  CopyInv'
  BY <1>1, <1>2 DEF CopyInv, CopyIsFaithful
<1>3. CASE Setup \/ SetupFails \/ UnknownInstruction
  BY <1>2, <1>3 DEF Setup, SetupFails, UnknownInstruction, Goto
<1>4. CASE CopyInstruction
  BY <1>4, CopyAdvances
<1>5. CASE Iret
  BY <1>5, IretEnds
<1>6. CASE EndOfTrampoline
  BY <1>6, LimitEnds
<1>7. CASE Enter
  BY <1>2, <1>7 DEF Enter, Goto
<1>8. CASE EnterFaults
  <2>1. ~Fits
    BY <1>8, FittingRuns DEF EnterFaults, CopyInv
  <2> QED BY <1>2, <1>8, <2>1 DEF EnterFaults, Goto
<1>9. ASSUME NEW r \in Results, Succeeds(r) PROVE CopyInv'
  BY <1>2, <1>9 DEF Succeeds, Goto
<1>10. ASSUME NEW e \in Errnos, Fails(e) PROVE CopyInv'
  BY <1>2, <1>10 DEF Fails, Goto
<1>11. CASE Leave
  <2>1. {Return, Rbp} \subseteq frame
    BY <1>11 DEF Leave, CallInv, Kept
  <2> QED BY <1>2, <1>11, <2>1 DEF Leave, Goto
<1>12. CASE UNCHANGED vars
  BY <1>2, <1>12 DEF vars
<1> QED BY <1>3, <1>4, <1>5, <1>6, <1>7, <1>8, <1>9, <1>10, <1>11, <1>12 DEF Next

(* The gate is a faithful copy of the trampoline it was made of, wherever  *)
(* the buffers are and whatever instructions the trampoline consists of;   *)
(* one that fits the room before the core never makes a system call crash  *)
(* (src/heavens.c 71-243, src/syscall.S).                                  *)
THEOREM CopiesAreFaithful == Spec => []CopyIsFaithful
<1> DEFINE Inv == TellInv /\ CopyInv
<1>1. Init => Inv
  <2> SUFFICES ASSUME Init PROVE CallInv /\ FailureIsTold /\ CopyInv
    BY TypeInit DEF TellInv
  <2>1. CallInv /\ FailureIsTold
    BY DEF Init, CallInv, FailureIsTold
  <2>2. program \in Seq(Instruction)
    BY ProgramsAssumption DEF Init
  <2>3. CodeUpTo(program)[0] = <<>> /\ CodeUpTo(Moved(program))[0] = <<>>
    BY <2>2, MovedIs, CodeUpToIs
  <2>4. Len(<<>>) + 1 = 1 /\ 0 \in 0 .. Len(program)
    BY <2>2
  <2>5. CopiedUpTo(0)
    BY <2>3, <2>4 DEF Init, CopiedUpTo
  <2> QED BY <2>1, <2>4, <2>5 DEF Init, CopyInv, CopyIsFaithful
<1>2. Inv /\ [Next]_vars => Inv'
  BY TypeStep, TellStep, CopyStep DEF TellInv
<1>3. Inv => CopyIsFaithful
  BY DEF CopyInv
<1> QED BY <1>1, <1>2, <1>3, PTL DEF Spec

=============================================================================
