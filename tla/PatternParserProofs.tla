------------------------- MODULE PatternParserProofs -------------------------
EXTENDS PatternParser, SelectionProofs, SequenceTheorems

ByteSet == {Byte[c] : c \in Chars}

(* What the bound needs to be inductive: buf is a sequence.                *)
Bounded ==
  /\ pattern \in Seq(Chars)
  /\ buf \in Seq(ByteSet)
  /\ BufferInBounds

LEMMA InitBounded == Init => Bounded
<1> SUFFICES ASSUME Init
             PROVE  Bounded
  OBVIOUS
<1>1. filter \in Seq(Chars)
  BY LenAssumption DEF Init, BoundedSeq, SeqOf
<1>2. QED
  BY <1>1, BufAssumption DEF Init, Bounded, BufferInBounds

(* A byte is stored only if another one, the terminator, fits behind it.   *)
LEMMA NextBounded == Bounded /\ [Next]_vars => Bounded'
<1> SUFFICES ASSUME Bounded, [Next]_vars
             PROVE  Bounded'
  OBVIOUS
<1>0. pattern # <<>> => Tail(pattern) \in Seq(Chars) /\ Head(pattern) \in Chars
  BY HeadTailProperties DEF Bounded
<1>1. CASE Call
  BY <1>1, BufAssumption DEF Call, Reset, Bounded, BufferInBounds
<1>2. CASE Separator
  BY <1>0, <1>2 DEF Separator, Bounded, BufferInBounds
<1>3. CASE Store
  <2>1. /\ buf' = Append(buf, Byte[Head(pattern)])
        /\ pattern' = Tail(pattern)
        /\ pattern # <<>>
        /\ ~(Len(buf) > BufSize - 2)
    BY <1>3 DEF Store, Full, Sym
  <2>2. Byte[Head(pattern)] \in ByteSet
    BY <1>0, <2>1 DEF ByteSet
  <2>3. buf' \in Seq(ByteSet) /\ Len(buf') = Len(buf) + 1 /\ Len(buf) \in Nat
    BY <2>1, <2>2, AppendProperties DEF Bounded
  <2>4. QED
    BY <1>0, <2>1, <2>3, BufAssumption DEF Bounded, BufferInBounds
<1>4. CASE Overflow
  BY <1>0, <1>4 DEF Overflow, Bounded, BufferInBounds
<1>5. CASE EndOfString
  BY <1>5 DEF EndOfString, Bounded, BufferInBounds
<1>6. CASE UNCHANGED vars
  BY <1>6 DEF vars, Bounded, BufferInBounds
<1>7. QED
  BY <1>1, <1>2, <1>3, <1>4, <1>5, <1>6 DEF Next

(* Whatever string the caller passes and however large the buffer is,      *)
(* pattern_parser_next stores neither a byte nor its terminator outside    *)
(* parser->buf.                                                            *)
THEOREM BufferNeverOverrun == Spec => []BufferInBounds
<1>1. Bounded => BufferInBounds
  BY DEF Bounded
<1>2. QED
  BY <1>1, InitBounded, NextBounded, PTL DEF Spec

-----------------------------------------------------------------------------
(* A C string is a sequence of the bytes stored.                           *)
LEMMA CStringType ==
  ASSUME NEW S, NEW b \in Seq(S)
  PROVE  CString(b) \in Seq(S)
<1> DEFINE I == {i \in 1..Len(b) : b[i] = Nul}
           k == SelectInSeq(b, LAMBDA x : x = Nul)
<1>1. k = IF I # {} THEN Min(I) ELSE 0
  BY DEF SelectInSeq
<1>2. k \in 0..Len(b)
  <2>1. CASE I = {}
    BY <1>1, <2>1, LenProperties
  <2>2. CASE I # {}
    <3>0. I \in SUBSET Nat
      BY LenProperties
    <3>1. \E x \in I : \A y \in I : x <= y
      <4> HIDE DEF I
      <4>1. QED
        BY <2>2, <3>0, LeastNumber
    <3>2. Min(I) \in I
      BY <3>1 DEF Min
    <3>3. QED
      BY <1>1, <2>2, <3>2
  <2>3. QED
    BY <2>1, <2>2
<1> HIDE DEF k
<1>3. SubSeq(b, 1, k - 1) \in Seq(S)
  <2>1. \A i \in 1..(k - 1) : b[i] \in S
    BY <1>2, LenProperties
  <2>2. QED
    BY <1>2, <2>1, SubSeqProperties
<1>4. CString(b) = IF k = 0 THEN b ELSE SubSeq(b, 1, k - 1)
  BY DEF CString, k
<1>5. QED
  BY <1>3, <1>4

(* What is left of the string is its end.                                  *)
AtItsEnd ==
  /\ Len(pattern) <= Len(filter)
  /\ \A i \in 1..Len(pattern) :
       pattern[i] = filter[Len(filter) - Len(pattern) + i]

(* The types, with the suffix in a form a step can be compared with.       *)
Typed ==
  /\ filter \in Seq(Chars)
  /\ pattern \in Seq(Chars)
  /\ AtItsEnd
  /\ buf \in Seq(ByteSet)
  /\ pc \in {"call", "read", "end"}
  /\ appended \in Seq(Seq(ByteSet))

LEMMA InitTyped == Init => Typed
<1> SUFFICES ASSUME Init
             PROVE  Typed
  OBVIOUS
<1>1. filter \in Seq(Chars)
  BY LenAssumption DEF Init, BoundedSeq, SeqOf
<1>2. AtItsEnd
  BY <1>1, LenProperties DEF Init, AtItsEnd
<1>3. QED
  BY <1>1, <1>2 DEF Init, Typed

(* A character read keeps the rest at the end of the string.               *)
LEMMA TailAtItsEnd ==
  ASSUME Typed, pattern # <<>>, pattern' = Tail(pattern), filter' = filter
  PROVE  pattern' \in Seq(Chars) /\ AtItsEnd'
<1>1. /\ Tail(pattern) \in Seq(Chars)
      /\ Len(Tail(pattern)) = Len(pattern) - 1
      /\ \A i \in 1..Len(Tail(pattern)) : Tail(pattern)[i] = pattern[i + 1]
  BY HeadTailProperties DEF Typed
<1>2. Len(pattern) \in Nat /\ Len(filter) \in Nat
  BY LenProperties DEF Typed
<1>3. ASSUME NEW i \in 1..(Len(pattern) - 1)
      PROVE  Tail(pattern)[i] = filter[Len(filter) - (Len(pattern) - 1) + i]
  <2>1. i + 1 \in 1..Len(pattern)
    BY <1>2
  <2>2. pattern[i + 1] = filter[Len(filter) - Len(pattern) + (i + 1)]
    BY <2>1 DEF Typed, AtItsEnd
  <2>3. Len(filter) - Len(pattern) + (i + 1)
          = Len(filter) - (Len(pattern) - 1) + i
    BY <1>2
  <2>4. QED
    BY <1>1, <2>2, <2>3
<1>4. QED
  BY <1>1, <1>2, <1>3 DEF Typed, AtItsEnd

LEMMA ReturnTyped == Typed /\ Return => appended' \in Seq(Seq(ByteSet))
<1> SUFFICES ASSUME Typed, Return
             PROVE  appended' \in Seq(Seq(ByteSet))
  OBVIOUS
<1>1. CString(buf) \in Seq(ByteSet)
  BY CStringType DEF Typed
<1>2. QED
  BY <1>1, AppendProperties DEF Typed, Return

LEMMA NextTyped == Typed /\ [Next]_vars => Typed'
<1> SUFFICES ASSUME Typed, [Next]_vars
             PROVE  Typed'
  OBVIOUS
<1> USE DEF Typed
<1>1. CASE Call
  BY <1>1 DEF Call, Reset, ReturnNull, AtItsEnd
<1>2. CASE Separator
  BY <1>2, TailAtItsEnd, ReturnTyped DEF Separator, Return
<1>3. CASE Store
  <2>1. Head(pattern) \in Chars
    BY <1>3, HeadTailProperties DEF Store
  <2>2. buf' \in Seq(ByteSet)
    BY <1>3, <2>1, AppendProperties DEF Store, Sym, ByteSet
  <2>3. QED
    BY <1>3, <2>2, TailAtItsEnd DEF Store
<1>4. CASE Overflow
  BY <1>4, TailAtItsEnd DEF Overflow, ReturnNull
<1>5. CASE EndOfString
  <2>1. appended' \in Seq(Seq(ByteSet))
    BY <1>5, ReturnTyped DEF EndOfString, ReturnNull
  <2>2. QED
    BY <1>5, <2>1 DEF EndOfString, Return, ReturnNull, AtItsEnd
<1>6. CASE UNCHANGED vars
  BY <1>6 DEF vars, AtItsEnd
<1>7. QED
  BY <1>1, <1>2, <1>3, <1>4, <1>5, <1>6 DEF Next

(* The suffix of TypeOK, which compares the reversed sequences.            *)
LEMMA EndIsSuffix == Typed => IsSuffix(pattern, filter)
<1> SUFFICES ASSUME Typed
             PROVE  IsSuffix(pattern, filter)
  OBVIOUS
<1> DEFINE m == Len(pattern)
           n == Len(filter)
           p == Reverse(pattern)
           f == Reverse(filter)
<1>1. m \in Nat /\ n \in Nat /\ m <= n
  BY LenProperties DEF Typed, AtItsEnd
<1>2. /\ \A i \in 1..m : pattern[i] \in Chars
      /\ \A i \in 1..n : filter[i] \in Chars
  BY LenProperties DEF Typed
<1>3. /\ p \in Seq(Chars) /\ Len(p) = m
      /\ f \in Seq(Chars) /\ Len(f) = n
  <2>1. \A i \in 1..m : pattern[(m - i) + 1] \in Chars
    BY <1>1, <1>2
  <2>2. \A i \in 1..n : filter[(n - i) + 1] \in Chars
    BY <1>1, <1>2
  <2>3. p \in [1..m -> Chars] /\ f \in [1..n -> Chars]
    BY <2>1, <2>2 DEF Reverse
  <2>4. QED
    BY <1>1, <2>3, IsASeq, LenProperties
<1>4. \A i \in 1..m : p[i] = pattern[m - i + 1] /\ f[i] = filter[n - i + 1]
  BY <1>1 DEF Reverse
<1>5. ASSUME NEW i \in 1..m
      PROVE  p[i] = f[i]
  <2>1. m - i + 1 \in 1..m
    BY <1>1
  <2>2. pattern[m - i + 1] = filter[n - m + (m - i + 1)]
    BY <2>1 DEF Typed, AtItsEnd
  <2>3. n - m + (m - i + 1) = n - i + 1
    BY <1>1
  <2>4. QED
    BY <1>4, <2>2, <2>3
<1> HIDE DEF m, n, p, f
<1>6. /\ \A i \in 1..m : p[i] \in Chars /\ f[i] \in Chars
  BY <1>1, <1>3, LenProperties
<1>7. /\ SubSeq(p, 1, m) \in Seq(Chars) /\ SubSeq(f, 1, m) \in Seq(Chars)
      /\ Len(SubSeq(p, 1, m)) = m /\ Len(SubSeq(f, 1, m)) = m
      /\ \A i \in 1..m : SubSeq(p, 1, m)[i] = p[i] /\ SubSeq(f, 1, m)[i] = f[i]
  BY <1>1, <1>6, SubSeqProperties
<1>8. SubSeq(p, 1, m) = SubSeq(f, 1, m)
  BY <1>5, <1>7, SeqEqual
<1>9. QED
  BY <1>1, <1>3, <1>8 DEF IsSuffix, IsPrefix, m, n, p, f

(* Whatever string the caller passes, the parser's pointer stays inside    *)
(* it, what has been read is only ever dropped from its front, and the     *)
(* request gets strings made of the bytes of the string's characters.      *)
THEOREM PatternTypes == Spec => []TypeOK
<1>1. Typed => TypeOK
  BY EndIsSuffix DEF Typed, TypeOK, ByteSet
<1>2. QED
  BY <1>1, InitTyped, NextTyped, PTL DEF Spec

-----------------------------------------------------------------------------
(* The string split at its separators.                                     *)
Fields == Seq(Seq(ByteSet))
Cuts   == [fields : Fields, last : Seq(ByteSet)]

LEMMA WithByteType ==
  ASSUME NEW t \in Cuts, NEW x \in ByteSet
  PROVE  WithByte(x, t) \in Cuts
<1>1. t.fields \in Seq(Seq(ByteSet)) /\ t.last \in Seq(ByteSet)
  BY DEF Cuts, Fields
<1>2. Append(t.fields, t.last) \in Seq(Seq(ByteSet))
  <2> DEFINE T == Seq(ByteSet)
  <2>1. t.fields \in Seq(T) /\ t.last \in T
    BY <1>1
  <2> HIDE DEF T
  <2>2. Append(t.fields, t.last) \in Seq(T)
    BY <2>1, AppendProperties
  <2>3. QED
    BY <2>2 DEF T
<1>3. Append(t.last, x) \in Seq(ByteSet)
  BY <1>1, AppendProperties
<1>4. <<>> \in Seq(ByteSet)
  OBVIOUS
<1>5. CASE x = Sep
  <2>1. WithByte(x, t) = [fields |-> Append(t.fields, t.last), last |-> <<>>]
    BY <1>5 DEF WithByte
  <2>2. QED
    BY <1>2, <1>4, <2>1 DEF Cuts, Fields
<1>6. CASE x # Sep
  <2>1. WithByte(x, t) = [t EXCEPT !.last = Append(t.last, x)]
    BY <1>6 DEF WithByte
  <2>2. WithByte(x, t) = [fields |-> t.fields, last |-> Append(t.last, x)]
    BY <2>1 DEF Cuts
  <2>3. QED
    BY <1>1, <1>3, <2>2 DEF Cuts, Fields
<1>7. QED
  BY <1>5, <1>6

NoCut == [fields |-> <<>>, last |-> <<>>]

LEMMA SplitIs ==
  ASSUME NEW b \in Seq(ByteSet)
  PROVE  /\ Split(b) \in [0 .. Len(b) -> Cuts]
         /\ Split(b)[0] = NoCut
         /\ \A n \in 1 .. Len(b) : Split(b)[n] = WithByte(b[n], Split(b)[n - 1])
<1> DEFINE N == Len(b)
           F == [p \in (1 .. N) \X Cuts |-> WithByte(b[p[1]], p[2])]
           Body(g) == [n \in 0 .. N |-> IF n = 0 THEN NoCut ELSE WithByte(b[n], g[n - 1])]
           f == Split(b)
           S == {n \in Nat : f[n] \in Cuts}
<1>1. N \in Nat /\ \A n \in 1 .. N : b[n] \in ByteSet
  BY LenProperties
<1>2. NoCut \in Cuts
  BY DEF NoCut, Cuts, Fields
<1>3. PICK g \in [0 .. N -> Cuts] :
        g[0] = NoCut /\ \A k \in 1 .. N : g[k] = WithByte(b[k], g[k - 1])
  <2>1. F \in [(1 .. N) \X Cuts -> Cuts]
    <3>1. ASSUME NEW k \in 1 .. N, NEW t \in Cuts PROVE WithByte(b[k], t) \in Cuts
      BY <1>1, WithByteType
    <3>2. QED
      BY <3>1
  <2>2. Iterations(Cuts, NoCut, N, F) # {}
    <3> HIDE DEF F, N
    <3>1. QED
      BY <1>1, <1>2, <2>1, LoopRuns
  <2>3. PICK g \in [0 .. N -> Cuts] : g[0] = NoCut /\ \A k \in 1 .. N : g[k] = F[<<k, g[k - 1]>>]
    <3> HIDE DEF F, N
    <3>1. QED
      BY <2>2 DEF Iterations
  <2>4. ASSUME NEW k \in 1 .. N PROVE g[k] = WithByte(b[k], g[k - 1])
    <3>1. g[k - 1] \in Cuts
      OBVIOUS
    <3>2. QED
      BY <2>3, <3>1
  <2>5. QED
    BY <2>3, <2>4
<1>4. g = Body(g)
  <2>1. ASSUME NEW k \in 0 .. N PROVE g[k] = Body(g)[k]
    <3>1. k # 0 => k \in 1 .. N
      OBVIOUS
    <3>2. QED
      BY <1>3, <3>1
  <2>2. QED
    BY <2>1
<1>5. f = CHOOSE h : h = Body(h)
  BY DEF Split, NoCut
<1>6. f = Body(f)
  <2> HIDE DEF Body, f
  <2>1. QED
    BY <1>4, <1>5
<1> HIDE DEF f
<1>7. f[0] = NoCut /\ \A k \in 1 .. N : f[k] = WithByte(b[k], f[k - 1])
  <2>1. Body(f)[0] = NoCut /\ \A k \in 1 .. N : Body(f)[k] = WithByte(b[k], f[k - 1])
    BY <1>1
  <2> HIDE DEF Body
  <2>2. QED
    BY <1>6, <2>1
<1>8. 0 .. N \subseteq S
  <2>1. 0 \in S
    BY <1>2, <1>7
  <2>2. ASSUME NEW n \in 1 .. N, n - 1 \in S PROVE n \in S
    BY <1>1, <1>7, <2>2, WithByteType
  <2> HIDE DEF S
  <2>3. QED
    BY <1>1, <2>1, <2>2, UpToInduct
<1>9. f \in [0 .. N -> Cuts]
  BY <1>6, <1>8
<1>10. QED
  BY <1>7, <1>9 DEF f

(* A field that has ended stays, and the one that has not only grows.      *)
Extends(t, s) ==
  /\ Len(s.fields) <= Len(t.fields)
  /\ \A i \in 1 .. Len(s.fields) : t.fields[i] = s.fields[i]
  /\ Len(t.fields) = Len(s.fields) => Len(s.last) <= Len(t.last)
  /\ Len(t.fields) > Len(s.fields) => Len(s.last) <= Len(t.fields[Len(s.fields) + 1])

LEMMA ExtendsMore ==
  ASSUME NEW s \in Cuts, NEW t \in Cuts, NEW x \in ByteSet, Extends(t, s)
  PROVE  Extends(WithByte(x, t), s)
<1> DEFINE u == WithByte(x, t)
           k == Len(s.fields)
           m == Len(t.fields)
<1>1. /\ s.fields \in Fields /\ t.fields \in Fields
      /\ s.last \in Seq(ByteSet) /\ t.last \in Seq(ByteSet)
  BY DEF Cuts
<1>2. k \in Nat /\ m \in Nat /\ Len(s.last) \in Nat /\ Len(t.last) \in Nat
  BY <1>1 DEF Fields
<1>3. CASE x = Sep
  <2>1. u.fields = Append(t.fields, t.last)
    BY <1>3 DEF WithByte
  <2>2. /\ Len(u.fields) = m + 1 /\ u.fields[m + 1] = t.last
        /\ \A i \in 1 .. m : u.fields[i] = t.fields[i]
    BY <1>1, <2>1, AppendProperties DEF Fields
  <2> HIDE DEF u
  <2>3. k <= m /\ \A i \in 1 .. k : t.fields[i] = s.fields[i]
    BY DEF Extends
  <2>4. \A i \in 1 .. k : u.fields[i] = s.fields[i]
    BY <1>2, <2>2, <2>3
  <2>5. Len(s.last) <= Len(u.fields[k + 1])
    <3>1. CASE m = k
      BY <2>2, <3>1 DEF Extends
    <3>2. CASE m > k
      <4>1. k + 1 \in 1 .. m
        BY <1>2, <3>2
      <4>2. u.fields[k + 1] = t.fields[k + 1]
        BY <2>2, <4>1
      <4>3. QED
        BY <3>2, <4>2 DEF Extends
    <3>3. QED
      BY <1>2, <2>3, <3>1, <3>2
  <2>6. QED
    BY <1>2, <2>2, <2>3, <2>4, <2>5 DEF Extends, u
<1>4. CASE x # Sep
  <2>1. u = [t EXCEPT !.last = Append(t.last, x)]
    BY <1>4 DEF WithByte
  <2>2. u.fields = t.fields /\ u.last = Append(t.last, x)
    BY <2>1 DEF Cuts
  <2>3. Len(u.last) = Len(t.last) + 1
    BY <1>1, <2>2, AppendProperties
  <2> HIDE DEF u
  <2>4. QED
    BY <1>2, <2>2, <2>3 DEF Extends, u
<1>5. QED
  BY <1>3, <1>4

LEMMA SplitExtends ==
  ASSUME NEW b \in Seq(ByteSet), NEW n \in 0 .. Len(b)
  PROVE  Extends(Split(b)[Len(b)], Split(b)[n])
<1> DEFINE N == Len(b)
           f == Split(b)
           S == {m \in Nat : m >= n /\ m <= N => Extends(f[m], f[n])}
<1>1. N \in Nat /\ \A m \in 1 .. N : b[m] \in ByteSet
  BY LenProperties
<1>2. /\ f \in [0 .. N -> Cuts]
      /\ \A m \in 1 .. N : f[m] = WithByte(b[m], f[m - 1])
  BY SplitIs
<1> HIDE DEF f
<1>3. Extends(f[n], f[n])
  <2>1. f[n].fields \in Seq(Seq(ByteSet)) /\ f[n].last \in Seq(ByteSet)
    BY <1>2 DEF Cuts, Fields
  <2>2. Len(f[n].fields) \in Nat /\ Len(f[n].last) \in Nat
    BY <2>1
  <2>3. QED
    BY <2>2 DEF Extends
<1> HIDE DEF N
<1>4. n \in Nat /\ n <= N
  BY <1>1 DEF N
<1>5. 0 \in S
  BY <1>3, <1>4
<1>6. ASSUME NEW m \in 1 .. N, m - 1 \in S PROVE m \in S
  <2>1. CASE m <= n
    BY <1>3, <1>4, <2>1
  <2>2. CASE m > n
    <3>1. Extends(f[m - 1], f[n])
      BY <1>1, <1>4, <1>6, <2>2
    <3>2. f[m] = WithByte(b[m], f[m - 1]) /\ f[m - 1] \in Cuts /\ f[n] \in Cuts
      BY <1>1, <1>2, <1>4
    <3>3. QED
      BY <1>1, <3>1, <3>2, ExtendsMore
  <2>3. QED
    BY <1>1, <1>4, <2>1, <2>2
<1>7. 0 .. N \subseteq S
  <2> HIDE DEF S
  <2>1. QED
    BY <1>1, <1>5, <1>6, UpToInduct
<1>8. QED
  BY <1>1, <1>4, <1>7 DEF N, f

(* Every field that has ended is a pattern, and one that has begun becomes *)
(* a pattern at least as long.                                             *)
LEMMA AllFieldsAre ==
  ASSUME NEW t \in Cuts
  PROVE  /\ AllFields(t) \in Fields
         /\ Len(AllFields(t)) = IF t.last = <<>> THEN Len(t.fields) ELSE Len(t.fields) + 1
         /\ \A i \in 1 .. Len(t.fields) : AllFields(t)[i] = t.fields[i]
         /\ t.last # <<>> => AllFields(t)[Len(t.fields) + 1] = t.last
<1> DEFINE T == Seq(ByteSet)
<1>1. t.fields \in Seq(T) /\ t.last \in T
  BY DEF Cuts, Fields
<1>2. CASE t.last = <<>>
  BY <1>1, <1>2 DEF AllFields, Fields
<1>3. CASE t.last # <<>>
  <2>1. AllFields(t) = Append(t.fields, t.last)
    BY <1>3 DEF AllFields
  <2> HIDE DEF T
  <2>2. /\ Append(t.fields, t.last) \in Seq(T)
        /\ Len(Append(t.fields, t.last)) = Len(t.fields) + 1
        /\ \A i \in 1 .. Len(t.fields) : Append(t.fields, t.last)[i] = t.fields[i]
        /\ Append(t.fields, t.last)[Len(t.fields) + 1] = t.last
    BY <1>1, AppendProperties
  <2>3. QED
    BY <1>3, <2>1, <2>2 DEF T, Fields
<1>4. QED
  BY <1>2, <1>3

LEMMA PatternsAre ==
  ASSUME NEW b \in Seq(ByteSet), NEW n \in 0 .. Len(b)
  PROVE  /\ Split(b)[n] \in Cuts
         /\ Patterns(b) \in Fields
         /\ Len(Split(b)[n].fields) <= Len(Patterns(b))
         /\ \A i \in 1 .. Len(Split(b)[n].fields) : Patterns(b)[i] = Split(b)[n].fields[i]
         /\ Split(b)[n].last # <<>> =>
              /\ Len(Split(b)[n].fields) < Len(Patterns(b))
              /\ Len(Split(b)[n].last) <= Len(Patterns(b)[Len(Split(b)[n].fields) + 1])
<1> DEFINE s == Split(b)[n]
           t == Split(b)[Len(b)]
           k == Len(s.fields)
           m == Len(t.fields)
<1>1. s \in Cuts /\ t \in Cuts
  BY SplitIs, LenProperties
<1>2. Extends(t, s)
  BY SplitExtends
<1>3. /\ k \in Nat /\ m \in Nat /\ Len(s.last) \in Nat /\ Len(t.last) \in Nat
      /\ Len(s.last) = 0 => s.last = <<>>
      /\ t.last = <<>> => Len(t.last) = 0
  <2>1. /\ s.fields \in Seq(Seq(ByteSet)) /\ t.fields \in Seq(Seq(ByteSet))
        /\ s.last \in Seq(ByteSet) /\ t.last \in Seq(ByteSet)
    BY <1>1 DEF Cuts, Fields
  <2> HIDE DEF s, t
  <2>2. QED
    BY <2>1
<1>4. Patterns(b) = AllFields(t)
  BY DEF Patterns
<1> HIDE DEF s, t
<1>5. /\ AllFields(t) \in Fields
      /\ Len(AllFields(t)) = IF t.last = <<>> THEN m ELSE m + 1
      /\ \A i \in 1 .. m : AllFields(t)[i] = t.fields[i]
      /\ t.last # <<>> => AllFields(t)[m + 1] = t.last
  BY <1>1, AllFieldsAre
<1>6. k <= m /\ \A i \in 1 .. k : t.fields[i] = s.fields[i]
  BY <1>2 DEF Extends
<1>7. k <= Len(AllFields(t)) /\ \A i \in 1 .. k : AllFields(t)[i] = s.fields[i]
  BY <1>3, <1>5, <1>6
<1>8. ASSUME s.last # <<>>
      PROVE  k < Len(AllFields(t)) /\ Len(s.last) <= Len(AllFields(t)[k + 1])
  <2>1. CASE m = k
    <3>1. Len(s.last) <= Len(t.last)
      BY <1>2, <2>1 DEF Extends
    <3>2. t.last # <<>>
      BY <1>3, <1>8, <3>1
    <3>3. QED
      BY <1>3, <1>5, <2>1, <3>1, <3>2
  <2>2. CASE m > k
    <3>1. Len(s.last) <= Len(t.fields[k + 1])
      BY <1>2, <2>2 DEF Extends
    <3>2. k + 1 \in 1 .. m
      BY <1>3, <2>2
    <3>3. AllFields(t)[k + 1] = t.fields[k + 1]
      BY <1>5, <3>2
    <3>4. QED
      BY <1>3, <1>5, <2>2, <3>1, <3>3
  <2>3. QED
    BY <1>3, <1>6, <2>1, <2>2
<1>9. QED
  BY <1>1, <1>4, <1>5, <1>7, <1>8 DEF s

(* The patterns that fit are those before the first that does not.         *)
FitAll(F) == \A i \in 1 .. Len(F) : Len(F[i]) < BufSize

LEMMA FittingAre ==
  ASSUME NEW P \in Fields, NEW F \in Fields, FitAll(F), Len(F) <= Len(P),
         \A i \in 1 .. Len(F) : P[i] = F[i]
  PROVE  /\ Fitting(P) \in Fields
         /\ Len(F) <= Len(Fitting(P))
         /\ \A i \in 1 .. Len(F) : Fitting(P)[i] = F[i]
         /\ Len(F) = Len(P) => Fitting(P) = P
         /\ Len(F) < Len(P) /\ Len(P[Len(F) + 1]) >= BufSize => Fitting(P) = F
<1> DEFINE T == Seq(ByteSet)
           I == {i \in 1 .. Len(P) : Len(P[i]) >= BufSize}
           k == SelectInSeq(P, LAMBDA f : Len(f) >= BufSize)
           m == Len(F)
           n == Len(P)
<1>1. P \in Seq(T) /\ F \in Seq(T) /\ m \in Nat /\ n \in Nat /\ m <= n
  BY LenProperties DEF Fields
<1>2. k = IF I # {} THEN Min(I) ELSE 0
  BY DEF SelectInSeq
<1>3. Fitting(P) = IF k = 0 THEN P ELSE SubSeq(P, 1, k - 1)
  BY DEF Fitting
<1>4. \A i \in 1 .. m : Len(P[i]) \in Nat /\ ~(Len(P[i]) >= BufSize)
  <2>1. \A i \in 1 .. m : F[i] \in T /\ P[i] = F[i] /\ Len(F[i]) < BufSize
    BY <1>1, LenProperties DEF FitAll
  <2>2. QED
    BY <2>1, BufAssumption
<1>5. CASE I = {}
  <2>1. Fitting(P) = P
    BY <1>2, <1>3, <1>5
  <2>2. ~(m < n /\ Len(P[m + 1]) >= BufSize)
    <3>1. m < n => m + 1 \in 1 .. n
      BY <1>1
    <3>2. QED
      BY <1>5, <3>1
  <2>3. QED
    BY <1>1, <2>1, <2>2 DEF Fields
<1>6. CASE I # {}
  <2>1. PICK x \in I : \A y \in I : x <= y
    <3>1. I \in SUBSET Nat
      OBVIOUS
    <3> HIDE DEF I
    <3>2. QED
      BY <1>6, <3>1, LeastNumber
  <2>2. k = x
    <3>1. Min(I) \in I /\ \A y \in I : Min(I) <= y
      BY <2>1 DEF Min
    <3>2. I \in SUBSET Nat
      OBVIOUS
    <3> HIDE DEF I, k
    <3>3. x <= Min(I) /\ Min(I) <= x
      BY <2>1, <3>1
    <3>4. x \in Nat /\ Min(I) \in Nat
      BY <2>1, <3>1, <3>2
    <3>5. Min(I) = x
      BY <3>3, <3>4
    <3>6. QED
      BY <1>2, <1>6, <3>5
  <2> HIDE DEF k
  <2>3. x \in 1 .. n /\ m < x /\ k # 0
    BY <1>1, <1>4, <2>2
  <2>4. Fitting(P) = SubSeq(P, 1, x - 1)
    BY <1>3, <2>2, <2>3
  <2>5. /\ SubSeq(P, 1, x - 1) \in Seq(T) /\ Len(SubSeq(P, 1, x - 1)) = x - 1
        /\ \A i \in 1 .. (x - 1) : SubSeq(P, 1, x - 1)[i] = P[i]
    <3>1. \A i \in 1 .. (x - 1) : P[i] \in T
      BY <1>1, <2>3, LenProperties
    <3> HIDE DEF T
    <3>2. QED
      BY <1>1, <2>3, <3>1, SubSeqProperties
  <2>6. m <= x - 1 /\ \A i \in 1 .. m : SubSeq(P, 1, x - 1)[i] = F[i]
    BY <1>1, <2>3, <2>5
  <2>7. ASSUME m < n, Len(P[m + 1]) >= BufSize PROVE Fitting(P) = F
    <3>1. m + 1 \in I
      BY <1>1, <2>7
    <3>2. x = m + 1
      BY <1>1, <2>1, <2>3, <3>1
    <3> HIDE DEF T, I
    <3>3. QED
      BY <1>1, <2>4, <2>5, <2>6, <3>2, SeqEqual
  <2>8. QED
    BY <1>1, <2>3, <2>4, <2>5, <2>6, <2>7 DEF Fields
<1>7. QED
  BY <1>5, <1>6

LEMMA SeenAre ==
  ASSUME NEW F \in Fields
  PROVE  /\ Seen(F) \in Fields /\ Len(Seen(F)) = Len(F)
         /\ \A i \in 1 .. Len(F) : Seen(F)[i] = CString(F[i])
<1> DEFINE T == Seq(ByteSet)
<1>1. F \in Seq(T) /\ Len(F) \in Nat /\ DOMAIN F = 1 .. Len(F)
  BY LenProperties DEF Fields
<1>2. \A i \in 1 .. Len(F) : CString(F[i]) \in T
  <2>1. \A i \in 1 .. Len(F) : F[i] \in T
    BY <1>1
  <2>2. QED
    BY <2>1, CStringType
<1>3. Seen(F) \in [1 .. Len(F) -> T]
  BY <1>1, <1>2 DEF Seen
<1>4. Seen(F) \in Seq(T) /\ Len(Seen(F)) = Len(F)
  <2> HIDE DEF T
  <2>1. QED
    BY <1>1, <1>3, IsASeq, LenProperties
<1>5. QED
  BY <1>1, <1>4 DEF Seen, Fields

LEMMA SeenAppend ==
  ASSUME NEW F \in Fields, NEW u \in Seq(ByteSet)
  PROVE  Append(F, u) \in Fields /\ Seen(Append(F, u)) = Append(Seen(F), CString(u))
<1> DEFINE T == Seq(ByteSet)
           G == Append(F, u)
           H == Append(Seen(F), CString(u))
           n == Len(F)
<1>1. F \in Seq(T) /\ n \in Nat /\ u \in T /\ CString(u) \in T
  BY LenProperties, CStringType DEF Fields
<1>2. /\ Seen(F) \in Seq(T) /\ Len(Seen(F)) = n
      /\ \A i \in 1 .. n : Seen(F)[i] = CString(F[i])
  BY SeenAre DEF Fields
<1>3. /\ G \in Seq(T) /\ Len(G) = n + 1 /\ G[n + 1] = u /\ \A i \in 1 .. n : G[i] = F[i]
  <2> HIDE DEF T
  <2>1. QED
    BY <1>1, AppendProperties
<1>4. /\ H \in Seq(T) /\ Len(H) = n + 1 /\ H[n + 1] = CString(u)
      /\ \A i \in 1 .. n : H[i] = Seen(F)[i]
  <2> HIDE DEF T
  <2>1. QED
    BY <1>1, <1>2, AppendProperties
<1>5. /\ Seen(G) \in Seq(T) /\ Len(Seen(G)) = n + 1
      /\ \A i \in 1 .. (n + 1) : Seen(G)[i] = CString(G[i])
  <2>1. G \in Fields
    BY <1>3 DEF Fields
  <2> HIDE DEF G
  <2>2. QED
    BY <1>3, <2>1, SeenAre DEF Fields
<1>6. \A i \in 1 .. (n + 1) : Seen(G)[i] = H[i]
  <2> SUFFICES ASSUME NEW i \in 1 .. (n + 1) PROVE Seen(G)[i] = H[i]
    OBVIOUS
  <2> HIDE DEF G, H, T
  <2>1. CASE i = n + 1
    BY <1>3, <1>4, <1>5, <2>1
  <2>2. CASE i # n + 1
    BY <1>1, <1>2, <1>3, <1>4, <1>5, <2>2
  <2>3. QED
    BY <2>1, <2>2
<1>7. Seen(G) = H
  <2> HIDE DEF G, H, T
  <2>1. QED
    BY <1>1, <1>4, <1>5, <1>6, SeqEqual
<1>8. QED
  BY <1>3, <1>7 DEF Fields

(* What has been split so far, and what the parser has made of it.         *)
SplitSoFar == Split(Bytes(filter))[Len(filter) - Len(pattern)]

PatternInv ==
  /\ pc = "call" => /\ SplitSoFar.last = <<>> \/ pattern = <<>>
                    /\ FitAll(AllFields(SplitSoFar))
                    /\ appended = Seen(AllFields(SplitSoFar))
  /\ pc = "read" => /\ buf = SplitSoFar.last
                    /\ FitAll(SplitSoFar.fields)
                    /\ appended = Seen(SplitSoFar.fields)
  /\ pc = "end"  => appended = Seen(Fitting(Patterns(Bytes(filter))))

LEMMA BytesAre ==
  ASSUME Typed
  PROVE  /\ Bytes(filter) \in Seq(ByteSet) /\ Len(Bytes(filter)) = Len(filter)
         /\ \A i \in 1 .. Len(filter) : Bytes(filter)[i] = Byte[filter[i]]
         /\ Len(filter) \in Nat /\ Len(pattern) \in Nat
         /\ Len(filter) - Len(pattern) \in 0 .. Len(filter)
<1>1. filter \in Seq(Chars) /\ pattern \in Seq(Chars) /\ Len(pattern) <= Len(filter)
  BY DEF Typed, AtItsEnd
<1>2. Bytes(filter) = [i \in 1 .. Len(filter) |-> Byte[filter[i]]]
  BY <1>1 DEF Bytes
<1>3. \A i \in 1 .. Len(filter) : Byte[filter[i]] \in ByteSet
  BY <1>1 DEF ByteSet
<1>4. QED
  BY <1>1, <1>2, <1>3

LEMMA SplitTyped ==
  ASSUME Typed
  PROVE  /\ SplitSoFar \in Cuts /\ SplitSoFar.fields \in Fields /\ SplitSoFar.last \in Seq(ByteSet)
         /\ pattern = <<>> => AllFields(SplitSoFar) = Patterns(Bytes(filter))
<1>1. SplitSoFar \in Cuts
  BY BytesAre, SplitIs DEF SplitSoFar
<1>2. ASSUME pattern = <<>> PROVE Len(filter) - Len(pattern) = Len(Bytes(filter))
  BY <1>2, BytesAre
<1>3. QED
  BY <1>1, <1>2 DEF SplitSoFar, Patterns, Cuts

(* Reading a character splits one byte more.                               *)
LEMMA SplitReads ==
  ASSUME Typed, pattern # <<>>, pattern' = Tail(pattern), filter' = filter
  PROVE  /\ SplitSoFar' = WithByte(Sym(Head(pattern)), SplitSoFar)
         /\ Sym(Head(pattern)) \in ByteSet
         /\ Len(filter) - Len(pattern) + 1 \in 1 .. Len(filter)
         /\ SplitSoFar' = Split(Bytes(filter))[Len(filter) - Len(pattern) + 1]
<1> DEFINE b == Bytes(filter)
           n == Len(filter) - Len(pattern)
<1>1. /\ Len(pattern) >= 1 /\ Len(Tail(pattern)) = Len(pattern) - 1
      /\ Head(pattern) = pattern[1] /\ Head(pattern) \in Chars
  BY HeadTailProperties DEF Typed
<1>2. /\ b \in Seq(ByteSet) /\ Len(b) = Len(filter) /\ Len(filter) \in Nat /\ Len(pattern) \in Nat
      /\ \A i \in 1 .. Len(filter) : b[i] = Byte[filter[i]]
      /\ n \in 0 .. Len(filter)
  BY BytesAre
<1>3. pattern[1] = filter[n + 1]
  <2>1. 1 \in 1 .. Len(pattern)
    BY <1>1, <1>2
  <2>2. QED
    BY <2>1 DEF Typed, AtItsEnd
<1>4. n + 1 \in 1 .. Len(filter)
  BY <1>1, <1>2
<1>5. b[n + 1] = Sym(Head(pattern)) /\ Sym(Head(pattern)) \in ByteSet
  BY <1>1, <1>2, <1>3, <1>4 DEF Sym, ByteSet
<1>6. Split(b)[n + 1] = WithByte(b[n + 1], Split(b)[n])
  <2>1. (n + 1) - 1 = n
    BY <1>2
  <2> HIDE DEF b, n
  <2>2. n + 1 \in 1 .. Len(b)
    BY <1>2, <1>4
  <2>3. Split(b)[n + 1] = WithByte(b[n + 1], Split(b)[(n + 1) - 1])
    BY <1>2, <2>2, SplitIs
  <2>4. QED
    BY <2>1, <2>3
<1>7. SplitSoFar' = Split(b)[n + 1]
  <2>1. Len(filter) - Len(Tail(pattern)) = n + 1
    BY <1>1, <1>2
  <2>2. SplitSoFar' = Split(b)[Len(filter) - Len(Tail(pattern))]
    BY DEF SplitSoFar, Bytes
  <2> HIDE DEF b, n
  <2>3. QED
    BY <2>1, <2>2
<1>8. QED
  BY <1>4, <1>5, <1>6, <1>7 DEF SplitSoFar

LEMMA PatternInit == Init => PatternInv
<1> SUFFICES ASSUME Init PROVE PatternInv
  OBVIOUS
<1>1. Typed /\ pc = "call" /\ pattern = filter /\ appended = <<>>
  BY InitTyped DEF Init
<1>2. Len(filter) - Len(pattern) = 0
  BY <1>1, BytesAre
<1>3. SplitSoFar = NoCut
  BY <1>1, <1>2, BytesAre, SplitIs DEF SplitSoFar
<1>4. AllFields(SplitSoFar) = <<>> /\ SplitSoFar.last = <<>>
  BY <1>3 DEF NoCut, AllFields
<1>5. Seen(<<>>) = <<>>
  BY DEF Seen
<1>6. FitAll(<<>>)
  BY DEF FitAll
<1>7. QED
  BY <1>1, <1>4, <1>5, <1>6 DEF PatternInv

LEMMA FitAppend ==
  ASSUME NEW F \in Fields, FitAll(F), NEW u \in Seq(ByteSet), Len(u) < BufSize
  PROVE  FitAll(Append(F, u))
<1> DEFINE T == Seq(ByteSet)
<1>1. F \in Seq(T) /\ u \in T
  BY DEF Fields
<1>2. /\ Len(Append(F, u)) = Len(F) + 1 /\ Append(F, u)[Len(F) + 1] = u
      /\ \A i \in 1 .. Len(F) : Append(F, u)[i] = F[i]
  <2> HIDE DEF T
  <2>1. QED
    BY <1>1, AppendProperties
<1>3. Len(F) \in Nat
  BY <1>1, LenProperties
<1>4. QED
  BY <1>2, <1>3 DEF FitAll

LEMMA PatternStep ==
  ASSUME Typed, Bounded, PatternInv, [Next]_vars
  PROVE  PatternInv'
<1> DEFINE F == SplitSoFar.fields
           P == Patterns(Bytes(filter))
<1>1. /\ SplitSoFar \in Cuts /\ F \in Fields /\ SplitSoFar.last \in Seq(ByteSet)
      /\ pattern = <<>> => AllFields(SplitSoFar) = P
      /\ P \in Fields
  BY SplitTyped, BytesAre, PatternsAre
<1>2. Len(buf) < BufSize /\ buf \in Seq(ByteSet) /\ Len(buf) \in Nat
  BY BufAssumption, LenProperties DEF Bounded, BufferInBounds
<1>3. CASE Call
  <2>1. /\ pc = "call" /\ buf' = <<>> /\ UNCHANGED <<filter, pattern, appended>>
        /\ pc' = IF pattern = <<>> THEN "end" ELSE "read"
    BY <1>3 DEF Call, Reset, ReturnNull
  <2>2. SplitSoFar' = SplitSoFar /\ Bytes(filter)' = Bytes(filter)
    BY <2>1 DEF SplitSoFar, Bytes
  <2>3. CASE pattern = <<>>
    <3>1. FitAll(P) /\ appended = Seen(P)
      BY <1>1, <2>1, <2>3 DEF PatternInv
    <3>2. Fitting(P) = P
      <4> HIDE DEF P
      <4>1. QED
        BY <1>1, <3>1, FittingAre, LenProperties DEF Fields
    <3>3. QED
      BY <2>1, <2>2, <2>3, <3>1, <3>2 DEF PatternInv
  <2>4. CASE pattern # <<>>
    <3>1. SplitSoFar.last = <<>> /\ AllFields(SplitSoFar) = F
      BY <2>1, <2>4 DEF PatternInv, AllFields
    <3>2. QED
      BY <2>1, <2>2, <2>4, <3>1 DEF PatternInv
  <2>5. QED
    BY <2>3, <2>4
<1>4. CASE Separator
  <2>1. /\ pc = "read" /\ pattern # <<>> /\ pattern' = Tail(pattern) /\ filter' = filter
        /\ Sym(Head(pattern)) = Sep /\ pc' = "call"
        /\ appended' = Append(appended, CString(buf))
    BY <1>4 DEF Separator, Return
  <2>2. SplitSoFar' = [fields |-> Append(F, SplitSoFar.last), last |-> <<>>]
    BY <2>1, SplitReads DEF WithByte
  <2>3. buf = SplitSoFar.last /\ FitAll(F) /\ appended = Seen(F)
    BY <2>1 DEF PatternInv
  <2> HIDE DEF F
  <2>4. AllFields(SplitSoFar)' = Append(F, buf) /\ SplitSoFar'.last = <<>>
    BY <2>2, <2>3 DEF AllFields
  <2>5. FitAll(Append(F, buf)) /\ appended' = Seen(Append(F, buf))
    BY <1>1, <1>2, <2>1, <2>3, FitAppend, SeenAppend
  <2>6. QED
    BY <2>1, <2>4, <2>5 DEF PatternInv
<1>5. CASE Store
  <2>1. /\ pc = "read" /\ pattern # <<>> /\ pattern' = Tail(pattern) /\ filter' = filter
        /\ Sym(Head(pattern)) # Sep /\ pc' = "read" /\ appended' = appended
        /\ buf' = Append(buf, Sym(Head(pattern)))
    BY <1>5 DEF Store
  <2>2. SplitSoFar' = [SplitSoFar EXCEPT !.last = Append(SplitSoFar.last, Sym(Head(pattern)))]
    BY <2>1, SplitReads DEF WithByte
  <2>3. SplitSoFar'.fields = F /\ SplitSoFar'.last = Append(SplitSoFar.last, Sym(Head(pattern)))
    BY <1>1, <2>2 DEF Cuts
  <2>4. QED
    BY <2>1, <2>3 DEF PatternInv
<1>6. CASE Overflow
  <2> DEFINE G == SplitSoFar'
  <2>1. /\ pc = "read" /\ pattern # <<>> /\ pattern' = Tail(pattern) /\ filter' = filter
        /\ Sym(Head(pattern)) # Sep /\ pc' = "end" /\ appended' = appended
        /\ Len(buf) > BufSize - 2
    BY <1>6 DEF Overflow, ReturnNull, Full
  <2>2. G = [SplitSoFar EXCEPT !.last = Append(SplitSoFar.last, Sym(Head(pattern)))]
    BY <2>1, SplitReads DEF WithByte
  <2>3. G.fields = F /\ G.last = Append(SplitSoFar.last, Sym(Head(pattern)))
    BY <1>1, <2>2 DEF Cuts
  <2>4. buf = SplitSoFar.last /\ FitAll(F) /\ appended = Seen(F)
    BY <2>1 DEF PatternInv
  <2>5. Sym(Head(pattern)) \in ByteSet
    BY <2>1, SplitReads
  <2>6. Len(G.last) = Len(buf) + 1 /\ G.last # <<>>
    <3>1. Append(buf, Sym(Head(pattern))) \in Seq(ByteSet)
          /\ Len(Append(buf, Sym(Head(pattern)))) = Len(buf) + 1
      BY <1>2, <2>5, AppendProperties
    <3>2. QED
      BY <1>2, <2>3, <2>4, <3>1
  <2>7. /\ Len(F) <= Len(P) /\ \A i \in 1 .. Len(F) : P[i] = F[i]
        /\ Len(F) < Len(P) /\ Len(G.last) <= Len(P[Len(F) + 1])
    <3>1. G = Split(Bytes(filter))[Len(filter) - Len(pattern) + 1]
          /\ Len(filter) - Len(pattern) + 1 \in 0 .. Len(Bytes(filter))
          /\ Bytes(filter) \in Seq(ByteSet)
      BY <2>1, SplitReads, BytesAre
    <3> HIDE DEF G
    <3>2. /\ Len(G.fields) <= Len(P) /\ \A i \in 1 .. Len(G.fields) : P[i] = G.fields[i]
          /\ Len(G.fields) < Len(P) /\ Len(G.last) <= Len(P[Len(G.fields) + 1])
      BY <2>6, <3>1, PatternsAre
    <3>3. QED
      BY <2>3, <3>2
  <2>8. Len(P[Len(F) + 1]) >= BufSize
    <3>1. Len(F) + 1 \in 1 .. Len(P) /\ P \in Seq(Seq(ByteSet))
      BY <1>1, <2>7, LenProperties DEF Fields
    <3>2. P[Len(F) + 1] \in Seq(ByteSet)
      <4> HIDE DEF F, P
      <4>1. QED
        BY <3>1, LenProperties
    <3>3. Len(P[Len(F) + 1]) \in Nat
      BY <3>2, LenProperties
    <3>4. QED
      BY <1>2, <2>1, <2>6, <2>7, <3>3, BufAssumption
  <2>9. Fitting(P) = F
    <3> HIDE DEF F, P
    <3>1. QED
      BY <1>1, <2>4, <2>7, <2>8, FittingAre
  <2>10. Bytes(filter)' = Bytes(filter)
    BY <2>1 DEF Bytes
  <2>11. QED
    BY <2>1, <2>4, <2>9, <2>10 DEF PatternInv
<1>7. CASE EndOfString
  <2>1. /\ pc = "read" /\ pattern = <<>> /\ UNCHANGED <<filter, pattern, buf>>
        /\ IF buf # <<>> THEN appended' = Append(appended, CString(buf)) /\ pc' = "call"
                         ELSE appended' = appended /\ pc' = "end"
    BY <1>7 DEF EndOfString, Return, ReturnNull
  <2>2. SplitSoFar' = SplitSoFar /\ Bytes(filter)' = Bytes(filter)
    BY <2>1 DEF SplitSoFar, Bytes
  <2>3. buf = SplitSoFar.last /\ FitAll(F) /\ appended = Seen(F)
    BY <2>1 DEF PatternInv
  <2>4. CASE buf # <<>>
    <3>1. AllFields(SplitSoFar) = Append(F, buf)
      BY <2>3, <2>4 DEF AllFields
    <3> HIDE DEF F
    <3>2. FitAll(Append(F, buf)) /\ Append(Seen(F), CString(buf)) = Seen(Append(F, buf))
      BY <1>1, <1>2, <2>3, FitAppend, SeenAppend
    <3>3. QED
      BY <2>1, <2>2, <2>3, <2>4, <3>1, <3>2 DEF PatternInv
  <2>5. CASE buf = <<>>
    <3>1. P = F
      BY <1>1, <2>1, <2>3, <2>5 DEF AllFields
    <3>2. Fitting(P) = P
      <4> HIDE DEF P, F
      <4>1. QED
        BY <1>1, <2>3, <3>1, FittingAre, LenProperties DEF Fields
    <3>3. QED
      BY <2>1, <2>2, <2>3, <2>5, <3>1, <3>2 DEF PatternInv
  <2>6. QED
    BY <2>4, <2>5
<1>8. CASE UNCHANGED vars
  BY <1>8 DEF vars, PatternInv, SplitSoFar, Bytes
<1>9. QED
  BY <1>3, <1>4, <1>5, <1>6, <1>7, <1>8 DEF Next

LEMMA SeenPrefix ==
  ASSUME NEW P \in Fields, NEW F \in Fields, FitAll(F), Len(F) <= Len(P),
         \A i \in 1 .. Len(F) : P[i] = F[i]
  PROVE  IsPrefix(Seen(F), Seen(Fitting(P)))
<1> DEFINE T == Seq(ByteSet)
           s == Seen(F)
           t == Seen(Fitting(P))
           n == Len(F)
<1>1. /\ Fitting(P) \in Fields /\ n <= Len(Fitting(P))
      /\ \A i \in 1 .. n : Fitting(P)[i] = F[i]
  BY FittingAre
<1>2. /\ s \in Seq(T) /\ Len(s) = n /\ \A i \in 1 .. n : s[i] = CString(F[i])
  BY SeenAre DEF Fields
<1>3. /\ t \in Seq(T) /\ Len(t) = Len(Fitting(P))
      /\ \A i \in 1 .. Len(Fitting(P)) : t[i] = CString(Fitting(P)[i])
  BY <1>1, SeenAre DEF Fields
<1>4. n \in Nat /\ Len(Fitting(P)) \in Nat
  BY <1>1, LenProperties DEF Fields
<1> HIDE DEF s, t, n, T
<1>5. \A i \in 1 .. n : s[i] \in T /\ t[i] \in T /\ s[i] = t[i]
  <2>1. \A i \in 1 .. n : i \in 1 .. Len(s) /\ i \in 1 .. Len(t) /\ i \in 1 .. Len(Fitting(P))
    BY <1>1, <1>2, <1>3, <1>4
  <2>2. \A i \in 1 .. n : s[i] \in T /\ t[i] \in T
    BY <1>2, <1>3, <2>1, LenProperties
  <2>3. QED
    BY <1>1, <1>2, <1>3, <2>1, <2>2 DEF n
<1>6. /\ SubSeq(s, 1, n) \in Seq(T) /\ SubSeq(t, 1, n) \in Seq(T)
      /\ Len(SubSeq(s, 1, n)) = n /\ Len(SubSeq(t, 1, n)) = n
      /\ \A i \in 1 .. n : SubSeq(s, 1, n)[i] = s[i] /\ SubSeq(t, 1, n)[i] = t[i]
  BY <1>1, <1>2, <1>3, <1>4, <1>5, SubSeqProperties
<1>7. SubSeq(s, 1, n) = SubSeq(t, 1, n)
  BY <1>5, <1>6, SeqEqual
<1>8. QED
  BY <1>1, <1>2, <1>3, <1>7 DEF IsPrefix, s, t, n

(* Whatever string the caller passes, the request gets the patterns of the *)
(* string split at its semicolons, in order and each as C sees it, up to   *)
(* the first that does not fit into the parser's buffer                    *)
(* (src/pattern_parser.c 60-95, src/portal.c 273-281).                     *)
THEOREM RequestCarriesPatterns == Spec => []AppendsPatterns
<1>1. Typed /\ PatternInv => AppendsPatterns
  <2> SUFFICES ASSUME Typed, PatternInv PROVE AppendsPatterns
    OBVIOUS
  <2> DEFINE P == Patterns(Bytes(filter))
             s == SplitSoFar
  <2>1. /\ s \in Cuts /\ P \in Fields /\ s.fields \in Fields
        /\ pattern = <<>> => AllFields(s) = P
        /\ Len(s.fields) <= Len(P) /\ \A i \in 1 .. Len(s.fields) : P[i] = s.fields[i]
    <3>1. /\ Bytes(filter) \in Seq(ByteSet)
          /\ Len(filter) - Len(pattern) \in 0 .. Len(Bytes(filter))
      BY BytesAre
    <3>2. /\ P \in Fields
          /\ Len(s.fields) <= Len(P) /\ \A i \in 1 .. Len(s.fields) : P[i] = s.fields[i]
      BY <3>1, PatternsAre DEF SplitSoFar
    <3>3. QED
      BY <3>2, SplitTyped
  <2>2. CASE pc = "end"
    <3>1. appended = Seen(Fitting(P))
      BY <2>2 DEF PatternInv
    <3>2. appended \in Seq(Seq(ByteSet))
      BY DEF Typed
    <3>3. IsPrefix(appended, appended)
      BY <3>2, LenProperties DEF IsPrefix
    <3>4. QED
      BY <3>1, <3>3 DEF AppendsPatterns
  <2>3. ASSUME NEW F \in Fields, pc # "end", FitAll(F), appended = Seen(F), Len(F) <= Len(P),
               \A i \in 1 .. Len(F) : P[i] = F[i]
        PROVE  AppendsPatterns
    <3> HIDE DEF P
    <3>1. IsPrefix(Seen(F), Seen(Fitting(P)))
      BY <2>1, <2>3, SeenPrefix
    <3>2. QED
      BY <2>3, <3>1 DEF AppendsPatterns, P
  <2>4. CASE pc = "read"
    BY <2>1, <2>3, <2>4 DEF PatternInv
  <2>5. CASE pc = "call" /\ pattern = <<>>
    <3>1. FitAll(P) /\ appended = Seen(P)
      BY <2>1, <2>5 DEF PatternInv
    <3>2. Len(P) <= Len(P)
      BY <2>1, LenProperties DEF Fields
    <3>3. QED
      BY <2>1, <2>3, <2>5, <3>1, <3>2
  <2>6. CASE pc = "call" /\ pattern # <<>>
    <3>1. FitAll(s.fields) /\ appended = Seen(s.fields)
      BY <2>6 DEF PatternInv, AllFields
    <3>2. QED
      BY <2>1, <2>3, <2>6, <3>1
  <2>7. QED
    BY <2>2, <2>4, <2>5, <2>6 DEF Typed
<1>2. QED
  BY <1>1, InitTyped, NextTyped, InitBounded, NextBounded, PatternInit, PatternStep, PTL DEF Spec

=============================================================================
