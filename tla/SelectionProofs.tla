--------------------------- MODULE SelectionProofs ---------------------------
(***************************************************************************)
(* Loops.  A property of the state after n iterations is proved by         *)
(* induction on n; since no prover can instantiate a theorem about a       *)
(* property, the induction is over the set of the numbers that have it.    *)
(***************************************************************************)
EXTENDS Selection, Integers, WellFoundedInduction, TLAPS

(* A set of natural numbers has a least one.                               *)
LEMMA LeastNumber ==
  ASSUME NEW T \in SUBSET Nat, T # {}
  PROVE  \E x \in T : \A y \in T : x <= y
<1>1. PICK x \in T : \A y \in T : <<y, x>> \notin OpToRel(<, Nat)
  BY WFMin, NatLessThanWellFounded
<1>2. \A y \in T : ~ (y < x)
  BY <1>1 DEF OpToRel
<1>3. QED
  BY <1>2

(* Induction.                                                              *)
LEMMA NumbersInduct ==
  ASSUME NEW S \in SUBSET Nat, 0 \in S, \A n \in S : n + 1 \in S
  PROVE  S = Nat
<1> SUFFICES ASSUME S # Nat PROVE FALSE
  OBVIOUS
<1> DEFINE T == Nat \ S
<1>1. T \in SUBSET Nat /\ T # {}
  OBVIOUS
<1>2. PICK x \in T : \A y \in T : x <= y
  <2> HIDE DEF T
  <2>1. QED
    BY <1>1, LeastNumber
<1>3. x - 1 \in Nat /\ x - 1 \notin T
  BY <1>2
<1>4. QED
  BY <1>3

(* Induction up to a bound.                                                *)
LEMMA UpToInduct ==
  ASSUME NEW N \in Nat, NEW S, 0 \in S, \A n \in 1 .. N : n - 1 \in S => n \in S
  PROVE  0 .. N \subseteq S
<1> DEFINE T == {n \in Nat : n <= N => n \in S}
<1>1. 0 \in T
  OBVIOUS
<1>2. ASSUME NEW n \in T PROVE n + 1 \in T
  <2> SUFFICES ASSUME n + 1 <= N PROVE n + 1 \in S
    OBVIOUS
  <2>1. n + 1 \in 1 .. N /\ (n + 1) - 1 = n /\ n \in S
    OBVIOUS
  <2>2. QED
    BY <2>1
<1>3. T = Nat
  <2> HIDE DEF T
  <2>1. T \in SUBSET Nat
    BY DEF T
  <2>2. QED
    BY <1>1, <1>2, <2>1, NumbersInduct
<1>4. QED
  BY <1>3

(* A loop of N iterations over states in V, each of which computes the     *)
(* next state of the last one, has a state after each of them.             *)
Iterations(V, v, N, F) ==
  {g \in [0 .. N -> V] : g[0] = v /\ \A k \in 1 .. N : g[k] = F[<<k, g[k - 1]>>]}

LEMMA LoopRuns ==
  ASSUME NEW V, NEW v \in V, NEW N \in Nat, NEW F \in [(1 .. N) \X V -> V]
  PROVE  Iterations(V, v, N, F) # {}
<1> DEFINE Ends(n) ==
             \E g \in [0 .. n -> V] : g[0] = v /\ \A k \in 1 .. n : g[k] = F[<<k, g[k - 1]>>]
           S == {n \in Nat : Ends(n)}
<1>1. 0 \in S
  <2> DEFINE g == [k \in 0 .. 0 |-> v]
  <2>1. g \in [0 .. 0 -> V] /\ g[0] = v /\ \A k \in 1 .. 0 : g[k] = F[<<k, g[k - 1]>>]
    OBVIOUS
  <2>2. QED
    BY <2>1
<1>2. ASSUME NEW n \in 1 .. N, n - 1 \in S PROVE n \in S
  <2>1. PICK g \in [0 .. (n - 1) -> V] :
          g[0] = v /\ \A k \in 1 .. (n - 1) : g[k] = F[<<k, g[k - 1]>>]
    BY <1>2
  <2> DEFINE h == [k \in 0 .. n |-> IF k = n THEN F[<<n, g[n - 1]>>] ELSE g[k]]
  <2>2. g[n - 1] \in V
    OBVIOUS
  <2>3. <<n, g[n - 1]>> \in (1 .. N) \X V
    BY <2>2
  <2>4. F[<<n, g[n - 1]>>] \in V
    BY <2>3
  <2>5. h \in [0 .. n -> V]
    BY <2>4
  <2>6. h[0] = v
    BY <2>1
  <2>7. ASSUME NEW k \in 1 .. n PROVE h[k] = F[<<k, h[k - 1]>>]
    <3>1. h[k - 1] = g[k - 1]
      OBVIOUS
    <3>2. CASE k = n
      <4>1. h[n] = F[<<n, g[n - 1]>>]
        OBVIOUS
      <4> HIDE DEF h
      <4>2. QED
        BY <3>1, <3>2, <4>1
    <3>3. CASE k # n
      <4>1. k \in 1 .. (n - 1) /\ h[k] = g[k]
        BY <3>3
      <4> HIDE DEF h
      <4>2. QED
        BY <2>1, <3>1, <4>1
    <3>4. QED
      BY <3>2, <3>3
  <2> HIDE DEF h
  <2>8. n \in Nat /\ Ends(n)
    BY <2>5, <2>6, <2>7
  <2>9. QED
    BY <2>8
<1>3. 0 .. N \subseteq S
  <2> HIDE DEF S
  <2>1. QED
    BY <1>1, <1>2, UpToInduct
<1>4. Ends(N)
  BY <1>3
<1>5. QED
  BY <1>4 DEF Iterations

-----------------------------------------------------------------------------
(* The loop copies nothing but the elements it is to copy.                 *)
LEMMA ElementsUpToIs ==
  ASSUME NEW U, NEW s \in Seq(U), NEW I, NEW T, \A k \in I \cap (1 .. Len(s)) : s[k] \in T
  PROVE  /\ ElementsUpTo(s, I) \in [0 .. Len(s) -> Seq(T)]
         /\ ElementsUpTo(s, I)[0] = <<>>
         /\ \A n \in 1 .. Len(s) :
              ElementsUpTo(s, I)[n] = IF n \in I THEN Append(ElementsUpTo(s, I)[n - 1], s[n])
                                      ELSE ElementsUpTo(s, I)[n - 1]
<1> DEFINE N == Len(s)
           Step(k, t) == IF k \in I THEN Append(t, s[k]) ELSE t
           F == [p \in (1 .. N) \X Seq(T) |-> Step(p[1], p[2])]
           Loop(g) == [n \in 0 .. N |->
                         IF n = 0 THEN <<>>
                         ELSE IF n \in I THEN Append(g[n - 1], s[n])
                         ELSE g[n - 1]]
           f == ElementsUpTo(s, I)
<1>1. N \in Nat
  OBVIOUS
<1>2. F \in [(1 .. N) \X Seq(T) -> Seq(T)]
  <2>1. ASSUME NEW k \in 1 .. N, NEW t \in Seq(T) PROVE Step(k, t) \in Seq(T)
    BY <2>1
  <2>2. QED
    BY <2>1
<1>3. PICK g \in [0 .. N -> Seq(T)] : g[0] = <<>> /\ \A k \in 1 .. N : g[k] = F[<<k, g[k - 1]>>]
  <2>1. <<>> \in Seq(T)
    OBVIOUS
  <2>2. Iterations(Seq(T), <<>>, N, F) # {}
    <3> HIDE DEF F, N
    <3>1. QED
      BY <1>1, <1>2, <2>1, LoopRuns
  <2> HIDE DEF F, N
  <2>3. QED
    BY <2>2 DEF Iterations
<1>4. g = Loop(g)
  <2>1. ASSUME NEW k \in 1 .. N PROVE g[k] = Step(k, g[k - 1])
    <3>1. g[k - 1] \in Seq(T)
      OBVIOUS
    <3>2. QED
      BY <1>3, <3>1
  <2>2. ASSUME NEW k \in 0 .. N PROVE g[k] = Loop(g)[k]
    <3>1. CASE k = 0
      BY <1>3, <3>1
    <3>2. CASE k # 0
      <4>1. k \in 1 .. N
        BY <3>2
      <4>2. Loop(g)[k] = Step(k, g[k - 1])
        BY <3>2
      <4>3. g[k] = Step(k, g[k - 1])
        BY <2>1, <4>1
      <4> HIDE DEF Loop, Step
      <4>4. QED
        BY <4>2, <4>3
    <3>3. QED
      BY <3>1, <3>2
  <2>3. QED
    BY <2>2
<1>5. f = CHOOSE h : h = Loop(h)
  BY DEF ElementsUpTo
<1>6. f = Loop(f)
  <2> HIDE DEF Loop, f
  <2>1. QED
    BY <1>4, <1>5
<1> HIDE DEF f
<1>7. f[0] = <<>> /\ \A k \in 1 .. N : f[k] = Step(k, f[k - 1])
  <2>1. Loop(f)[0] = <<>> /\ \A k \in 1 .. N : Loop(f)[k] = Step(k, f[k - 1])
    BY <1>1
  <2> HIDE DEF Loop
  <2>2. QED
    BY <1>6, <2>1
<1> DEFINE S == {n \in Nat : f[n] \in Seq(T)}
<1>8. 0 .. N \subseteq S
  <2>1. 0 \in S
    <3>1. <<>> \in Seq(T)
      OBVIOUS
    <3>2. QED
      BY <1>7, <3>1
  <2>2. ASSUME NEW n \in 1 .. N, n - 1 \in S PROVE n \in S
    <3>1. f[n - 1] \in Seq(T) /\ (n \in I => s[n] \in T)
      BY <2>2
    <3>2. Step(n, f[n - 1]) \in Seq(T)
      BY <3>1
    <3>3. f[n] = Step(n, f[n - 1])
      BY <1>7
    <3>4. f[n] \in Seq(T) /\ n \in Nat
      BY <3>2, <3>3
    <3>5. QED
      BY <3>4
  <2> HIDE DEF S
  <2>3. QED
    BY <1>1, <2>1, <2>2, UpToInduct
<1>9. f \in [0 .. N -> Seq(T)]
  BY <1>6, <1>8
<1>10. QED
  BY <1>7, <1>9 DEF f

LEMMA ElementsAtType ==
  ASSUME NEW U, NEW s \in Seq(U), NEW I, NEW T, \A k \in I \cap (1 .. Len(s)) : s[k] \in T
  PROVE  ElementsAt(s, I) \in Seq(T)
<1>1. Len(s) \in 0 .. Len(s)
  OBVIOUS
<1>2. ElementsUpTo(s, I) \in [0 .. Len(s) -> Seq(T)]
  BY ElementsUpToIs
<1>3. QED
  BY <1>1, <1>2 DEF ElementsAt

(* It copies them all.                                                     *)
Members(t)      == {t[j] : j \in DOMAIN t}
Placed(s, I, n) == {s[k] : k \in I \cap (1 .. n)}

LEMMA MembersOfAppend ==
  ASSUME NEW U, NEW t \in Seq(U), NEW u \in U
  PROVE  Members(Append(t, u)) = Members(t) \cup {u}
<1> DEFINE a == Append(t, u)
<1>1. Len(t) \in Nat /\ DOMAIN t = 1 .. Len(t) /\ DOMAIN a = 1 .. (Len(t) + 1)
  OBVIOUS
<1>2. a[Len(t) + 1] = u /\ \A j \in 1 .. Len(t) : a[j] = t[j]
  OBVIOUS
<1> HIDE DEF a
<1>3. Members(a) \subseteq Members(t) \cup {u}
  BY <1>1, <1>2 DEF Members
<1>4. Members(t) \subseteq Members(a)
  BY <1>1, <1>2 DEF Members
<1>5. u \in Members(a)
  BY <1>1, <1>2 DEF Members
<1>6. QED
  BY <1>3, <1>4, <1>5 DEF a

LEMMA ElementsAtAre ==
  ASSUME NEW U, NEW s \in Seq(U), NEW I
  PROVE  Members(ElementsAt(s, I)) = Placed(s, I, Len(s))
<1> DEFINE f == ElementsUpTo(s, I)
           S == {n \in Nat : n <= Len(s) => Members(f[n]) = Placed(s, I, n)}
<1>1. /\ f \in [0 .. Len(s) -> Seq(U)]
      /\ f[0] = <<>>
      /\ \A n \in 1 .. Len(s) : f[n] = IF n \in I THEN Append(f[n - 1], s[n]) ELSE f[n - 1]
  BY ElementsUpToIs
<1> HIDE DEF f
<1>2. 0 \in S
  BY <1>1 DEF Members, Placed
<1>3. ASSUME NEW n \in 1 .. Len(s), n - 1 \in S PROVE n \in S
  <2>1. f[n - 1] \in Seq(U) /\ s[n] \in U
    BY <1>1
  <2>2. Members(f[n - 1]) = Placed(s, I, n - 1)
    BY <1>3
  <2>3. CASE n \in I
    <3>1. Members(f[n]) = Members(f[n - 1]) \cup {s[n]}
      BY <1>1, <2>1, <2>3, MembersOfAppend
    <3>2. Placed(s, I, n) = Placed(s, I, n - 1) \cup {s[n]}
      BY <2>3 DEF Placed
    <3>3. Members(f[n]) = Placed(s, I, n)
      BY ONLY <2>2, <3>1, <3>2
    <3>4. QED
      BY <3>3
  <2>4. CASE n \notin I
    <3>1. f[n] = f[n - 1]
      BY <1>1, <2>4
    <3>2. Placed(s, I, n) = Placed(s, I, n - 1)
      BY <2>4 DEF Placed
    <3>3. Members(f[n]) = Members(f[n - 1])
      BY ONLY <3>1
    <3>4. QED
      BY <2>2, <3>2, <3>3
  <2>5. QED
    BY <2>3, <2>4
<1>4. 0 .. Len(s) \subseteq S
  <2> HIDE DEF S
  <2>1. Len(s) \in Nat
    OBVIOUS
  <2>2. QED
    BY <1>2, <1>3, <2>1, UpToInduct
<1>5. Len(s) \in 0 .. Len(s) /\ Len(s) <= Len(s)
  OBVIOUS
<1>6. Len(s) \in S
  BY <1>4, <1>5
<1>7. QED
  BY <1>5, <1>6 DEF ElementsAt, f

=============================================================================
