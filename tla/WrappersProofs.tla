--------------------------- MODULE WrappersProofs ---------------------------
(***************************************************************************)
(* The memory of Wrappers, for any number of calls, any arguments and any  *)
(* answers: what is freed, with which function, and what is left.          *)
(***************************************************************************)
EXTENDS Wrappers, SelectionProofs, TLAPS

-----------------------------------------------------------------------------
(* Blocks.                                                                 *)

Freeable == Block \X {"HeapAlloc", "malloc", "libdbus", "kernel"}

LEMMA RolesAre ==
  Roles = {"dir", "title", "name", "wide", "filter_name", "path", "out", "outs", "parser",
           "paths", "msg", "reply", "error", "fd"}
BY DEF Roles, Allocator

LEMMA AllocatorsAre ==
  /\ \A role \in {"dir", "title", "name", "wide", "filter_name", "path", "out", "outs"} :
       Allocator[role] = "HeapAlloc"
  /\ \A role \in {"parser", "paths"} : Allocator[role] = "malloc"
  /\ \A role \in {"msg", "reply", "error"} : Allocator[role] = "libdbus"
  /\ Allocator["fd"] = "kernel"
BY DEF Allocator

LEMMA OfType ==
  ASSUME call \in Nat, NEW role \in Roles, NEW i \in Nat
  PROVE  /\ Of(role, i) \in Block
         /\ Of(role, i).role = role
         /\ Of(role, i).i = i
         /\ Of(role, i).call = call
BY DEF Of, Block

LEMMA FreedBlocks ==
  ASSUME NEW X
  PROVE  /\ \A f \in str_free(X) : f[1] \in X /\ f[2] = "HeapAlloc"
         /\ \A f \in free(X) : f[1] \in X /\ f[2] = "malloc"
         /\ \A f \in libdbus(X) : f[1] \in X /\ f[2] = "libdbus"
         /\ \A f \in close(X) : f[1] \in X /\ f[2] = "kernel"
         /\ \A b \in X : /\ <<b, "HeapAlloc">> \in str_free(X)
                         /\ <<b, "malloc">> \in free(X)
                         /\ <<b, "libdbus">> \in libdbus(X)
                         /\ <<b, "kernel">> \in close(X)
BY DEF str_free, free, libdbus, close

LEMMA FreedTypes ==
  ASSUME NEW X, X \subseteq Block
  PROVE  /\ str_free(X) \subseteq Freeable /\ free(X) \subseteq Freeable
         /\ libdbus(X) \subseteq Freeable /\ close(X) \subseteq Freeable
BY DEF str_free, free, libdbus, close, Freeable

LEMMA MemoryType ==
  ASSUME live \subseteq Block, bad \subseteq Freeable,
         NEW A, A \subseteq Block, NEW F, F \subseteq Freeable,
         Memory(A, F)
  PROVE  live' \subseteq Block /\ bad' \subseteq Freeable
BY DEF Memory

(* The blocks a call converts its arguments into.                          *)
LEMMA ArgBlocksAre ==
  ASSUME call \in Nat
  PROVE  \A b \in ArgBlocks : b \in Block /\ b.role \in {"dir", "title", "name"} /\ b.call = call
<1>1. \A r \in {"dir", "title", "name"} :
        Of(r, 0) \in Block /\ Of(r, 0).role = r /\ Of(r, 0).call = call
  BY RolesAre, OfType
<1> QED BY <1>1 DEF ArgBlocks

LEMMA NameBlocksAre ==
  ASSUME call \in Nat, next \in Nat
  PROVE  \A b \in NameBlocks : b \in Block /\ b.role = "filter_name" /\ b.call = call
<1>1. Of("filter_name", next) \in Block /\ Of("filter_name", next).role = "filter_name"
        /\ Of("filter_name", next).call = call
  BY RolesAre, OfType
<1> QED BY <1>1 DEF NameBlocks

LEMMA WideBlocksAre ==
  ASSUME call \in Nat, next \in Nat
  PROVE  \A b \in WideBlocks : b \in Block /\ b.role = "wide" /\ b.call = call
<1>1. Of("wide", next) \in Block /\ Of("wide", next).role = "wide" /\ Of("wide", next).call = call
  BY RolesAre, OfType
<1> QED BY <1>1 DEF WideBlocks

-----------------------------------------------------------------------------
(* The loop of path_URI_to_Unix.                                           *)

States == [src : Nat \ {0}, dst : Seq(Byte)]

LEMMA UnescapedIsByte ==
  ASSUME NEW s, NEW k, Escape(s, k)
  PROVE  Unescaped(s, k) \in Byte
<1>1. \A c \in DOMAIN Digit : Digit[c] \in 0 .. 15
  BY DEF Digit
<1>2. Digit[s[k + 1]] \in 0 .. 15 /\ Digit[s[k + 2]] \in 0 .. 15
  BY <1>1 DEF Escape
<1>3. QED
  BY <1>2 DEF Unescaped, Byte

LEMMA IterationType ==
  ASSUME NEW uri \in Seq(Byte), NEW t \in States
  PROVE  Iteration(uri, t) \in States
<1>1. t.src \in Nat \ {0} /\ t.dst \in Seq(Byte) /\ Len(uri) \in Nat
  BY DEF States
<1>2. CASE t.src > Len(uri)
  BY <1>2 DEF Iteration
<1>3. CASE ~(t.src > Len(uri)) /\ Escape(uri, t.src)
  <2>1. Unescaped(uri, t.src) \in Byte
    BY <1>3, UnescapedIsByte
  <2>2. Append(t.dst, Unescaped(uri, t.src)) \in Seq(Byte) /\ t.src + 3 \in Nat \ {0}
    BY <1>1, <2>1
  <2>3. QED
    BY <1>3, <2>2 DEF Iteration, States
<1>4. CASE ~(t.src > Len(uri)) /\ ~Escape(uri, t.src)
  <2>1. uri[t.src] \in Byte
    BY <1>1, <1>4
  <2>2. Append(t.dst, uri[t.src]) \in Seq(Byte) /\ t.src + 1 \in Nat \ {0}
    BY <1>1, <2>1
  <2>3. QED
    BY <1>4, <2>2 DEF Iteration, States
<1>5. QED
  BY <1>2, <1>3, <1>4

LEMMA LoopIs ==
  ASSUME NEW uri \in Seq(Byte)
  PROVE  /\ Loop(uri) \in [0 .. Len(uri) -> States]
         /\ Loop(uri)[0] = AfterScheme
         /\ \A n \in 1 .. Len(uri) : Loop(uri)[n] = Iteration(uri, Loop(uri)[n - 1])
<1> DEFINE N == Len(uri)
           F == [p \in (1 .. N) \X States |-> Iteration(uri, p[2])]
           Body(g) == [n \in 0 .. N |-> IF n = 0 THEN AfterScheme ELSE Iteration(uri, g[n - 1])]
           f == Loop(uri)
           S == {n \in Nat : f[n] \in States}
<1>1. N \in Nat
  OBVIOUS
<1>2. AfterScheme \in States
  BY DEF AfterScheme, States
<1>3. PICK g \in [0 .. N -> States] :
        g[0] = AfterScheme /\ \A k \in 1 .. N : g[k] = Iteration(uri, g[k - 1])
  <2>1. F \in [(1 .. N) \X States -> States]
    BY IterationType
  <2>2. Iterations(States, AfterScheme, N, F) # {}
    <3> HIDE DEF F, N
    <3>1. QED
      BY <1>1, <1>2, <2>1, LoopRuns
  <2>3. PICK g \in [0 .. N -> States] : g[0] = AfterScheme /\ \A k \in 1 .. N : g[k] = F[<<k, g[k - 1]>>]
    <3> HIDE DEF F, N
    <3>1. QED
      BY <2>2 DEF Iterations
  <2>4. ASSUME NEW k \in 1 .. N PROVE g[k] = Iteration(uri, g[k - 1])
    <3>1. g[k - 1] \in States
      OBVIOUS
    <3>2. QED
      BY <2>3, <3>1
  <2>5. QED
    BY <2>3, <2>4
<1>4. g = Body(g)
  <2>1. ASSUME NEW k \in 0 .. N PROVE g[k] = Body(g)[k]
    <3>1. k # 0 => k \in 1 .. N
      OBVIOUS
    <3>2. QED
      BY <1>3, <3>1
  <2>2. QED
    BY <2>1
<1>5. f = CHOOSE h : h = Body(h)
  BY DEF Loop
<1>6. f = Body(f)
  <2> HIDE DEF Body, f
  <2>1. QED
    BY <1>4, <1>5
<1> HIDE DEF f
<1>7. f[0] = AfterScheme /\ \A k \in 1 .. N : f[k] = Iteration(uri, f[k - 1])
  <2>1. Body(f)[0] = AfterScheme /\ \A k \in 1 .. N : Body(f)[k] = Iteration(uri, f[k - 1])
    BY <1>1
  <2> HIDE DEF Body
  <2>2. QED
    BY <1>6, <2>1
<1>8. 0 .. N \subseteq S
  <2>1. 0 \in S
    BY <1>2, <1>7
  <2>2. ASSUME NEW n \in 1 .. N, n - 1 \in S PROVE n \in S
    BY <1>7, <2>2, IterationType
  <2> HIDE DEF S
  <2>3. QED
    BY <1>1, <2>1, <2>2, UpToInduct
<1>9. f \in [0 .. N -> States]
  BY <1>6, <1>8
<1>10. QED
  BY <1>7, <1>9 DEF f

LEMMA DecodedType ==
  ASSUME NEW uri \in Seq(Byte)
  PROVE  Decoded(uri) \in Seq(Byte)
<1>1. Len(uri) \in 0 .. Len(uri)
  OBVIOUS
<1>2. Loop(uri)[Len(uri)] \in States
  BY <1>1, LoopIs
<1>3. QED
  BY <1>2 DEF Decoded, States

(* Each byte stored was read, and the scheme was read before.              *)
LEMMA LoopFits ==
  ASSUME NEW uri \in Seq(Byte), IsFile(uri)
  PROVE  Len(Decoded(uri)) + 1 <= Len(uri)
<1> DEFINE f == Loop(uri)
           S == {n \in Nat : Len(f[n].dst) + 8 <= f[n].src /\ f[n].src <= Len(uri) + 1}
<1>1. /\ f \in [0 .. Len(uri) -> States]
      /\ f[0] = AfterScheme
      /\ \A n \in 1 .. Len(uri) : f[n] = Iteration(uri, f[n - 1])
  BY LoopIs
<1> HIDE DEF f
<1>2. 0 \in S
  BY <1>1 DEF AfterScheme, IsFile
<1>3. ASSUME NEW n \in 1 .. Len(uri), n - 1 \in S PROVE n \in S
  <2> DEFINE t == f[n - 1]
  <2>1. t \in States /\ f[n] = Iteration(uri, t)
    BY <1>1
  <2>2. Len(t.dst) + 8 <= t.src /\ t.src <= Len(uri) + 1
    BY <1>3
  <2> HIDE DEF t
  <2>3. t.src \in Nat /\ t.dst \in Seq(Byte) /\ Len(uri) \in Nat
    BY <2>1 DEF States
  <2>4. CASE t.src > Len(uri)
    <3>1. f[n] = t
      BY <2>1, <2>4 DEF Iteration
    <3>2. QED
      BY <2>2, <3>1
  <2>5. CASE ~(t.src > Len(uri)) /\ Escape(uri, t.src)
    <3>1. f[n] = [src |-> t.src + 3, dst |-> Append(t.dst, Unescaped(uri, t.src))]
      BY <2>1, <2>5 DEF Iteration
    <3>2. t.src + 2 <= Len(uri)
      BY <2>5 DEF Escape
    <3>3. Len(Append(t.dst, Unescaped(uri, t.src))) = Len(t.dst) + 1
      BY <2>3
    <3>4. QED
      BY <2>2, <2>3, <3>1, <3>2, <3>3
  <2>6. CASE ~(t.src > Len(uri)) /\ ~Escape(uri, t.src)
    <3>1. f[n] = [src |-> t.src + 1, dst |-> Append(t.dst, uri[t.src])]
      BY <2>1, <2>6 DEF Iteration
    <3>2. Len(Append(t.dst, uri[t.src])) = Len(t.dst) + 1
      BY <2>3
    <3>3. QED
      BY <2>2, <2>3, <2>6, <3>1, <3>2
  <2>7. QED
    BY <2>4, <2>5, <2>6
<1>4. Len(uri) \in Nat /\ Len(uri) \in 0 .. Len(uri)
  OBVIOUS
<1>5. 0 .. Len(uri) \subseteq S
  <2> HIDE DEF S
  <2>1. QED
    BY <1>2, <1>3, <1>4, UpToInduct
<1>6. Len(f[Len(uri)].dst) + 8 <= Len(uri) + 1
  <2>1. Len(uri) \in S /\ f[Len(uri)] \in States
    BY <1>1, <1>4, <1>5
  <2>2. QED
    BY <1>4, <2>1 DEF States
<1>7. QED
  BY <1>4, <1>6, DecodedType DEF Decoded, f

LEMMA CStringType ==
  ASSUME NEW s \in Seq(Byte)
  PROVE  CString(s) \in Seq(Byte)
<1> DEFINE Z == {k \in DOMAIN s : s[k] = 0}
           First(k) == k \in DOMAIN s /\ s[k] = 0 /\ \A j \in 1 .. (k - 1) : s[j] # 0
           e == CHOOSE k \in DOMAIN s : s[k] = 0 /\ \A j \in 1 .. (k - 1) : s[j] # 0
<1>1. CASE Z = {}
  BY <1>1 DEF CString
<1>2. CASE Z # {}
  <2>1. Z \in SUBSET Nat
    OBVIOUS
  <2>2. PICK x \in Z : \A y \in Z : x <= y
    <3> HIDE DEF Z
    <3>1. QED
      BY <1>2, <2>1, LeastNumber
  <2>3. First(x)
    BY <2>2
  <2>4. First(e)
    BY <2>3
  <2>5. CString(s) = SubSeq(s, 1, e - 1)
    BY <1>2 DEF CString
  <2> HIDE DEF e
  <2>6. e \in 1 .. Len(s)
    BY <2>4
  <2>7. QED
    BY <2>5, <2>6
<1>3. QED
  BY <1>1, <1>2

LEMMA PathType ==
  ASSUME NEW uri \in Seq(Byte)
  PROVE  path_URI_to_Unix(uri) \in Seq(Byte) \cup {NULL}
BY DecodedType, CStringType DEF path_URI_to_Unix

Files == [uri : Seq(Byte), path : Seq(Byte) \cup {NULL}]

LEMMA FileTypes ==
  ASSUME NEW files \in Answers \cup {<<>>}
  PROVE  /\ files \in Seq(Files)
         /\ \A k \in DOMAIN files : files[k].uri \in Seq(Byte) /\ files[k].path \in Seq(Byte) \cup {NULL}
<1>1. files \in Seq(Files)
  <2>1. CASE files \in Answers
    BY <2>1, AnswersAssumption DEF Files
  <2>2. CASE files = <<>>
    BY <2>2
  <2>3. QED
    BY <2>1, <2>2
<1>2. \A k \in DOMAIN files : files[k] \in Files
  BY <1>1
<1>3. QED
  BY <1>1, <1>2 DEF Files

LEMMA ConvertedType ==
  ASSUME NEW files \in Answers \cup {<<>>}
  PROVE  Converted(files) \in Seq(Seq(Byte))
<1> DEFINE U == Seq(Byte) \cup {NULL}
           T == Seq(Byte)
           p == [k \in DOMAIN files |-> path_URI_to_Unix(files[k].uri)]
           I == {k \in DOMAIN files : path_URI_to_Unix(files[k].uri) # NULL}
<1>1. Len(files) \in Nat /\ DOMAIN files = 1 .. Len(files)
  BY FileTypes
<1>2. ASSUME NEW k \in DOMAIN files PROVE p[k] \in U
  <2>1. files[k].uri \in Seq(Byte)
    BY FileTypes
  <2>2. QED
    BY <2>1, PathType
<1>3. p \in Seq(U) /\ DOMAIN p = DOMAIN files
  BY <1>1, <1>2
<1>4. \A k \in I \cap (1 .. Len(p)) : p[k] \in T
  BY <1>2
<1>5. Converted(files) = ElementsAt(p, I)
  BY DEF Converted
<1> HIDE DEF p, I, T, U
<1>6. ElementsAt(p, I) \in Seq(T)
  BY <1>3, <1>4, ElementsAtType
<1>7. QED
  BY <1>5, <1>6 DEF T

(* The paths kept of an answer are a sequence of paths.                    *)
LEMMA KeptType ==
  ASSUME NEW files \in Answers \cup {<<>>}
  PROVE  Kept(files) \in Seq(Seq(Byte))
<1> DEFINE c == Converted(files)
<1>1. c \in Seq(Seq(Byte))
  BY ConvertedType DEF c
<1> HIDE DEF c
<1>2. CASE Kind = "open_files" \/ c = <<>>
  <2>1. Kept(files) = c
    BY <1>2 DEF Kept, c
  <2> QED BY <1>1, <2>1
<1>3. CASE ~(Kind = "open_files" \/ c = <<>>)
  <2>1. Kept(files) = <<Head(c)>>
    BY <1>3 DEF Kept, c
  <2>2. Head(c) \in Seq(Byte)
    BY <1>1, <1>3
  <2> QED BY <2>1, <2>2
<1> QED BY <1>2, <1>3

LEMMA PathBlocksAre ==
  ASSUME call \in Nat, NEW kept \in Seq(Seq(Byte))
  PROVE  /\ \A b \in PathBlocks(kept) : b \in Block /\ b.role = "path" /\ b.call = call
         /\ \A b \in ArrayBlocks(kept) : b \in Block /\ b.role = "paths" /\ b.call = call
<1>1. \A k \in DOMAIN kept : k \in Nat
  OBVIOUS
<1>2. \A k \in Nat : Of("path", k) \in Block /\ Of("path", k).role = "path" /\ Of("path", k).call = call
  BY RolesAre, OfType
<1>3. Of("paths", 0) \in Block /\ Of("paths", 0).role = "paths" /\ Of("paths", 0).call = call
  BY RolesAre, OfType
<1>4. \A b \in PathBlocks(kept) : b \in Block /\ b.role = "path" /\ b.call = call
  BY <1>1, <1>2 DEF PathBlocks
<1>5. \A b \in ArrayBlocks(kept) : b \in Block /\ b.role = "paths" /\ b.call = call
  BY <1>3 DEF ArrayBlocks
<1> QED BY <1>4, <1>5

LEMMA OutsBlocksAre ==
  ASSUME call \in Nat
  PROVE  \A b \in OutsBlocks : b \in Block /\ b.role = "outs" /\ b.call = call
<1>1. Of("outs", 0) \in Block /\ Of("outs", 0).role = "outs" /\ Of("outs", 0).call = call
  BY RolesAre, OfType
<1> QED BY <1>1 DEF OutsBlocks

-----------------------------------------------------------------------------
(* Types.                                                                  *)

HeapType == live \subseteq Block /\ bad \subseteq Freeable /\ owned \subseteq Block

(* TypeOK without the heap.                                                *)
DataType ==
  /\ pc \in {"idle", "convert", "connect", "filters", "append", "send", "wait", "cleanup",
             "paths", "native", "open", "native_send", "crashed"}
  /\ call \in Nat
  /\ entry \in Entries
  /\ args \in Args
  /\ ways \in Seq(Way) /\ Len(ways) = call
  /\ next \in Nat \ {0}
  /\ pc = "append" => next \in DOMAIN args.filters
  /\ sent \in Seq(Filter)
  /\ answer \in Answers \cup {<<>>}
  /\ err \in {0, 1}
  /\ result \in Seq(Seq(Byte) \cup {NULL})

LEMMA TypeParts == TypeOK <=> DataType /\ HeapType
BY DEF TypeOK, DataType, HeapType, Freeable

LEMMA Filters ==
  ASSUME args \in Args
  PROVE  args.filters \in Seq(Filter)
BY ArgsAssumption

(* What the caller gets when the paths have been converted.                *)
Outs == {Of("out", k) : k \in {k \in DOMAIN result : result[k] # NULL}}

LEMMA OutsAre ==
  ASSUME DataType
  PROVE  \A b \in Outs : b \in Block /\ b.role = "out" /\ b.call = call
<1>1. \A k \in DOMAIN result : k \in Nat
  BY DEF DataType
<1>2. \A k \in Nat : Of("out", k) \in Block /\ Of("out", k).role = "out" /\ Of("out", k).call = call
  BY RolesAre, OfType DEF DataType
<1> QED BY <1>1, <1>2 DEF Outs

LEMMA DataInit == Init => DataType
<1> SUFFICES ASSUME Init PROVE DataType
  OBVIOUS
<1>1. <<>> \in Seq(Filter) /\ <<>> \in Seq(Seq(Byte) \cup {NULL})
  OBVIOUS
<1>2. <<"utf8", "open_file">> \in Entries
  BY DEF Entries
<1>3. <<>> \in Seq(Way) /\ Len(<<>>) = 0
  OBVIOUS
<1> QED BY <1>1, <1>2, <1>3 DEF Init, DataType

LEMMA DataCall ==
  ASSUME DataType, NEW e \in Entries, NEW a \in Args, Call(e, a)
  PROVE  DataType'
<1>1. <<>> \in Seq(Filter) /\ <<>> \in Seq(Seq(Byte) \cup {NULL})
  OBVIOUS
<1>2. pc' \in {"native", "convert"}
  BY DEF Call, Goto
<1>3. call' \in Nat
  BY DEF Call, DataType
<1>4. ways' \in Seq(Way) /\ Len(ways') = call'
  <2>1. [kind |-> e[2], end |-> "returned"] \in Way
    BY DEF Way, Ends
  <2>2. ways' = Append(ways, [kind |-> e[2], end |-> "returned"]) /\ call' = call + 1
    BY DEF Call
  <2> QED BY <2>1, <2>2 DEF DataType
<1> QED BY <1>1, <1>2, <1>3, <1>4 DEF DataType, Call

LEMMA DataEnds ==
  ASSUME DataType, NEW end \in Ends, EndsAs(end)
  PROVE  ways' \in Seq(Way) /\ Len(ways') = call'
<1>1. ways' = [ways EXCEPT ![call].end = end] /\ call' = call
  BY DEF EndsAs
<1>2. \A w \in Way : [w EXCEPT !.end = end] \in Way
  BY DEF Way
<1>3. \A k \in 1 .. Len(ways) : ways[k] \in Way
  BY DEF DataType
<1>4. /\ DOMAIN ways' = 1 .. Len(ways) /\ Len(ways) \in Nat
      /\ \A k \in 1 .. Len(ways) : ways'[k] = IF k = call THEN [ways[k] EXCEPT !.end = end] ELSE ways[k]
  BY <1>1 DEF DataType
<1>5. \A k \in 1 .. Len(ways) : ways'[k] \in Way
  BY <1>2, <1>3, <1>4
<1>6. ways' \in [1 .. Len(ways) -> Way]
  <2>1. ways' = [k \in 1 .. Len(ways) |-> ways'[k]]
    BY <1>1, <1>4 DEF DataType
  <2> QED BY <1>5, <2>1
<1> QED BY <1>1, <1>4, <1>6 DEF DataType

LEMMA DataFilters ==
  ASSUME DataType, MakeFilter \/ AppendFilter \/ AppendFaults \/ FiltersDone
  PROVE  DataType'
<1> USE DEF callVars, dataVars, Goto
<1>1. CASE MakeFilter
  <2>1. next \in DOMAIN args.filters
    <3>1. args.filters \in Seq(Filter)
      BY Filters DEF DataType
    <3>2. next \in 1 .. Len(args.filters)
      BY <1>1, <3>1 DEF MakeFilter, DataType
    <3> QED BY <3>1, <3>2
  <2> QED BY <1>1, <2>1 DEF MakeFilter, DataType
<1>2. CASE AppendFilter
  <2>1. args.filters \in Seq(Filter) /\ next \in DOMAIN args.filters
    BY <1>2, Filters DEF AppendFilter, DataType
  <2>2. args.filters[next] \in Filter
    BY <2>1
  <2>3. Append(sent, args.filters[next]) \in Seq(Filter)
    BY <2>2 DEF DataType
  <2>4. sent' \in Seq(Filter)
    BY <1>2, <2>3 DEF AppendFilter, DataType
  <2>5. next' \in Nat \ {0}
    BY <1>2 DEF AppendFilter, DataType
  <2> QED BY <1>2, <2>4, <2>5 DEF AppendFilter, DataType
<1>3. CASE AppendFaults
  BY <1>3 DEF AppendFaults, DataType
<1>4. CASE FiltersDone
  BY <1>4 DEF FiltersDone, DataType
<1> QED BY <1>1, <1>2, <1>3, <1>4

LEMMA DataConvert ==
  ASSUME DataType, NEW outcome \in {"nameless", "not_utf16", "named"}, ConvertPath(outcome)
  PROVE  DataType'
<1> DEFINE kept == Kept(answer)
           r == IF outcome = "named" THEN kept[next] ELSE NULL
<1>1. kept \in Seq(Seq(Byte))
  BY KeptType DEF DataType
<1>2. next \in Nat \ {0} /\ next <= Len(kept)
  BY DEF DataType, ConvertPath
<1>3. result' = Append(result, r) /\ next' = next + 1
  BY DEF ConvertPath
<1> HIDE DEF kept
<1>4. kept[next] \in Seq(Byte)
  BY <1>1, <1>2
<1>5. r \in Seq(Byte) \cup {NULL}
  BY <1>4
<1> HIDE DEF r
<1>6. result' \in Seq(Seq(Byte) \cup {NULL})
  BY <1>3, <1>5 DEF DataType
<1>7. next' \in Nat \ {0}
  BY <1>2, <1>3
<1> QED BY <1>6, <1>7 DEF DataType, ConvertPath, callVars

LEMMA DataStep == DataType /\ [Next]_vars => DataType'
<1> SUFFICES ASSUME DataType, [Next]_vars PROVE DataType'
  OBVIOUS
<1> USE DEF callVars, dataVars, Goto
<1>1. ASSUME NEW e \in Entries, NEW a \in Args, Call(e, a) PROVE DataType'
  BY <1>1, DataCall
<1>2. CASE ConvertArgs
  BY <1>2 DEF ConvertArgs, DataType
<1>3. CASE NoConnection \/ NameFaults
  BY <1>3 DEF NoConnection, NameFaults, DataType
<1>4. CASE NewRequest
  BY <1>4 DEF NewRequest, DataType
<1>5. CASE MakeFilter \/ AppendFilter \/ AppendFaults \/ FiltersDone
  BY <1>5, DataFilters
<1>6. CASE Refused
  <2>1. EndsAs("refused")
    BY <1>6 DEF Refused
  <2>2. ways' \in Seq(Way) /\ Len(ways') = call'
    BY <2>1, DataEnds DEF Ends
  <2> QED BY <1>6, <2>1, <2>2 DEF Refused, EndsAs, DataType
<1>7. CASE Accepted
  BY <1>7 DEF Accepted, DataType
<1>8. ASSUME NEW files \in Answers, Answered(files) PROVE DataType'
  BY <1>8 DEF Answered, DataType
<1>9. CASE CleanupFails
  BY <1>9 DEF CleanupFails, DataType
<1>10. CASE Cleanup
  BY <1>10 DEF Cleanup, DataType
<1>11. ASSUME NEW outcome \in {"nameless", "not_utf16", "named"}, ConvertPath(outcome)
       PROVE DataType'
  BY <1>11, DataConvert
<1>12. CASE Return
  BY <1>12 DEF Return, DataType
<1>13. CASE NativeFails
  BY <1>13 DEF NativeFails, DataType
<1>14. CASE NativeFaults
  BY <1>14 DEF NativeFaults, DataType
<1>15. CASE NativeRequest
  BY <1>15 DEF NativeRequest, DataType
<1>16. CASE NativeOpen
  BY <1>16 DEF NativeOpen, DataType
<1>17. CASE NativeOpenFails
  <2>1. EndsAs("unopened")
    BY <1>17 DEF NativeOpenFails
  <2>2. ways' \in Seq(Way) /\ Len(ways') = call'
    BY <2>1, DataEnds DEF Ends
  <2> QED BY <1>17, <2>1, <2>2 DEF NativeOpenFails, EndsAs, DataType
<1>18. ASSUME NEW role \in {"reply", "error"}, NativeSent(role) PROVE DataType'
  <2>1. PICK end \in Ends : EndsAs(end)
    BY <1>18 DEF NativeSent, Ends
  <2>2. ways' \in Seq(Way) /\ Len(ways') = call'
    BY <2>1, DataEnds
  <2> QED BY <1>18, <2>1, <2>2 DEF NativeSent, EndsAs, DataType
<1>19. ASSUME NEW b \in owned, wine_portal_free(b) PROVE DataType'
  BY <1>19 DEF wine_portal_free, DataType
<1>20. CASE UNCHANGED vars
  BY <1>20 DEF vars, DataType
<1> QED BY <1>1, <1>2, <1>3, <1>4, <1>5, <1>6, <1>7, <1>8, <1>9, <1>10, <1>11, <1>12, <1>13,
           <1>14, <1>15, <1>16, <1>17, <1>18, <1>19, <1>20 DEF Next

-----------------------------------------------------------------------------
(* Where a call ends is noted once, when it ends there.                    *)
InNative == pc \in {"native", "open", "native_send"}

Unended ==
  /\ pc # "idle" => /\ call \in DOMAIN ways
                    /\ ways[call].kind = Kind
                    /\ pc # "cleanup" \/ err = 0 => ways[call].end = "returned"
  /\ InNative => Kind = "open_native"

LEMMA UnendedStep == DataType /\ Unended /\ [Next]_vars => Unended'
<1> SUFFICES ASSUME DataType, Unended, [Next]_vars PROVE Unended'
  OBVIOUS
<1> USE DEF callVars, dataVars, Goto, InNative
<1>1. ASSUME NEW e \in Entries, NEW a \in Args, Call(e, a) PROVE Unended'
  <2>1. /\ ways' = Append(ways, [kind |-> e[2], end |-> "returned"])
        /\ call' = call + 1 /\ Kind' = e[2]
        /\ InNative' => e[2] = "open_native"
    BY <1>1 DEF Call, Kind
  <2>2. call' \in DOMAIN ways' /\ ways'[call'] = [kind |-> e[2], end |-> "returned"]
    BY <2>1 DEF DataType
  <2> QED BY <2>1, <2>2 DEF Unended
<1>2. CASE pc \notin {"idle", "cleanup"} /\ (InNative' => InNative) /\ UNCHANGED callVars
  BY <1>2 DEF Unended, Kind
<1>3. CASE pc' = "idle"
  BY <1>3 DEF Unended
<1>4. CASE Refused
  <2>1. /\ call \in DOMAIN ways /\ ways[call].kind = Kind /\ ways[call] \in Way
        /\ ways' = [ways EXCEPT ![call].end = "refused"]
        /\ call' = call /\ Kind' = Kind /\ pc' = "cleanup" /\ err' = 1
    BY <1>4 DEF Refused, EndsAs, Unended, Kind, DataType
  <2>2. call \in DOMAIN ways' /\ ways'[call].kind = Kind
    BY <2>1 DEF Way
  <2> QED BY <2>1, <2>2 DEF Unended
<1>5. CASE \/ ConvertArgs \/ NoConnection \/ NameFaults \/ NewRequest
           \/ MakeFilter \/ AppendFilter \/ AppendFaults \/ FiltersDone
           \/ Accepted \/ CleanupFails \/ Return
           \/ NativeFails \/ NativeFaults \/ NativeRequest \/ NativeOpen \/ NativeOpenFails
  BY <1>2, <1>3, <1>5 DEF ConvertArgs, NoConnection, NameFaults, NewRequest, MakeFilter,
     AppendFilter, AppendFaults, FiltersDone, Accepted, CleanupFails, Return,
     NativeFails, NativeFaults, NativeRequest, NativeOpen, NativeOpenFails
<1>6. ASSUME NEW files \in Answers, Answered(files) PROVE Unended'
  BY <1>2, <1>6 DEF Answered
<1>7. ASSUME NEW outcome, ConvertPath(outcome) PROVE Unended'
  BY <1>2, <1>7 DEF ConvertPath
<1>8. ASSUME NEW role, NativeSent(role) PROVE Unended'
  BY <1>3, <1>8 DEF NativeSent
<1>9. ASSUME NEW b \in owned, wine_portal_free(b) PROVE Unended'
  BY <1>3, <1>9 DEF wine_portal_free
<1>10. CASE UNCHANGED vars
  BY <1>10 DEF vars, Unended, Kind
<1>11. CASE Cleanup
  BY <1>11 DEF Cleanup, Unended, Kind
<1> QED BY <1>1, <1>4, <1>5, <1>6, <1>7, <1>8, <1>9, <1>10, <1>11 DEF Next

LEMMA LeaksStay ==
  ASSUME DataType, Unended, NEW end \in Ends, pc \notin {"idle", "cleanup"}, EndsAs(end)
  PROVE  \A b : Leaked(ways, b) => Leaked(ways', b)
<1>1. /\ DOMAIN ways' = DOMAIN ways
      /\ \A k \in DOMAIN ways : k # call => ways'[k] = ways[k]
  BY DEF EndsAs, DataType
<1> SUFFICES ASSUME NEW b, Leaked(ways, b) PROVE Leaked(ways', b)
  OBVIOUS
<1>2. b.call # call
  BY DEF Leaked, Leaks, Unended
<1> QED BY <1>1, <1>2 DEF Leaked

(* A message or an error that the call is done with, where it is noted.    *)
LEMMA LeaksHere ==
  ASSUME DataType, Unended, NEW end \in Ends, pc # "idle", EndsAs(end),
         NEW role \in Roles, <<Kind, end, role>> \in Leaks
  PROVE  Leaked(ways', Of(role, 0))
<1>1. call \in DOMAIN ways /\ ways[call] \in Way
  BY DEF Unended, DataType
<1>2. call \in DOMAIN ways' /\ ways'[call].kind = Kind /\ ways'[call].end = end
  <2>1. ways' = [ways EXCEPT ![call].end = end]
    BY DEF EndsAs
  <2>2. ways'[call] = [ways[call] EXCEPT !.end = end] /\ DOMAIN ways' = DOMAIN ways
    BY <1>1, <2>1
  <2>3. ways[call].kind = Kind
    BY DEF Unended
  <2> QED BY <1>1, <2>2, <2>3 DEF Way
<1>3. Of(role, 0).call = call /\ Of(role, 0).role = role /\ Of(role, 0).i = 0
  BY DEF Of
<1> QED BY <1>2, <1>3 DEF Leaked

-----------------------------------------------------------------------------
(* The inductive invariant of the heap.  What is allocated is what the     *)
(* caller owns, what the call holds where it has come to, and what leaked. *)
(* Only the caller's own blocks were ever freed wrongly, in an earlier     *)
(* call, so that a block that is allocated now is none of them.            *)

HeapOf(l, o, w, held) ==
  /\ o \cup held \subseteq l
  /\ \A b \in l : b \in o \cup held \/ Leaked(w, b)

Heap(held) == HeapOf(live, owned, ways, held)

Past ==
  /\ \A f \in bad : f[1].call <= call /\ (pc # "idle" => f[1].call < call)
  /\ \A b \in owned : b.role \in {"out", "outs"} /\ b.call <= call

Memories == HeapType /\ LibraryFreesRight /\ Past

Msg    == Of("msg", 0)
Dir    == Of("dir", 0)
Parser == Of("parser", next)
Paths  == PathBlocks(Kept(answer)) \cup ArrayBlocks(Kept(answer))
Left   == {Of("path", k) : k \in next .. Len(Kept(answer))} \cup ArrayBlocks(Kept(answer))

Held ==
  /\ pc \in {"idle", "convert", "native"} => Heap({})
  /\ pc \in {"connect", "wait"} => Heap(ArgBlocks)
  /\ pc \in {"filters", "send"} => Heap(ArgBlocks \cup {Msg})
  /\ pc = "append" => Heap(ArgBlocks \cup {Msg} \cup NameBlocks \cup {Parser})
  /\ pc = "cleanup" => Heap(ArgBlocks \cup IF err = 1 THEN {} ELSE Paths)
  /\ pc = "paths" => Heap(Left \cup OutsBlocks \cup Outs)
  /\ pc = "open" => Heap({Msg, Dir})
  /\ pc = "native_send" => Heap({Msg})

(* A path is converted to one result, and none after a failure.            *)
Progress ==
  /\ pc \notin {"idle", "cleanup", "crashed"} => err = 0
  /\ pc \notin {"idle", "paths", "crashed"} => result = <<>>
  /\ pc = "paths" => Len(result) = next - 1

HeapInv == DataType /\ Unended /\ Memories /\ Held /\ Progress

(* A step of a call that allocates A, frees F and hands X to the caller    *)
(* leaves G of what was held before, H, and of A.                          *)
Leaves(H, A, F, X, G) ==
  /\ A \subseteq Block /\ F \subseteq Freeable /\ X \subseteq Block
  /\ \A b \in A : b.call = call
  /\ \A f \in F : /\ f[1] \in (H \cup A) \ G
                  /\ f[1].role \notin {"out", "outs"}
                  /\ Allocator[f[1].role] = f[2]
  /\ \A b \in X : b.call = call /\ b.role \in {"out", "outs"}
  /\ G \cup X \subseteq H \cup A
  /\ \A b \in H \cup A : b \in G \cup X \/ Leaked(ways', b) \/ \E f \in F : f[1] = b

LEMMA HeapChange ==
  ASSUME DataType, Memories, pc # "idle", call' = call,
         \A b : Leaked(ways, b) => Leaked(ways', b),
         NEW H, NEW A, NEW F, NEW X, NEW G,
         Heap(H), Memory(A, F), owned' = owned \cup X, Leaves(H, A, F, X, G)
  PROVE  Memories' /\ HeapOf(live', owned', ways', G)
<1> USE DEF Leaves
<1>1. HeapType'
  <2>1. live' \subseteq Block /\ bad' \subseteq Freeable
    BY MemoryType DEF Memories, HeapType
  <2> QED BY <2>1 DEF Memories, HeapType
<1>2. live' = (live \cup A) \ {f[1] : f \in F}
  BY DEF Memory
<1>3. owned \cup H \subseteq live /\ \A b \in live : b \in owned \cup H \/ Leaked(ways', b)
  BY DEF Heap, HeapOf
<1>4. bad' = bad
  <2>1. \A f \in F : f[1] \in live \cup A /\ Allocator[f[1].role] = f[2]
    BY <1>3
  <2> QED BY <2>1 DEF Memory
<1>5. \A f \in bad : f[1] \notin A
  <2> TAKE f \in bad
  <2>1. f[1] \in Block /\ f[1].call < call
    BY DEF Memories, Past, HeapType, Freeable
  <2>2. f[1].call # call
    BY <2>1 DEF DataType, Block
  <2> QED BY <2>2
<1>6. \A f \in bad : f[1] \notin X
  <2> TAKE f \in bad
  <2>1. f[1] \in Block /\ f[1].call < call
    BY DEF Memories, Past, HeapType, Freeable
  <2>2. f[1].call # call
    BY <2>1 DEF DataType, Block
  <2> QED BY <2>2
<1>7. LibraryFreesRight'
  <2>1. \A f \in bad : f[1] \notin live' \cup owned'
    BY <1>2, <1>5, <1>6 DEF Memories, LibraryFreesRight
  <2> QED BY <1>4, <2>1 DEF Memories, LibraryFreesRight
<1>8. Past'
  <2>1. \A f \in bad' : f[1].call <= call' /\ (pc' # "idle" => f[1].call < call')
    BY <1>4 DEF Memories, Past
  <2>2. \A b \in owned' : b.role \in {"out", "outs"} /\ b.call <= call'
    BY DEF Memories, Past, DataType
  <2> QED BY <2>1, <2>2 DEF Past
<1>9. owned' \cup G \subseteq live'
  <2>1. \A b \in owned : b \in live /\ \A f \in F : f[1] # b
    BY <1>3 DEF Memories, Past
  <2>2. \A b \in X : b \in live \cup A /\ \A f \in F : f[1] # b
    BY <1>3
  <2>3. \A b \in G : b \in live \cup A /\ \A f \in F : f[1] # b
    BY <1>3
  <2> QED BY <1>2, <2>1, <2>2, <2>3
<1>10. \A b \in live' : b \in owned' \cup G \/ Leaked(ways', b)
  <2> TAKE b \in live'
  <2>1. b \in live \cup A /\ \A f \in F : f[1] # b
    BY <1>2
  <2>2. CASE b \in H \cup A
    BY <2>1, <2>2
  <2>3. CASE b \notin H \cup A
    BY <1>3, <2>1, <2>3
  <2> QED BY <2>2, <2>3
<1> QED BY <1>1, <1>7, <1>8, <1>9, <1>10 DEF Memories, HeapOf

(* A step within the call, and one that notes its end.                     *)
LEMMA HeapStep ==
  ASSUME DataType, Memories, pc # "idle", UNCHANGED callVars,
         NEW H, NEW A, NEW F, NEW X, NEW G,
         Heap(H), Memory(A, F), owned' = owned \cup X, Leaves(H, A, F, X, G)
  PROVE  Memories' /\ HeapOf(live', owned', ways', G)
<1>1. call' = call /\ ways' = ways
  BY DEF callVars
<1>2. \A b : Leaked(ways, b) => Leaked(ways', b)
  BY <1>1
<1> QED BY <1>1, <1>2, HeapChange

LEMMA HeapEnd ==
  ASSUME DataType, Unended, Memories, pc \notin {"idle", "cleanup"},
         NEW end \in Ends, EndsAs(end),
         NEW H, NEW A, NEW F, NEW X, NEW G,
         Heap(H), Memory(A, F), owned' = owned \cup X, Leaves(H, A, F, X, G)
  PROVE  Memories' /\ HeapOf(live', owned', ways', G)
<1>1. call' = call
  BY DEF EndsAs
<1>2. \A b : Leaked(ways, b) => Leaked(ways', b)
  BY LeaksStay
<1> QED BY <1>1, <1>2, HeapChange

(* A step that leaves the heap alone.                                      *)
LEMMA HeapStays ==
  ASSUME Memories, UNCHANGED heapVars, UNCHANGED callVars, pc # "idle" \/ pc' = "idle"
  PROVE  Memories' /\ \A h : Heap(h) => HeapOf(live', owned', ways', h)
BY DEF Memories, HeapType, LibraryFreesRight, Past, Heap, HeapOf, heapVars, callVars

(* Within a call the names of its blocks mean the same.                    *)
LEMMA SameCall ==
  ASSUME UNCHANGED <<call, entry, args>>
  PROVE  /\ ArgBlocks' = ArgBlocks /\ Msg' = Msg /\ Dir' = Dir
         /\ next' = next => NameBlocks' = NameBlocks /\ Parser' = Parser
<1>1. call' = call /\ entry' = entry /\ args' = args
  OBVIOUS
<1>2. Msg' = Msg /\ Dir' = Dir
  BY <1>1 DEF Msg, Dir, Of
<1>3. ArgBlocks' = ArgBlocks
  BY <1>1 DEF ArgBlocks, Of, Kind, Wide
<1>4. next' = next => NameBlocks' = NameBlocks /\ Parser' = Parser
  BY <1>1 DEF NameBlocks, HasName, Wide, Parser, Of
<1> QED BY <1>2, <1>3, <1>4

LEMMA NamedBlocks ==
  ASSUME call \in Nat
  PROVE  /\ Msg \in Block /\ Msg.role = "msg" /\ Msg.call = call
         /\ Dir \in Block /\ Dir.role = "dir" /\ Dir.call = call
BY RolesAre, OfType DEF Msg, Dir

-----------------------------------------------------------------------------
(* The steps of a call up to the dialog's.                                 *)

LEMMA HeapCall ==
  ASSUME HeapInv, NEW e \in Entries, NEW a \in Args, Call(e, a)
  PROVE  Memories' /\ Held' /\ Progress'
<1>1. /\ call' = call + 1 /\ pc = "idle" /\ pc' \in {"native", "convert"}
      /\ live' = live /\ bad' = bad /\ owned' = owned
  BY DEF Call, Goto, heapVars
<1>2. call \in Nat
  BY DEF HeapInv, DataType
<1>3. HeapType' /\ LibraryFreesRight'
  BY <1>1 DEF HeapInv, Memories, HeapType, LibraryFreesRight
<1>4. Past'
  <2>1. \A f \in bad : f[1].call \in Nat /\ f[1].call <= call
    BY DEF HeapInv, Memories, Past, HeapType, Freeable, Block
  <2>2. \A b \in owned : b.call \in Nat /\ b.role \in {"out", "outs"} /\ b.call <= call
    BY DEF HeapInv, Memories, Past, HeapType, Block
  <2>3. \A f \in bad : f[1].call <= call + 1 /\ f[1].call < call + 1
    BY <1>2, <2>1
  <2>4. \A b \in owned : b.role \in {"out", "outs"} /\ b.call <= call + 1
    BY <1>2, <2>2
  <2> QED BY <1>1, <2>3, <2>4 DEF Past
<1>5. Held'
  <2>1. \A b : Leaked(ways, b) => Leaked(ways', b)
    <3>1. /\ DOMAIN ways \subseteq DOMAIN ways'
          /\ \A k \in DOMAIN ways : ways'[k] = ways[k]
      BY DEF Call, HeapInv, DataType
    <3> QED BY <3>1 DEF Leaked
  <2> QED BY <1>1, <2>1 DEF HeapInv, Held, Heap, HeapOf
<1>6. Progress'
  BY <1>1 DEF Progress, Call
<1> QED BY <1>3, <1>4, <1>5, <1>6 DEF Memories

LEMMA HeapConvertArgs ==
  ASSUME HeapInv, ConvertArgs
  PROVE  Memories' /\ Held' /\ Progress'
<1>1. /\ pc = "convert" /\ pc' = "connect" /\ Memory(ArgBlocks, {})
      /\ UNCHANGED callVars /\ UNCHANGED <<err, result>> /\ owned' = owned \cup {}
  BY DEF ConvertArgs, Goto, dataVars
<1>2. Heap({})
  BY <1>1 DEF HeapInv, Held
<1>3. \A b \in ArgBlocks : b \in Block /\ b.call = call
  BY ArgBlocksAre DEF HeapInv, DataType
<1>4. call' = call /\ ArgBlocks' = ArgBlocks
  BY <1>1, SameCall DEF callVars
<1>a. Leaves({}, ArgBlocks, {}, {}, ArgBlocks)
  BY <1>3 DEF Leaves
<1>5. Memories' /\ HeapOf(live', owned', ways', ArgBlocks)
  BY <1>1, <1>2, <1>4, <1>a, HeapStep DEF HeapInv
<1>6. Held'
  BY <1>1, <1>4, <1>5 DEF Held, Heap
<1> QED BY <1>1, <1>5, <1>6 DEF HeapInv, Progress

LEMMA HeapNoConnection ==
  ASSUME HeapInv, NoConnection
  PROVE  Memories' /\ Held' /\ Progress'
<1>1. /\ pc = "connect" /\ pc' = "cleanup" /\ err' = 1 /\ result' = result
      /\ UNCHANGED callVars /\ UNCHANGED heapVars
  BY DEF NoConnection, Goto
<1>2. Heap(ArgBlocks \cup {})
  BY <1>1 DEF HeapInv, Held, Heap, HeapOf
<1>3. call' = call /\ ArgBlocks' = ArgBlocks
  BY <1>1, SameCall DEF callVars
<1>4. Memories' /\ HeapOf(live', owned', ways', ArgBlocks \cup {})
  BY <1>1, <1>2, <1>3, HeapStays DEF HeapInv
<1>5. Held'
  BY <1>1, <1>3, <1>4 DEF Held, Heap
<1> QED BY <1>1, <1>4, <1>5 DEF HeapInv, Progress

LEMMA HeapNewRequest ==
  ASSUME HeapInv, NewRequest
  PROVE  Memories' /\ Held' /\ Progress'
<1>1. /\ pc = "connect" /\ pc' \in {"send", "filters"} /\ Memory({Msg}, {})
      /\ UNCHANGED callVars /\ UNCHANGED <<err, result>> /\ owned' = owned \cup {}
  BY DEF NewRequest, Goto, dataVars, Msg
<1>2. Heap(ArgBlocks)
  BY <1>1 DEF HeapInv, Held
<1>3. Msg \in Block /\ Msg.call = call
  BY NamedBlocks DEF HeapInv, DataType
<1>4. call' = call /\ ArgBlocks' = ArgBlocks /\ Msg' = Msg
  BY <1>1, SameCall DEF callVars
<1>a. Leaves(ArgBlocks, {Msg}, {}, {}, ArgBlocks \cup {Msg})
  BY <1>3 DEF Leaves
<1>5. Memories' /\ HeapOf(live', owned', ways', ArgBlocks \cup {Msg})
  BY <1>1, <1>2, <1>4, <1>a, HeapStep DEF HeapInv
<1>6. Held'
  BY <1>1, <1>4, <1>5 DEF Held, Heap
<1> QED BY <1>1, <1>5, <1>6 DEF HeapInv, Progress

LEMMA ParserIs ==
  ASSUME DataType
  PROVE  Parser \in Block /\ Parser.role = "parser" /\ Parser.call = call
BY RolesAre, OfType DEF Parser, DataType

LEMMA HeapMakeFilter ==
  ASSUME HeapInv, MakeFilter
  PROVE  Memories' /\ Held' /\ Progress'
<1> DEFINE A == NameBlocks \cup {Parser}
           H == ArgBlocks \cup {Msg}
           G == ArgBlocks \cup {Msg} \cup NameBlocks \cup {Parser}
<1>1. /\ pc = "filters" /\ pc' = "append" /\ Memory(A, {})
      /\ UNCHANGED callVars /\ UNCHANGED <<next, err, result>> /\ owned' = owned \cup {}
  BY DEF MakeFilter, Goto, dataVars, Parser
<1>2. Heap(H)
  BY <1>1 DEF HeapInv, Held
<1>3. \A b \in A : b \in Block /\ b.call = call
  BY NameBlocksAre, ParserIs DEF HeapInv, DataType
<1>4. call' = call /\ G' = G
  BY <1>1, SameCall DEF callVars
<1>5. Leaves(H, A, {}, {}, G)
  BY <1>3 DEF Leaves
<1> HIDE DEF A, H, G
<1>6. Memories' /\ HeapOf(live', owned', ways', G)
  BY <1>1, <1>2, <1>4, <1>5, HeapStep DEF HeapInv
<1>7. Held'
  BY <1>1, <1>4, <1>6 DEF Held, Heap, G
<1> QED BY <1>1, <1>6, <1>7 DEF HeapInv, Progress

LEMMA HeapAppendFilter ==
  ASSUME HeapInv, AppendFilter
  PROVE  Memories' /\ Held' /\ Progress'
<1> DEFINE H == ArgBlocks \cup {Msg} \cup NameBlocks \cup {Parser}
           F == str_free(NameBlocks) \cup free({Parser})
           G == ArgBlocks \cup {Msg}
<1>1. /\ pc = "append" /\ pc' = "filters" /\ Memory({}, F)
      /\ UNCHANGED callVars /\ UNCHANGED <<err, result>> /\ owned' = owned \cup {}
  BY DEF AppendFilter, Goto, Parser
<1>2. Heap(H)
  BY <1>1 DEF HeapInv, Held
<1>3. call \in Nat
  BY DEF HeapInv, DataType
<1>4. \A b \in NameBlocks \cup {Parser} : b \in Block /\ b.role \in {"filter_name", "parser"}
  BY NameBlocksAre, ParserIs DEF HeapInv, DataType
<1>5. F \subseteq Freeable
  BY <1>4, FreedTypes
<1>6. \A f \in F : /\ f[1] \in NameBlocks \cup {Parser}
                   /\ Allocator[f[1].role] = f[2]
  BY FreedBlocks, NameBlocksAre, ParserIs, AllocatorsAre DEF HeapInv, DataType
<1>7. \A b \in G : b.role \in {"dir", "title", "name", "msg"}
  BY <1>3, ArgBlocksAre, NamedBlocks
<1>8. \A f \in F : f[1] \in (H \cup {}) \ G /\ f[1].role \notin {"out", "outs"}
  BY <1>4, <1>6, <1>7
<1>9. \A b \in NameBlocks \cup {Parser} : \E f \in F : f[1] = b
  <2>1. \A b \in NameBlocks : <<b, "HeapAlloc">> \in F
    BY FreedBlocks
  <2>2. <<Parser, "malloc">> \in F
    BY FreedBlocks
  <2> QED BY <2>1, <2>2
<1>10. Leaves(H, {}, F, {}, G)
  <2>1. \A b \in H \cup {} : b \in G \cup {} \/ \E f \in F : f[1] = b
    BY <1>9
  <2> HIDE DEF F
  <2> QED BY <1>5, <1>6, <1>8, <2>1 DEF Leaves
<1>11. call' = call /\ G' = G
  BY <1>1, SameCall DEF callVars
<1> HIDE DEF H, F, G
<1>12. Memories' /\ HeapOf(live', owned', ways', G)
  BY <1>1, <1>2, <1>10, <1>11, HeapStep DEF HeapInv
<1>13. Held'
  BY <1>1, <1>11, <1>12 DEF Held, Heap, G
<1> QED BY <1>1, <1>12, <1>13 DEF HeapInv, Progress

LEMMA HeapFiltersDone ==
  ASSUME HeapInv, FiltersDone \/ AppendFaults \/ NameFaults
  PROVE  Memories' /\ Held' /\ Progress'
<1>1. /\ pc \in {"connect", "filters", "append"} /\ ((pc' = "send" /\ pc = "filters") \/ pc' = "crashed")
      /\ UNCHANGED callVars /\ UNCHANGED <<err, result>> /\ UNCHANGED heapVars
  BY DEF FiltersDone, AppendFaults, NameFaults, Goto, dataVars
<1>2. pc = "filters" => Heap(ArgBlocks \cup {Msg})
  BY <1>1 DEF HeapInv, Held
<1>3. call' = call /\ ArgBlocks' = ArgBlocks /\ Msg' = Msg
  BY <1>1, SameCall DEF callVars
<1>4. Memories' /\ (pc = "filters" => HeapOf(live', owned', ways', ArgBlocks \cup {Msg}))
  BY <1>1, <1>2, <1>3, HeapStays DEF HeapInv
<1>5. Held'
  BY <1>1, <1>3, <1>4 DEF Held, Heap
<1> QED BY <1>1, <1>4, <1>5 DEF HeapInv, Progress

LEMMA MessageBlocks ==
  ASSUME DataType, NEW role \in {"msg", "reply", "error"}
  PROVE  /\ Of(role, 0) \in Block /\ Of(role, 0).role = role /\ Of(role, 0).call = call
         /\ Allocator[role] = "libdbus"
<1>1. call \in Nat /\ role \in Roles
  BY RolesAre DEF DataType
<1>2. QED
  BY <1>1, OfType, AllocatorsAre

LEMMA HeapRefused ==
  ASSUME HeapInv, Refused
  PROVE  Memories' /\ Held' /\ Progress'
<1> DEFINE H == ArgBlocks \cup {Msg}
           A == {Of("error", 0)}
           D == {Of("error", 0)} \cup IF Kind = "choose_directory" THEN {} ELSE {Of("msg", 0)}
           F == libdbus(D)
           G == ArgBlocks
<1>1. /\ pc = "send" /\ pc' = "cleanup" /\ Memory(A, F)
      /\ EndsAs("refused") /\ err' = 1 /\ result' = result /\ owned' = owned \cup {}
  BY DEF Refused, Goto
<1>2. Heap(H)
  BY <1>1 DEF HeapInv, Held
<1>3. \A b \in {Of("error", 0), Msg} :
        b \in Block /\ b.role \in {"msg", "error"} /\ b.call = call /\ Allocator[b.role] = "libdbus"
  BY MessageBlocks DEF HeapInv, Msg
<1>4. D \subseteq {Of("error", 0), Msg} /\ Of("error", 0) \in D
  BY DEF Msg
<1>5. \A b \in G : b.role \in {"dir", "title", "name"}
  BY ArgBlocksAre DEF HeapInv, DataType
<1>6. Leaves(H, A, F, {}, G)
  <2> HIDE DEF D
  <2>1. F \subseteq Freeable
    BY <1>3, <1>4, FreedTypes
  <2>2. \A f \in F : f[1] \in D /\ f[2] = "libdbus"
    BY FreedBlocks
  <2>3. \A f \in F : f[1] \in (H \cup A) \ G /\ f[1].role \notin {"out", "outs"}
                     /\ Allocator[f[1].role] = f[2]
    BY <2>2, <1>3, <1>4, <1>5
  <2>4. \A b \in H \cup A : b \in G \/ Leaked(ways', b) \/ \E f \in F : f[1] = b
    <3>1. CASE Kind = "choose_directory"
      <4>1. <<Kind, "refused", "msg">> \in Leaks
        BY <3>1 DEF Leaks
      <4>2. Leaked(ways', Msg)
        BY <1>1, <4>1, LeaksHere, RolesAre DEF HeapInv, Ends, Msg
      <4>3. <<Of("error", 0), "libdbus">> \in F
        BY <1>4, FreedBlocks
      <4> QED BY <4>2, <4>3
    <3>2. CASE Kind # "choose_directory"
      <4>1. Of("error", 0) \in D /\ Msg \in D
        BY <3>2 DEF D, Msg
      <4>2. \A b \in {Of("error", 0), Msg} : <<b, "libdbus">> \in F
        BY <4>1, FreedBlocks
      <4> QED BY <4>2
    <3> QED BY <3>1, <3>2
  <2>5. A \subseteq Block /\ \A b \in A : b.call = call
    BY <1>3
  <2> HIDE DEF F
  <2> QED BY <2>1, <2>3, <2>4, <2>5 DEF Leaves
<1>7. call' = call /\ ArgBlocks' = ArgBlocks
  BY <1>1, SameCall DEF EndsAs
<1> HIDE DEF H, A, F
<1>8. Memories' /\ HeapOf(live', owned', ways', G)
  BY <1>1, <1>2, <1>6, HeapEnd DEF HeapInv, Ends
<1>9. Held'
  <2>1. ArgBlocks \cup {} = ArgBlocks
    OBVIOUS
  <2> QED BY <1>1, <1>7, <1>8, <2>1 DEF Held, Heap
<1> QED BY <1>1, <1>8, <1>9 DEF HeapInv, Progress

LEMMA HeapAccepted ==
  ASSUME HeapInv, Accepted
  PROVE  Memories' /\ Held' /\ Progress'
<1> DEFINE H == ArgBlocks \cup {Msg}
           A == {Of("reply", 0)}
           D == {Of("msg", 0), Of("reply", 0)}
           F == libdbus(D)
           G == ArgBlocks
<1>1. /\ pc = "send" /\ pc' = "wait" /\ Memory(A, F)
      /\ UNCHANGED callVars /\ UNCHANGED <<err, result>> /\ owned' = owned \cup {}
  BY DEF Accepted, Goto, dataVars
<1>2. Heap(H)
  BY <1>1 DEF HeapInv, Held
<1>3. \A b \in D :
        b \in Block /\ b.role \in {"msg", "reply"} /\ b.call = call /\ Allocator[b.role] = "libdbus"
  BY MessageBlocks DEF HeapInv
<1>4. D = {Msg} \cup A
  BY DEF Msg
<1>5. \A b \in G : b.role \in {"dir", "title", "name"}
  BY ArgBlocksAre DEF HeapInv, DataType
<1>6. Leaves(H, A, F, {}, G)
  <2> HIDE DEF D
  <2>1. F \subseteq Freeable
    BY <1>3, FreedTypes
  <2>2. \A f \in F : f[1] \in D /\ f[2] = "libdbus"
    BY FreedBlocks
  <2>3. \A f \in F : f[1] \in (H \cup A) \ G /\ f[1].role \notin {"out", "outs"}
                     /\ Allocator[f[1].role] = f[2]
    BY <2>2, <1>3, <1>4, <1>5
  <2>4. \A b \in D : <<b, "libdbus">> \in F
    BY FreedBlocks
  <2>5. \A b \in H \cup A : b \in G \/ \E f \in F : f[1] = b
    BY <2>4, <1>4
  <2>6. A \subseteq Block /\ \A b \in A : b.call = call
    BY <1>3, <1>4
  <2> HIDE DEF F
  <2> QED BY <2>1, <2>3, <2>5, <2>6 DEF Leaves
<1>7. call' = call /\ ArgBlocks' = ArgBlocks
  BY <1>1, SameCall DEF callVars
<1> HIDE DEF H, A, F
<1>8. Memories' /\ HeapOf(live', owned', ways', G)
  BY <1>1, <1>2, <1>6, <1>7, HeapStep DEF HeapInv
<1>9. Held'
  BY <1>1, <1>7, <1>8 DEF Held, Heap
<1> QED BY <1>1, <1>8, <1>9 DEF HeapInv, Progress

-----------------------------------------------------------------------------
(* The answer, and the way back through the exported function.             *)

LEMMA HeapAnswered ==
  ASSUME HeapInv, NEW files \in Answers, Answered(files)
  PROVE  Memories' /\ Held' /\ Progress'
<1> DEFINE A == PathBlocks(Kept(files)) \cup ArrayBlocks(Kept(files))
           G == ArgBlocks \cup A
<1>1. /\ pc = "wait" /\ pc' = "cleanup" /\ Memory(A, {})
      /\ UNCHANGED callVars /\ UNCHANGED <<err, result>> /\ owned' = owned \cup {}
      /\ answer' = files
  BY DEF Answered, Goto
<1>2. Heap(ArgBlocks) /\ err = 0
  BY <1>1 DEF HeapInv, Held, Progress
<1>3. \A b \in A : b \in Block /\ b.call = call
  <2>1. Kept(files) \in Seq(Seq(Byte))
    BY KeptType
  <2> QED BY <2>1, PathBlocksAre DEF HeapInv, DataType
<1>4. Leaves(ArgBlocks, A, {}, {}, G)
  <2> HIDE DEF A
  <2> QED BY <1>3 DEF Leaves
<1>5. call' = call /\ ArgBlocks' = ArgBlocks
  BY <1>1, SameCall DEF callVars
<1>6. Paths' = A
  BY <1>1 DEF Paths, PathBlocks, ArrayBlocks, Kept, Kind, Of, callVars
<1>7. (ArgBlocks \cup IF err = 1 THEN {} ELSE Paths)' = G
  BY <1>1, <1>2, <1>5, <1>6
<1> HIDE DEF A, G
<1>8. Memories' /\ HeapOf(live', owned', ways', G)
  BY <1>1, <1>2, <1>4, <1>5, HeapStep DEF HeapInv
<1>9. Held'
  BY <1>1, <1>7, <1>8 DEF Held, Heap
<1> QED BY <1>1, <1>2, <1>8, <1>9 DEF HeapInv, Progress

(* The arguments converted are freed the way they were allocated.          *)
LEMMA ArgsFreed ==
  ASSUME DataType
  PROVE  /\ str_free(ArgBlocks) \subseteq Freeable
         /\ \A f \in str_free(ArgBlocks) :
              /\ f[1] \in ArgBlocks /\ f[1].role \in {"dir", "title", "name"}
              /\ Allocator[f[1].role] = f[2]
         /\ \A b \in ArgBlocks : \E f \in str_free(ArgBlocks) : f[1] = b
<1>1. \A b \in ArgBlocks : b \in Block /\ b.role \in {"dir", "title", "name"}
  BY ArgBlocksAre DEF DataType
<1>2. str_free(ArgBlocks) \subseteq Freeable
  <2> HIDE DEF ArgBlocks
  <2> QED BY <1>1, FreedTypes
<1>3. \A f \in str_free(ArgBlocks) : f[1] \in ArgBlocks /\ f[2] = "HeapAlloc"
  BY FreedBlocks
<1>4. \A b \in ArgBlocks : <<b, "HeapAlloc">> \in str_free(ArgBlocks)
  BY FreedBlocks
<1>5. \A b \in ArgBlocks : Allocator[b.role] = "HeapAlloc"
  BY <1>1, AllocatorsAre
<1> HIDE DEF ArgBlocks
<1>6. \A f \in str_free(ArgBlocks) :
        /\ f[1] \in ArgBlocks /\ f[1].role \in {"dir", "title", "name"}
        /\ Allocator[f[1].role] = f[2]
  BY <1>1, <1>3, <1>5
<1>7. \A b \in ArgBlocks : \E f \in str_free(ArgBlocks) : f[1] = b
  BY <1>4
<1> QED BY <1>2, <1>6, <1>7

LEMMA HeapCleanupFails ==
  ASSUME HeapInv, CleanupFails
  PROVE  Memories' /\ Held' /\ Progress'
<1> DEFINE F == str_free(ArgBlocks)
<1>1. /\ pc = "cleanup" /\ pc' = "idle" /\ err = 1 /\ Memory({}, F)
      /\ UNCHANGED callVars /\ UNCHANGED <<err, result>> /\ owned' = owned \cup {}
  BY DEF CleanupFails, Goto, dataVars
<1>2. Heap(ArgBlocks)
  <2>1. ArgBlocks \cup {} = ArgBlocks
    OBVIOUS
  <2> QED BY <1>1, <2>1 DEF HeapInv, Held
<1>3. Leaves(ArgBlocks, {}, F, {}, {})
  BY ArgsFreed DEF Leaves, HeapInv
<1> HIDE DEF F
<1>4. Memories' /\ HeapOf(live', owned', ways', {})
  BY <1>1, <1>2, <1>3, HeapStep DEF HeapInv, callVars
<1>5. Held'
  BY <1>1, <1>4 DEF Held, Heap
<1> QED BY <1>1, <1>4, <1>5 DEF HeapInv, Progress

LEMMA HeapCleanup ==
  ASSUME HeapInv, Cleanup
  PROVE  Memories' /\ Held' /\ Progress'
<1> DEFINE H == ArgBlocks \cup Paths
           F == str_free(ArgBlocks)
           G == Paths \cup OutsBlocks
<1>1. /\ pc = "cleanup" /\ pc' = "paths" /\ err = 0 /\ Memory(OutsBlocks, F)
      /\ UNCHANGED callVars /\ UNCHANGED <<err, result, answer>> /\ owned' = owned \cup {}
      /\ next' = 1
  BY DEF Cleanup, Goto
<1>2. Heap(H) /\ result = <<>>
  BY <1>1 DEF HeapInv, Held, Progress
<1>3. Kept(answer) \in Seq(Seq(Byte))
  BY KeptType DEF HeapInv, DataType
<1>4. /\ \A b \in Paths : b.role \in {"path", "paths"}
      /\ \A b \in OutsBlocks : b \in Block /\ b.role = "outs" /\ b.call = call
  BY <1>3, PathBlocksAre, OutsBlocksAre DEF HeapInv, DataType, Paths
<1>5. Leaves(H, OutsBlocks, F, {}, G)
  <2>1. \A f \in F : f[1] \in ArgBlocks /\ f[1].role \in {"dir", "title", "name"}
                     /\ Allocator[f[1].role] = f[2]
    BY ArgsFreed DEF HeapInv
  <2>2. \A f \in F : f[1] \in (H \cup OutsBlocks) \ G /\ f[1].role \notin {"out", "outs"}
    BY <1>4, <2>1
  <2>3. F \subseteq Freeable /\ \A b \in ArgBlocks : \E f \in F : f[1] = b
    BY ArgsFreed DEF HeapInv
  <2> HIDE DEF F
  <2> QED BY <1>4, <2>1, <2>2, <2>3 DEF Leaves
<1>6. (Left \cup OutsBlocks \cup Outs)' = G
  <2>1. OutsBlocks' = OutsBlocks
    BY <1>1 DEF OutsBlocks, Kept, Kind, Of, callVars
  <2>2. Outs' = {}
    BY <1>1, <1>2 DEF Outs
  <2>3. DOMAIN Kept(answer) = 1 .. Len(Kept(answer))
    BY <1>3
  <2>4. Left' = {Of("path", k) : k \in 1 .. Len(Kept(answer))} \cup ArrayBlocks(Kept(answer))
    BY <1>1 DEF Left, ArrayBlocks, Kept, Kind, Of, callVars
  <2>5. Left' = Paths
    BY <2>3, <2>4 DEF Paths, PathBlocks
  <2> QED BY <2>1, <2>2, <2>5
<1> HIDE DEF H, F, G
<1>7. Memories' /\ HeapOf(live', owned', ways', G)
  BY <1>1, <1>2, <1>5, HeapStep DEF HeapInv, callVars
<1>8. Held'
  BY <1>1, <1>6, <1>7 DEF Held, Heap
<1>9. Progress'
  BY <1>1, <1>2 DEF Progress
<1> QED BY <1>7, <1>8, <1>9

NewOut(outcome) == IF outcome = "named" THEN {Of("out", next)} ELSE {}
Rest == {Of("path", k) : k \in (next + 1) .. Len(Kept(answer))} \cup ArrayBlocks(Kept(answer))

(* The path converted is the first of those left.                          *)
LEMMA LeftSplits ==
  ASSUME DataType, next <= Len(Kept(answer))
  PROVE  /\ Left = Rest \cup {Of("path", next)}
         /\ \A b \in Rest : b.role \in {"path", "paths"} /\ b # Of("path", next)
<1>1. Kept(answer) \in Seq(Seq(Byte))
  BY KeptType DEF DataType
<1> DEFINE n == Len(Kept(answer))
<1>2. n \in Nat /\ next \in Nat /\ next <= n
  BY <1>1 DEF DataType
<1>3. \A k \in Nat : Of("path", k).role = "path" /\ Of("path", k).i = k
  BY RolesAre, OfType DEF DataType
<1>4. \A b \in ArrayBlocks(Kept(answer)) : b.role = "paths"
  BY <1>1, PathBlocksAre DEF DataType
<1> HIDE DEF n
<1>5. next .. n = {next} \cup ((next + 1) .. n)
  BY <1>2
<1>6. \A k \in (next + 1) .. n : k \in Nat /\ k # next
  BY <1>2
<1>7. Left = Rest \cup {Of("path", next)}
  BY <1>5 DEF Left, Rest, n
<1>8. \A b \in Rest : b.role \in {"path", "paths"} /\ b # Of("path", next)
  BY <1>2, <1>3, <1>4, <1>6 DEF Rest, n
<1> QED BY <1>7, <1>8

(* And what is converted is added to what the caller will get.             *)
LEMMA OutsGrow ==
  ASSUME DataType, Progress, NEW outcome, ConvertPath(outcome)
  PROVE  Outs' = Outs \cup NewOut(outcome)
<1> DEFINE kept == Kept(answer)
           r == IF outcome = "named" THEN kept[next] ELSE NULL
<1>1. kept \in Seq(Seq(Byte)) /\ next \in Nat \ {0} /\ next <= Len(kept)
  BY KeptType DEF DataType, ConvertPath
<1>2. result' = Append(result, r) /\ Len(result) = next - 1
  BY DEF ConvertPath, Progress
<1> HIDE DEF kept
<1>3. kept[next] \in Seq(Byte)
  BY <1>1
<1>4. r # NULL <=> outcome = "named"
  BY <1>3, AnswersAssumption
<1> HIDE DEF r
<1>5. result \in Seq(Seq(Byte) \cup {NULL})
  BY DEF DataType
<1>6. DOMAIN result = 1 .. (next - 1)
  BY <1>2, <1>5
<1>7. /\ DOMAIN result' = 1 .. next
      /\ \A k \in 1 .. (next - 1) : result'[k] = result[k]
      /\ result'[next] = r
  BY <1>1, <1>2, <1>5
<1>8. {k \in DOMAIN result' : result'[k] # NULL}
        = {k \in DOMAIN result : result[k] # NULL} \cup IF outcome = "named" THEN {next} ELSE {}
  <2>1. /\ next \notin DOMAIN result /\ DOMAIN result' = DOMAIN result \cup {next}
        /\ \A k \in DOMAIN result : result'[k] = result[k]
    BY <1>1, <1>6, <1>7
  <2>2. result'[next] # NULL <=> outcome = "named"
    BY <1>4, <1>7
  <2> QED BY <2>1, <2>2, Zenon
<1>9. \A role, i : Of(role, i)' = Of(role, i)
  BY DEF Of, ConvertPath, callVars
<1>10. Outs' = {Of("out", k) : k \in {k \in DOMAIN result' : result'[k] # NULL}}
  BY <1>9 DEF Outs, Of, ConvertPath, callVars
<1> QED BY <1>8, <1>10 DEF Outs, NewOut

LEMMA HeapConvertPath ==
  ASSUME HeapInv, NEW outcome \in {"nameless", "not_utf16", "named"}, ConvertPath(outcome)
  PROVE  Memories' /\ Held' /\ Progress'
<1> DEFINE W == IF outcome = "nameless" THEN {} ELSE WideBlocks
           P == Of("path", next)
           A == NewOut(outcome) \cup W
           D == {P} \cup W
           F == str_free(D)
           H == Left \cup OutsBlocks \cup Outs
           G == Rest \cup OutsBlocks \cup (Outs \cup NewOut(outcome))
<1>1. /\ pc = "paths" /\ pc' = "paths" /\ Memory(A, F)
      /\ UNCHANGED callVars /\ UNCHANGED <<err, answer>> /\ owned' = owned \cup {}
      /\ next' = next + 1 /\ next <= Len(Kept(answer))
  BY DEF ConvertPath, NewOut
<1>2. Heap(H) /\ call \in Nat /\ next \in Nat
  BY <1>1 DEF HeapInv, Held, DataType
<1>3. /\ P \in Block /\ P.role = "path" /\ P.call = call
      /\ \A b \in NewOut(outcome) : b \in Block /\ b.role = "out" /\ b.call = call
      /\ \A b \in W : b \in Block /\ b.role = "wide" /\ b.call = call
  <2>1. \A role \in {"path", "out"} :
          Of(role, next) \in Block /\ Of(role, next).role = role /\ Of(role, next).call = call
    BY <1>2, RolesAre, OfType
  <2>2. \A b \in W : b \in Block /\ b.role = "wide" /\ b.call = call
    BY <1>2, WideBlocksAre
  <2> QED BY <2>1, <2>2 DEF NewOut
<1>4. /\ \A b \in OutsBlocks : b.role = "outs"
      /\ \A b \in Outs : b.role = "out"
  BY <1>2, OutsBlocksAre, OutsAre DEF HeapInv
<1>5. Left = Rest \cup {P} /\ \A b \in Rest : b.role \in {"path", "paths"} /\ b # P
  BY <1>1, LeftSplits DEF HeapInv
<1>6. Leaves(H, A, F, {}, G)
  <2> HIDE DEF P, W
  <2>1. F \subseteq Freeable
    BY <1>3, FreedTypes
  <2>2. \A f \in F : f[1] \in D /\ f[2] = "HeapAlloc"
    BY FreedBlocks
  <2>3. \A b \in D : Allocator[b.role] = "HeapAlloc" /\ b.role \in {"path", "wide"}
    BY <1>3, AllocatorsAre
  <2>4. \A b \in D : b \in H \cup A /\ b \notin G
    BY <1>3, <1>4, <1>5
  <2>5. \A b \in D : <<b, "HeapAlloc">> \in F
    BY FreedBlocks
  <2>6. \A b \in H \cup A : b \in G \/ b \in D
    BY <1>5
  <2>7. G \subseteq H \cup A
    BY <1>5
  <2>8. A \subseteq Block /\ \A b \in A : b.call = call
    BY <1>3
  <2> HIDE DEF A, D, F, H, G
  <2>9. \A f \in F : /\ f[1] \in (H \cup A) \ G
                     /\ f[1].role \notin {"out", "outs"}
                     /\ Allocator[f[1].role] = f[2]
    BY <2>2, <2>3, <2>4
  <2>10. \A b \in H \cup A : b \in G \/ \E f \in F : f[1] = b
    BY <2>5, <2>6
  <2> QED BY <2>1, <2>7, <2>8, <2>9, <2>10 DEF Leaves
<1>7. (Left \cup OutsBlocks \cup Outs)' = G
  <2>1. OutsBlocks' = OutsBlocks
    BY <1>1 DEF OutsBlocks, Kept, Kind, Of, callVars
  <2>2. Outs' = Outs \cup NewOut(outcome)
    BY OutsGrow DEF HeapInv
  <2>3. Left' = Rest
    BY <1>1 DEF Left, Rest, ArrayBlocks, Kept, Kind, Of, callVars
  <2> QED BY <2>1, <2>2, <2>3
<1>8. Progress'
  <2>1. Len(result') = Len(result) + 1
    BY DEF ConvertPath, HeapInv, DataType
  <2>2. Len(result') = next' - 1
    BY <1>1, <1>2, <2>1 DEF HeapInv, Progress
  <2> QED BY <1>1, <2>2 DEF HeapInv, Progress
<1> HIDE DEF A, F, H, G
<1>9. Memories' /\ HeapOf(live', owned', ways', G)
  BY <1>1, <1>2, <1>6, HeapStep DEF HeapInv, callVars
<1>10. Held'
  BY <1>1, <1>7, <1>9 DEF Held, Heap
<1> QED BY <1>8, <1>9, <1>10

LEMMA HeapReturn ==
  ASSUME HeapInv, Return
  PROVE  Memories' /\ Held' /\ Progress'
<1> DEFINE D == ArrayBlocks(Kept(answer))
           F == free(D)
           H == Left \cup OutsBlocks \cup Outs
           X == OutsBlocks \cup Outs
<1>1. /\ pc = "paths" /\ pc' = "idle" /\ Memory({}, F)
      /\ UNCHANGED callVars /\ owned' = owned \cup X
      /\ next > Len(Kept(answer))
  BY DEF Return, Goto, Outs
<1>2. Heap(H) /\ call \in Nat /\ next \in Nat
  BY <1>1 DEF HeapInv, Held, DataType
<1>3. Kept(answer) \in Seq(Seq(Byte))
  BY KeptType DEF HeapInv, DataType
<1>4. Left = D
  <2>1. Len(Kept(answer)) \in Nat
    BY <1>3
  <2>2. next .. Len(Kept(answer)) = {}
    BY <1>1, <1>2, <2>1
  <2> QED BY <2>2 DEF Left
<1>5. \A b \in X : b \in Block /\ b.call = call /\ b.role \in {"out", "outs"}
  BY <1>2, OutsBlocksAre, OutsAre DEF HeapInv
<1>6. \A b \in D : b \in Block /\ b.role = "paths" /\ Allocator[b.role] = "malloc"
  BY <1>2, <1>3, PathBlocksAre, AllocatorsAre
<1>7. Leaves(H, {}, F, X, {})
  <2> HIDE DEF D
  <2>1. F \subseteq Freeable
    BY <1>6, FreedTypes
  <2>2. \A f \in F : f[1] \in D /\ f[2] = "malloc"
    BY FreedBlocks
  <2>3. \A b \in D : <<b, "malloc">> \in F
    BY FreedBlocks
  <2>4. H = D \cup X
    BY <1>4
  <2> HIDE DEF F, H, X
  <2>5. \A b \in H : b \in X \/ \E f \in F : f[1] = b
    BY <2>3, <2>4
  <2> QED BY <1>5, <1>6, <2>1, <2>2, <2>4, <2>5 DEF Leaves
<1> HIDE DEF D, F, H, X
<1>8. Memories' /\ HeapOf(live', owned', ways', {})
  BY <1>1, <1>2, <1>7, HeapStep DEF HeapInv, callVars
<1>9. Held'
  BY <1>1, <1>8 DEF Held, Heap
<1> QED BY <1>1, <1>8, <1>9 DEF Progress

-----------------------------------------------------------------------------
(* portal_open_native_for.                                                 *)

LEMMA HeapNativeStays ==
  ASSUME HeapInv, NativeFails \/ NativeFaults
  PROVE  Memories' /\ Held' /\ Progress'
<1>1. /\ pc = "native" /\ pc' \in {"idle", "crashed"}
      /\ UNCHANGED callVars /\ UNCHANGED heapVars /\ result' = result
  BY DEF NativeFails, NativeFaults, Goto, dataVars
<1>2. Heap({})
  BY <1>1 DEF HeapInv, Held
<1>3. Memories' /\ HeapOf(live', owned', ways', {})
  BY <1>1, <1>2, HeapStays DEF HeapInv, callVars
<1>4. Held'
  BY <1>1, <1>3 DEF Held, Heap
<1> QED BY <1>1, <1>3, <1>4 DEF HeapInv, Progress

LEMMA HeapNativeRequest ==
  ASSUME HeapInv, NativeRequest
  PROVE  Memories' /\ Held' /\ Progress'
<1> DEFINE A == {Msg} \cup IF args.dir = "ok" THEN {Dir} ELSE {}
<1>1. /\ pc = "native" /\ pc' = (IF args.dir = "ok" THEN "open" ELSE "native_send")
      /\ Memory(A, {}) /\ UNCHANGED callVars /\ UNCHANGED <<err, result>>
      /\ owned' = owned \cup {}
  BY DEF NativeRequest, Goto, dataVars, Msg, Dir
<1>2. Heap({})
  BY <1>1 DEF HeapInv, Held
<1>3. \A b \in A : b \in Block /\ b.call = call
  BY NamedBlocks DEF HeapInv, DataType
<1>4. Leaves({}, A, {}, {}, A)
  <2> HIDE DEF A
  <2> QED BY <1>3 DEF Leaves
<1>5. Msg' = Msg /\ Dir' = Dir /\ call' = call
  BY <1>1, SameCall DEF callVars
<1>6. A = IF args.dir = "ok" THEN {Msg, Dir} ELSE {Msg}
  OBVIOUS
<1> HIDE DEF A
<1>7. Memories' /\ HeapOf(live', owned', ways', A)
  BY <1>1, <1>2, <1>4, <1>5, HeapStep DEF HeapInv
<1>8. Held'
  <2>1. CASE args.dir = "ok"
    BY <2>1, <1>1, <1>5, <1>6, <1>7 DEF Held, Heap
  <2>2. CASE args.dir # "ok"
    BY <2>2, <1>1, <1>5, <1>6, <1>7 DEF Held, Heap
  <2> QED BY <2>1, <2>2
<1> QED BY <1>1, <1>7, <1>8 DEF HeapInv, Progress

LEMMA HeapNativeOpen ==
  ASSUME HeapInv, NativeOpen
  PROVE  Memories' /\ Held' /\ Progress'
<1> DEFINE Fd == Of("fd", 0)
           F == str_free({Dir}) \cup close({Fd})
<1>1. /\ pc = "open" /\ pc' = "native_send" /\ Memory({Fd}, F)
      /\ UNCHANGED callVars /\ UNCHANGED <<err, result>> /\ owned' = owned \cup {}
  BY DEF NativeOpen, Goto, dataVars, Dir
<1>2. Heap({Msg, Dir}) /\ call \in Nat
  BY <1>1 DEF HeapInv, Held, DataType
<1>3. /\ Fd \in Block /\ Fd.role = "fd" /\ Fd.call = call /\ Allocator[Fd.role] = "kernel"
      /\ Dir \in Block /\ Dir.role = "dir" /\ Allocator[Dir.role] = "HeapAlloc"
      /\ Msg.role = "msg"
  BY <1>2, RolesAre, OfType, AllocatorsAre, NamedBlocks
<1>4. Leaves({Msg, Dir}, {Fd}, F, {}, {Msg})
  <2> HIDE DEF Fd
  <2>1. F \subseteq Freeable
    BY <1>3, FreedTypes
  <2>2. F = {<<Dir, "HeapAlloc">>, <<Fd, "kernel">>}
    BY DEF str_free, close
  <2> HIDE DEF F
  <2> QED BY <1>3, <2>1, <2>2 DEF Leaves
<1> HIDE DEF Fd, F
<1>5. Memories' /\ HeapOf(live', owned', ways', {Msg})
  BY <1>1, <1>2, <1>4, HeapStep DEF HeapInv, callVars
<1>6. Msg' = Msg
  BY <1>1, SameCall DEF callVars
<1>7. Held'
  BY <1>1, <1>5, <1>6 DEF Held, Heap
<1> QED BY <1>1, <1>5, <1>7 DEF HeapInv, Progress

LEMMA HeapNativeOpenFails ==
  ASSUME HeapInv, NativeOpenFails
  PROVE  Memories' /\ Held' /\ Progress'
<1> DEFINE F == str_free({Dir})
<1>1. /\ pc = "open" /\ pc' = "idle" /\ Memory({}, F)
      /\ EndsAs("unopened") /\ owned' = owned \cup {}
  BY DEF NativeOpenFails, Goto, Dir
<1>2. Heap({Msg, Dir}) /\ call \in Nat
  BY <1>1 DEF HeapInv, Held, DataType
<1>3. /\ Dir \in Block /\ Dir.role = "dir" /\ Allocator[Dir.role] = "HeapAlloc"
      /\ Msg.role = "msg"
  BY <1>2, AllocatorsAre, NamedBlocks
<1>4. Leaves({Msg, Dir}, {}, F, {}, {})
  <2>1. F \subseteq Freeable
    BY <1>3, FreedTypes
  <2>2. F = {<<Dir, "HeapAlloc">>}
    BY DEF str_free
  <2>3. Kind = "open_native"
    BY <1>1 DEF HeapInv, Unended, InNative
  <2>4. Leaked(ways', Msg)
    BY <1>1, <2>3, LeaksHere, RolesAre DEF HeapInv, Ends, Msg, Leaks
  <2> HIDE DEF F
  <2> QED BY <1>3, <2>1, <2>2, <2>4 DEF Leaves
<1> HIDE DEF F
<1>5. Memories' /\ HeapOf(live', owned', ways', {})
  BY <1>1, <1>2, <1>4, HeapEnd DEF HeapInv, Ends
<1>6. Held'
  BY <1>1, <1>5 DEF Held, Heap
<1> QED BY <1>1, <1>5, <1>6 DEF Progress

LEMMA HeapNativeSent ==
  ASSUME HeapInv, NEW role \in {"reply", "error"}, NativeSent(role)
  PROVE  Memories' /\ Held' /\ Progress'
<1> DEFINE R == Of(role, 0)
           D == {Of("msg", 0)} \cup IF role = "reply" THEN {Of("reply", 0)} ELSE {}
           F == libdbus(D)
<1>1. /\ pc = "native_send" /\ pc' = "idle" /\ Memory({R}, F)
      /\ EndsAs(IF role = "reply" THEN "returned" ELSE "unanswered") /\ owned' = owned \cup {}
  BY DEF NativeSent, Goto
<1>2. Heap({Msg})
  BY <1>1 DEF HeapInv, Held
<1>3. \A b \in {Msg, R} : b \in Block /\ b.role \in {"msg", "reply", "error"} /\ b.call = call
                          /\ Allocator[b.role] = "libdbus"
  BY MessageBlocks DEF HeapInv, Msg
<1>4. D \subseteq {Msg, R} /\ Msg \in D /\ (role = "reply" => R \in D)
  BY MessageBlocks DEF HeapInv, Msg
<1>5. Leaves({Msg}, {R}, F, {}, {})
  <2> HIDE DEF D, R
  <2>1. F \subseteq Freeable
    BY <1>3, <1>4, FreedTypes
  <2>2. \A f \in F : f[1] \in D /\ f[2] = "libdbus"
    BY FreedBlocks
  <2>3. \A b \in D : <<b, "libdbus">> \in F
    BY FreedBlocks
  <2> HIDE DEF F
  <2>4. \A b \in {Msg} \cup {R} : Leaked(ways', b) \/ \E f \in F : f[1] = b
    <3>1. CASE role = "reply"
      BY <1>4, <2>3, <3>1
    <3>2. CASE role = "error"
      <4>1. <<Kind, "unanswered", "error">> \in Leaks
        BY <1>1 DEF HeapInv, Unended, InNative, Leaks
      <4>2. Leaked(ways', R)
        BY <1>1, <3>2, <4>1, LeaksHere, RolesAre DEF HeapInv, Ends, R
      <4> QED BY <1>4, <2>3, <4>2
    <3> QED BY <3>1, <3>2
  <2> QED BY <1>3, <1>4, <2>1, <2>2, <2>4 DEF Leaves
<1> HIDE DEF R, F
<1>6. Memories' /\ HeapOf(live', owned', ways', {})
  <2>1. PICK end \in Ends : EndsAs(end)
    BY <1>1 DEF Ends
  <2> QED BY <1>1, <1>2, <1>5, <2>1, HeapEnd DEF HeapInv
<1>7. Held'
  BY <1>1, <1>6 DEF Held, Heap
<1> QED BY <1>1, <1>6, <1>7 DEF Progress

-----------------------------------------------------------------------------
(* The caller's own part: a block it gives back is freed wrongly, once.    *)

LEMMA HeapFree ==
  ASSUME HeapInv, NEW b \in owned, wine_portal_free(b)
  PROVE  Memories' /\ Held' /\ Progress'
<1>1. /\ pc = "idle" /\ pc' = "idle" /\ call' = call /\ owned' = owned \ {b}
      /\ Memory({}, free({b}))
  BY DEF wine_portal_free, callVars
<1>2. /\ b \in Block /\ b.role \in {"out", "outs"} /\ b.call <= call
      /\ owned \subseteq live /\ \A c \in live : c \in owned \/ Leaked(ways, c)
  BY <1>1 DEF HeapInv, Memories, Past, Held, Heap, HeapOf, HeapType
<1>a. ways' = ways
  BY DEF wine_portal_free, callVars
<1>3. free({b}) = {<<b, "malloc">>}
  BY DEF free
<1>4. live' = live \ {b} /\ bad' \subseteq bad \cup {<<b, "malloc">>}
  <2> DEFINE F == free({b})
  <2>1. live' = (live \cup {}) \ {f[1] : f \in F} /\ bad' \subseteq bad \cup F
    BY <1>1 DEF Memory
  <2>2. \A f \in F : f[1] = b
    BY FreedBlocks
  <2>a. <<b, "malloc">> \in F /\ <<b, "malloc">>[1] = b
    BY <1>3
  <2> HIDE DEF F
  <2>3. live' = live \ {b}
    BY <2>1, <2>2, <2>a
  <2> QED BY <1>3, <2>1, <2>3 DEF F
<1>5. HeapType'
  <2>1. <<b, "malloc">> \in Freeable
    BY <1>2 DEF Freeable
  <2> QED BY <1>1, <1>4, <2>1 DEF HeapInv, Memories, HeapType
<1>6. LibraryFreesRight'
  BY <1>1, <1>2, <1>4 DEF HeapInv, Memories, LibraryFreesRight
<1>7. Past'
  BY <1>1, <1>2, <1>4 DEF HeapInv, Memories, Past
<1>8. HeapOf(live', owned', ways', {})
  BY <1>1, <1>2, <1>4, <1>a DEF HeapOf
<1>9. Held'
  BY <1>1, <1>8 DEF Held, Heap
<1> QED BY <1>1, <1>5, <1>6, <1>7, <1>9 DEF Memories, Progress

-----------------------------------------------------------------------------
LEMMA HeapInit == Init => HeapInv
<1> SUFFICES ASSUME Init PROVE Unended /\ Memories /\ Held /\ Progress
  BY DataInit DEF HeapInv
<1>1. Memories
  BY DEF Init, Memories, HeapType, LibraryFreesRight, Past
<1>2. Held
  BY DEF Init, Held, Heap, HeapOf
<1> QED BY <1>1, <1>2 DEF Init, Unended, InNative, Progress

LEMMA HeapInvStep == HeapInv /\ [Next]_vars => HeapInv'
<1> SUFFICES ASSUME HeapInv, [Next]_vars PROVE Memories' /\ Held' /\ Progress'
  BY DataStep, UnendedStep DEF HeapInv
<1>1. ASSUME NEW e \in Entries, NEW a \in Args, Call(e, a) PROVE Memories' /\ Held' /\ Progress'
  BY <1>1, HeapCall
<1>2. CASE ConvertArgs
  BY <1>2, HeapConvertArgs
<1>3. CASE NoConnection
  BY <1>3, HeapNoConnection
<1>4. CASE NewRequest
  BY <1>4, HeapNewRequest
<1>5. CASE MakeFilter
  BY <1>5, HeapMakeFilter
<1>6. CASE AppendFilter
  BY <1>6, HeapAppendFilter
<1>7. CASE FiltersDone \/ AppendFaults \/ NameFaults
  BY <1>7, HeapFiltersDone
<1>8. CASE Refused
  BY <1>8, HeapRefused
<1>9. CASE Accepted
  BY <1>9, HeapAccepted
<1>10. ASSUME NEW files \in Answers, Answered(files) PROVE Memories' /\ Held' /\ Progress'
  BY <1>10, HeapAnswered
<1>11. CASE CleanupFails
  BY <1>11, HeapCleanupFails
<1>12. CASE Cleanup
  BY <1>12, HeapCleanup
<1>13. ASSUME NEW outcome \in {"nameless", "not_utf16", "named"}, ConvertPath(outcome)
       PROVE Memories' /\ Held' /\ Progress'
  BY <1>13, HeapConvertPath
<1>14. CASE Return
  BY <1>14, HeapReturn
<1>15. CASE NativeFails \/ NativeFaults
  BY <1>15, HeapNativeStays
<1>16. CASE NativeRequest
  BY <1>16, HeapNativeRequest
<1>17. CASE NativeOpen
  BY <1>17, HeapNativeOpen
<1>18. CASE NativeOpenFails
  BY <1>18, HeapNativeOpenFails
<1>19. ASSUME NEW role \in {"reply", "error"}, NativeSent(role)
       PROVE Memories' /\ Held' /\ Progress'
  BY <1>19, HeapNativeSent
<1>20. ASSUME NEW b \in owned, wine_portal_free(b) PROVE Memories' /\ Held' /\ Progress'
  BY <1>20, HeapFree
<1>21. CASE UNCHANGED vars
  BY <1>21 DEF vars, callVars, dataVars, heapVars, HeapInv, Memories, HeapType, LibraryFreesRight,
               Past, Held, Heap, HeapOf, Progress, ArgBlocks, NameBlocks, HasName, OutsBlocks,
               Outs, Msg, Dir, Parser, Paths, Left, PathBlocks, ArrayBlocks, Kept, Of, Kind, Wide
<1> QED BY <1>1, <1>2, <1>3, <1>4, <1>5, <1>6, <1>7, <1>8, <1>9, <1>10, <1>11, <1>12, <1>13,
           <1>14, <1>15, <1>16, <1>17, <1>18, <1>19, <1>20, <1>21 DEF Next

LEMMA HeapAlways == Spec => []HeapInv
<1>1. Init => HeapInv
  BY HeapInit
<1>2. HeapInv /\ [Next]_vars => HeapInv'
  BY HeapInvStep
<1> QED BY <1>1, <1>2, PTL DEF Spec

(* Every variable keeps its type, whatever is called with whatever and     *)
(* answered (src/wine_xdg_portal.c 125-350).                               *)
THEOREM WrappersTypes == Spec => []TypeOK
<1>1. HeapInv => TypeOK
  BY TypeParts DEF HeapInv, Memories
<1> QED BY <1>1, HeapAlways, PTL

(* On no way through a dialog or open_native_for does the library free a   *)
(* block twice, after it was given to the caller or with another           *)
(* allocator's function.  wine_portal_free is not included: it hands the   *)
(* HeapAlloc strings of the caller to free() (src/wine_xdg_portal.c 134,   *)
(* src/portal.c, src/string_conv.c).                                       *)
THEOREM EveryFreeIsRight == Spec => []LibraryFreesRight
<1>1. HeapInv => LibraryFreesRight
  BY DEF HeapInv, Memories
<1> QED BY <1>1, HeapAlways, PTL

(* However often the functions are called and fail, all that is left of a  *)
(* call is what its caller owns, except after the three ends where the     *)
(* code leaks: a message when open_native_for cannot open its path or      *)
(* choose_directory is refused, an error when open_native_for has no reply *)
(* (src/portal.c 100, 115, 542).                                           *)
THEOREM OnlyMessagesLeak == Spec => []NothingLost
<1>1. HeapInv => NothingLost
  BY DEF HeapInv, Held, Heap, HeapOf, NothingLost
<1> QED BY <1>1, HeapAlways, PTL

-----------------------------------------------------------------------------
(* The path fits the block.  Neither scheme, %00 nor a broken escape is    *)
(* excluded: whatever bytes the URI has, the block is not overrun          *)
(* (src/string_conv.c 122-163).                                            *)
THEOREM PathsFit == Spec => []DecodedFits
<1>1. HeapInv => DecodedFits
  BY FileTypes, LoopFits DEF HeapInv, DataType, DecodedFits
<1> QED BY <1>1, HeapAlways, PTL

-----------------------------------------------------------------------------
(* The filters of a request.                                               *)
Named == {k \in DOMAIN args.filters : HasGoodName(args.filters[k])}

FilterInv ==
  /\ pc \in {"convert", "connect"} => next = 1 /\ sent = <<>>
  /\ pc \in {"filters", "append"} =>
       /\ Kind # "choose_directory"
       /\ next - 1 \in 0 .. Len(args.filters)
       /\ sent = ElementsUpTo(args.filters, Named)[next - 1]
  /\ FiltersSent

LEMMA FilterAppend ==
  ASSUME HeapInv, FilterInv, AppendFilter
  PROVE  FilterInv'
<1> DEFINE f == args.filters
<1>1. /\ pc = "append" /\ pc' = "filters" /\ next' = next + 1
      /\ UNCHANGED <<args, entry>>
      /\ sent' = IF NameBlocks = {} THEN sent ELSE Append(sent, f[next])
  BY DEF AppendFilter, Goto, callVars
<1>2. f \in Seq(Filter) /\ next \in DOMAIN f
  BY <1>1, Filters DEF HeapInv, DataType
<1>3. next \in 1 .. Len(f) /\ f[next] \in Filter /\ Len(f) \in Nat
  BY <1>2
<1>4. NameBlocks = {} <=> next \notin Named
  BY <1>2, <1>3 DEF NameBlocks, HasName, Named, HasGoodName, Filter
<1>5. ElementsUpTo(f, Named)[next] = IF next \in Named THEN Append(ElementsUpTo(f, Named)[next - 1], f[next])
                                     ELSE ElementsUpTo(f, Named)[next - 1]
  BY <1>2, <1>3, ElementsUpToIs
<1>6. sent = ElementsUpTo(f, Named)[next - 1] /\ Kind # "choose_directory"
  BY <1>1 DEF FilterInv
<1>7. sent' = ElementsUpTo(f, Named)[next]
  BY <1>1, <1>4, <1>5, <1>6
<1>8. Named' = Named /\ Kind' = Kind
  BY <1>1 DEF Named, HasGoodName, Kind, Wide
<1>9. next' - 1 = next
  BY <1>1, <1>3
<1>10. args' = args /\ pc' = "filters" /\ Kind' # "choose_directory"
  BY <1>1, <1>6, <1>8
<1>11. next' - 1 \in 0 .. Len(args'.filters)
  BY <1>3, <1>9, <1>10
<1>12. sent' = ElementsUpTo(args'.filters, Named')[next' - 1]
  BY <1>7, <1>8, <1>9, <1>10
<1>13. QED
  BY <1>10, <1>11, <1>12 DEF FilterInv, FiltersSent

LEMMA FilterStep == HeapInv /\ FilterInv /\ [Next]_vars => FilterInv'
<1> SUFFICES ASSUME HeapInv, FilterInv, [Next]_vars PROVE FilterInv'
  OBVIOUS
<1> USE DEF Goto, callVars, dataVars
<1>1. CASE AppendFilter
  BY <1>1, FilterAppend
<1>2. CASE NewRequest
  <2>1. args.filters \in Seq(Filter)
    BY Filters DEF HeapInv, DataType
  <2>2. ElementsUpTo(args.filters, Named)[0] = <<>> /\ Len(args.filters) \in Nat
    BY <2>1, ElementsUpToIs
  <2>3. /\ next = 1 /\ sent = <<>> /\ UNCHANGED <<args, entry, next, sent>>
        /\ pc' = IF Kind = "choose_directory" THEN "send" ELSE "filters"
    BY <1>2 DEF NewRequest, FilterInv
  <2>4. Named' = Named /\ Kind' = Kind
    BY <2>3 DEF Named, HasGoodName, Kind, Wide
  <2>5. QED
    BY <2>2, <2>3, <2>4 DEF FilterInv, FiltersSent
<1>3. CASE FiltersDone
  <2>1. args.filters \in Seq(Filter) /\ next \in Nat \ {0}
    BY Filters DEF HeapInv, DataType
  <2>2. /\ next > Len(args.filters) /\ next - 1 \in 0 .. Len(args.filters)
        /\ sent = ElementsUpTo(args.filters, Named)[next - 1]
        /\ pc' = "send" /\ UNCHANGED <<args, entry, next, sent>>
    BY <1>3 DEF FiltersDone, FilterInv
  <2>3. next - 1 = Len(args.filters)
    BY <2>1, <2>2
  <2>4. sent = ElementsAt(args.filters, Named)
    BY <2>2, <2>3 DEF ElementsAt
  <2>5. FiltersSent'
    BY <2>2, <2>4 DEF FiltersSent, Named, HasGoodName, Wide
  <2>6. QED
    BY <2>2, <2>5 DEF FilterInv
<1>4. CASE MakeFilter
  <2>1. UNCHANGED <<args, entry, next, sent>> /\ pc = "filters" /\ pc' = "append"
    BY <1>4 DEF MakeFilter
  <2>2. Named' = Named /\ Kind' = Kind
    BY <2>1 DEF Named, HasGoodName, Kind, Wide
  <2>3. QED
    BY <2>1, <2>2 DEF FilterInv, FiltersSent
<1>5. ASSUME UNCHANGED <<args, entry, next, sent, pc>> PROVE FilterInv'
  <2>1. Named' = Named /\ Kind' = Kind /\ Wide' = Wide
    BY <1>5 DEF Named, HasGoodName, Kind, Wide
  <2>2. FiltersSent'
    BY <1>5 DEF FilterInv, FiltersSent, HasGoodName, Wide, Kind
  <2>3. QED
    BY <1>5, <2>1, <2>2 DEF FilterInv
<1>6. CASE ConvertArgs
  BY <1>6 DEF ConvertArgs, FilterInv, FiltersSent
<1>7. ASSUME NEW e \in Entries, NEW a \in Args, Call(e, a) PROVE FilterInv'
  BY <1>7 DEF Call, FilterInv, FiltersSent
<1>8. ASSUME pc' \notin {"convert", "connect", "filters", "append", "send"} PROVE FilterInv'
  BY <1>8 DEF FilterInv, FiltersSent
<1>9. CASE \/ NoConnection \/ NameFaults \/ AppendFaults \/ Refused \/ Accepted \/ CleanupFails \/ Cleanup \/ Return
           \/ NativeFails \/ NativeFaults \/ NativeRequest \/ NativeOpen \/ NativeOpenFails
           \/ \E files \in Answers : Answered(files)
           \/ \E role \in {"reply", "error"} : NativeSent(role)
           \/ \E outcome \in {"nameless", "not_utf16", "named"} : ConvertPath(outcome)
  BY <1>8, <1>9 DEF NoConnection, NameFaults, AppendFaults, Refused, Accepted, CleanupFails, Cleanup, Return,
     NativeFails, NativeFaults, NativeRequest, NativeOpen, NativeOpenFails, Answered, NativeSent,
     ConvertPath
<1>10. CASE \E b \in owned : wine_portal_free(b)
  BY <1>5, <1>10 DEF wine_portal_free
<1>11. CASE UNCHANGED vars
  BY <1>5, <1>11 DEF vars
<1>12. QED
  BY <1>1, <1>2, <1>3, <1>4, <1>6, <1>7, <1>9, <1>10, <1>11 DEF Next

(* A request carries every filter that has a name, in the order the caller *)
(* gave them (src/portal.c 258-289).                                       *)
THEOREM RequestCarriesFilters == Spec => []FiltersSent
<1>1. Init => FilterInv
  BY DEF Init, FilterInv, FiltersSent
<1>2. FilterInv => FiltersSent
  BY DEF FilterInv
<1> QED BY <1>1, <1>2, FilterStep, HeapAlways, PTL DEF Spec

-----------------------------------------------------------------------------
(* The results of a call.                                                  *)
AsKept(n) ==
  /\ Len(result) = n
  /\ n <= Len(Kept(answer))
  /\ \A k \in 1 .. n : result[k] \in {Kept(answer)[k], NULL}

ValueInv ==
  /\ pc = "paths" => AsKept(next - 1)
  /\ pc \in {"native", "open", "native_send"} => Kind = "open_native"
  /\ pc = "idle" /\ Kind # "open_native" =>
       IF err = 1 THEN result = <<>> ELSE AsKept(Len(Kept(answer)))

LEMMA ValueStep == HeapInv /\ ValueInv /\ [Next]_vars => ValueInv'
<1> SUFFICES ASSUME HeapInv, ValueInv, [Next]_vars PROVE ValueInv'
  OBVIOUS
<1> USE DEF Goto, callVars, dataVars
<1>1. Kept(answer) \in Seq(Seq(Byte)) /\ Len(Kept(answer)) \in Nat
  BY KeptType DEF HeapInv, DataType
<1>2. result \in Seq(Seq(Byte) \cup {NULL}) /\ Len(result) \in Nat /\ next \in Nat \ {0}
  BY DEF HeapInv, DataType
<1>3. ASSUME NEW outcome \in {"nameless", "not_utf16", "named"}, ConvertPath(outcome)
      PROVE  ValueInv'
  <2>1. /\ pc = "paths" /\ pc' = "paths" /\ UNCHANGED <<entry, answer>>
        /\ next <= Len(Kept(answer)) /\ next' = next + 1
        /\ result' = Append(result, IF outcome = "named" THEN Kept(answer)[next] ELSE NULL)
    BY <1>3 DEF ConvertPath
  <2>2. AsKept(next - 1)
    BY <2>1 DEF ValueInv
  <2>3. Len(result') = next /\ \A k \in 1 .. (next - 1) : result'[k] = result[k]
    BY <1>2, <2>1, <2>2 DEF AsKept
  <2>4. result'[next] \in {Kept(answer)[next], NULL}
    <3>1. Len(result) + 1 = next
      BY <1>2, <2>2 DEF AsKept
    <3>2. QED
      BY <1>2, <2>1, <3>1
  <2>5. \A k \in 1 .. next : result'[k] \in {Kept(answer)[k], NULL}
    BY <1>2, <2>2, <2>3, <2>4 DEF AsKept
  <2>6. Kept(answer)' = Kept(answer)
    BY <2>1 DEF Kept, Kind
  <2>7. next' - 1 = next
    BY <1>2, <2>1
  <2>8. AsKept(next - 1)'
    BY <2>1, <2>3, <2>5, <2>6, <2>7 DEF AsKept
  <2>9. QED
    BY <2>1, <2>8 DEF ValueInv
<1>4. CASE Cleanup
  <2>1. /\ pc = "cleanup" /\ pc' = "paths" /\ next' = 1 /\ UNCHANGED <<entry, answer, result>>
    BY <1>4 DEF Cleanup
  <2>2. result = <<>>
    BY <2>1 DEF HeapInv, Progress
  <2>3. Kept(answer)' = Kept(answer)
    BY <2>1 DEF Kept, Kind
  <2>4. QED
    BY <1>1, <2>1, <2>2, <2>3 DEF ValueInv, AsKept
<1>5. CASE Return
  <2>1. /\ pc = "paths" /\ pc' = "idle" /\ UNCHANGED <<entry, answer, result, err>>
        /\ next > Len(Kept(answer)) /\ AsKept(next - 1)
    BY <1>5 DEF Return, ValueInv
  <2>2. err = 0 /\ next - 1 = Len(Kept(answer))
    BY <1>1, <1>2, <2>1 DEF HeapInv, Progress, AsKept
  <2>3. Kept(answer)' = Kept(answer)
    BY <2>1 DEF Kept, Kind
  <2>4. AsKept(Len(Kept(answer)))'
    BY <2>1, <2>2, <2>3 DEF AsKept
  <2>5. QED
    BY <2>1, <2>2, <2>4 DEF ValueInv
<1>6. CASE CleanupFails
  BY <1>6 DEF CleanupFails, ValueInv, HeapInv, Progress
<1>7. ASSUME NEW e \in Entries, NEW a \in Args, Call(e, a) PROVE ValueInv'
  BY <1>7 DEF Call, ValueInv, Kind
<1>8. ASSUME pc' \notin {"paths", "idle", "native", "open", "native_send"} PROVE ValueInv'
  BY <1>8 DEF ValueInv
<1>9. CASE \/ ConvertArgs \/ NoConnection \/ NameFaults \/ NewRequest \/ MakeFilter \/ AppendFilter \/ AppendFaults
           \/ FiltersDone \/ Refused \/ Accepted \/ NativeFaults
           \/ \E files \in Answers : Answered(files)
  BY <1>8, <1>9 DEF ConvertArgs, NoConnection, NameFaults, NewRequest, MakeFilter, AppendFilter, AppendFaults,
     FiltersDone, Refused, Accepted, NativeFaults, Answered
<1>10. CASE \/ NativeFails \/ NativeRequest \/ NativeOpen \/ NativeOpenFails
            \/ \E role \in {"reply", "error"} : NativeSent(role)
  <2>1. Kind = "open_native" /\ Kind' = Kind /\ pc' # "paths"
    BY <1>10 DEF NativeFails, NativeRequest, NativeOpen, NativeOpenFails, NativeSent, EndsAs, ValueInv, Kind
  <2>2. QED
    BY <2>1 DEF ValueInv
<1>11. ASSUME UNCHANGED <<pc, entry, next, answer, err, result>> PROVE ValueInv'
  <2>1. Kept(answer)' = Kept(answer) /\ Kind' = Kind
    BY <1>11 DEF Kept, Kind
  <2>2. QED
    BY <1>11, <2>1 DEF ValueInv, AsKept
<1>12. CASE (\E b \in owned : wine_portal_free(b)) \/ UNCHANGED vars
  BY <1>11, <1>12 DEF wine_portal_free, vars
<1>13. QED
  BY <1>3, <1>4, <1>5, <1>6, <1>7, <1>9, <1>10, <1>12 DEF Next

(* path_URI_to_Unix turns a URI back into the path it spells.              *)
LEMMA PiecesCount ==
  ASSUME NEW n \in Nat, NEW m \in Nat, NEW at \in [1 .. (n + 1) -> 8 .. (m + 1)], at[1] = 8,
         \A i \in 1 .. n : at[i + 1] = at[i] + 3 \/ at[i + 1] = at[i] + 1
  PROVE  n + 8 <= at[n + 1]
<1> DEFINE S == {k \in Nat : k <= n => k + 8 <= at[k + 1]}
<1>1. 0 \in S
  OBVIOUS
<1>2. ASSUME NEW k \in 1 .. n, k - 1 \in S PROVE k \in S
  <2>1. (k - 1) + 8 <= at[(k - 1) + 1] /\ (k - 1) + 1 = k
    BY <1>2
  <2>2. at[k] \in Nat /\ (at[k + 1] = at[k] + 3 \/ at[k + 1] = at[k] + 1)
    OBVIOUS
  <2>3. QED
    BY <2>1, <2>2
<1>3. 0 .. n \subseteq S
  <2> HIDE DEF S
  <2>1. QED
    BY <1>1, <1>2, UpToInduct
<1>4. QED
  BY <1>3

LEMMA LoopSpells ==
  ASSUME NEW uri \in Seq(Byte), NEW path \in Seq(Byte), Spells(uri, path)
  PROVE  Decoded(uri) = path
<1> DEFINE f == Loop(uri)
           n == Len(path)
           m == Len(uri)
<1>1. n \in Nat /\ m \in Nat /\ DOMAIN path = 1 .. n
  OBVIOUS
<1>2. PICK at \in [1 .. (n + 1) -> 8 .. (m + 1)] :
        /\ at[1] = 8 /\ at[n + 1] = m + 1
        /\ \A i \in 1 .. n :
             \/ Escape(uri, at[i]) /\ path[i] = Unescaped(uri, at[i]) /\ at[i + 1] = at[i] + 3
             \/ ~Escape(uri, at[i]) /\ path[i] = uri[at[i]] /\ at[i + 1] = at[i] + 1
  BY <1>1 DEF Spells
<1> HIDE DEF m
<1>3. n <= m
  <2>1. n + 8 <= at[n + 1]
    <3> HIDE DEF n
    <3>1. QED
      BY <1>1, <1>2, PiecesCount
  <2>2. QED
    BY <1>1, <1>2, <2>1
<1>4. /\ f \in [0 .. m -> States]
      /\ f[0] = AfterScheme
      /\ \A k \in 1 .. m : f[k] = Iteration(uri, f[k - 1])
  BY LoopIs DEF m
<1> HIDE DEF f
<1> DEFINE After(k) == f[k].src = at[k + 1] /\ f[k].dst = SubSeq(path, 1, k)
           S == {k \in Nat : k <= n => After(k)}
<1>5. 0 \in S
  <2>1. SubSeq(path, 1, 0) = <<>>
    OBVIOUS
  <2>2. f[0].src = 8 /\ f[0].dst = <<>>
    BY <1>4 DEF AfterScheme
  <2>3. 0 + 1 = 1 /\ at[1] = 8
    BY <1>2
  <2>4. After(0)
    BY <2>1, <2>2, <2>3
  <2>5. QED
    BY <2>4
<1>6. ASSUME NEW k \in 1 .. n, k - 1 \in S PROVE k \in S
  <2> DEFINE t == f[k - 1]
  <2>1. t.src = at[k] /\ t.dst = SubSeq(path, 1, k - 1)
    BY <1>1, <1>6
  <2>2. f[k] = Iteration(uri, t)
    BY <1>1, <1>3, <1>4
  <2> HIDE DEF t
  <2>3. k \in Nat /\ at[k] \in Nat /\ at[k + 1] \in 8 .. (m + 1)
    BY <1>1
  <2>4. at[k] <= m
    <3>1. at[k + 1] = at[k] + 3 \/ at[k + 1] = at[k] + 1
      BY <1>2
    <3>2. QED
      BY <1>1, <2>3, <3>1
  <2>5. Append(SubSeq(path, 1, k - 1), path[k]) = SubSeq(path, 1, k)
    BY <1>1
  <2>6. ~(t.src > Len(uri))
    BY <1>1, <2>1, <2>3, <2>4 DEF m
  <2>7. CASE Escape(uri, at[k])
    <3>1. path[k] = Unescaped(uri, at[k]) /\ at[k + 1] = at[k] + 3
      BY <1>2, <2>7
    <3>2. f[k] = [src |-> t.src + 3, dst |-> Append(t.dst, Unescaped(uri, t.src))]
      BY <2>1, <2>2, <2>6, <2>7 DEF Iteration
    <3>3. f[k].src = at[k + 1] /\ f[k].dst = SubSeq(path, 1, k)
      BY <2>1, <2>5, <3>1, <3>2
    <3>4. QED
      BY <2>3, <3>3
  <2>8. CASE ~Escape(uri, at[k])
    <3>1. path[k] = uri[at[k]] /\ at[k + 1] = at[k] + 1
      BY <1>2, <2>8
    <3>2. f[k] = [src |-> t.src + 1, dst |-> Append(t.dst, uri[t.src])]
      BY <2>1, <2>2, <2>6, <2>8 DEF Iteration
    <3>3. f[k].src = at[k + 1] /\ f[k].dst = SubSeq(path, 1, k)
      BY <2>1, <2>5, <3>1, <3>2
    <3>4. QED
      BY <2>3, <3>3
  <2>9. QED
    BY <2>7, <2>8
<1>7. 0 .. n \subseteq S
  <2> HIDE DEF S, n
  <2>1. QED
    BY <1>1, <1>5, <1>6, UpToInduct
<1>8. f[n].src = m + 1 /\ f[n].dst = path
  <2>1. n \in S
    BY <1>1, <1>7
  <2>2. SubSeq(path, 1, n) = path
    BY <1>1
  <2>3. QED
    BY <1>1, <1>2, <2>1, <2>2
<1> DEFINE E == {k \in Nat : k >= n /\ k <= m => f[k].src = m + 1 /\ f[k].dst = path}
<1> HIDE DEF n
<1>9. 0 \in E
  BY <1>1, <1>8
<1>10. ASSUME NEW k \in 1 .. m, k - 1 \in E PROVE k \in E
  <2>1. CASE k <= n
    BY <1>1, <1>8, <2>1
  <2>2. CASE k > n
    <3>1. f[k - 1].src = m + 1 /\ f[k - 1].dst = path
      BY <1>1, <1>10, <2>2
    <3>2. f[k - 1].src > Len(uri)
      BY <1>1, <3>1 DEF m
    <3>3. f[k] = f[k - 1]
      BY <1>4, <3>2 DEF Iteration
    <3>4. QED
      BY <3>1, <3>3
  <2>3. QED
    BY <1>1, <2>1, <2>2
<1>11. 0 .. m \subseteq E
  <2> HIDE DEF E
  <2>1. QED
    BY <1>1, <1>9, <1>10, UpToInduct
<1>12. QED
  BY <1>1, <1>3, <1>11 DEF Decoded, f, m

LEMMA UnixPathIs ==
  ASSUME NEW uri \in Seq(Byte), NEW path \in Seq(Byte), IsFile(uri), Spells(uri, path)
  PROVE  path_URI_to_Unix(uri) = path
<1>1. Decoded(uri) = path
  BY LoopSpells
<1>2. \A i \in DOMAIN path : path[i] # 0
  BY DEF Spells
<1>3. CString(path) = path
  BY <1>2 DEF CString
<1>4. QED
  BY <1>1, <1>3 DEF path_URI_to_Unix

LEMMA NothingConverted == Converted(<<>>) = <<>>
<1> DEFINE T == {}
           p == [k \in DOMAIN <<>> |-> path_URI_to_Unix(<<>>[k].uri)]
           F == {k \in DOMAIN <<>> : path_URI_to_Unix(<<>>[k].uri) # NULL}
<1>1. p \in Seq(T) /\ Len(p) = 0
  OBVIOUS
<1>2. Converted(<<>>) = ElementsAt(p, F)
  BY DEF Converted
<1> HIDE DEF p, F, T
<1>3. \A k \in F \cap (1 .. Len(p)) : p[k] \in T
  BY <1>1
<1>4. ElementsAt(p, F) \in Seq(T)
  BY <1>1, <1>3, ElementsAtType
<1>5. QED
  BY <1>2, <1>4 DEF T

LEMMA ConvertedIsLocal ==
  ASSUME NEW files \in Answers \cup {<<>>}
  PROVE  Converted(files) = Local(files)
<1>1. \A k \in DOMAIN files : path_URI_to_Unix(files[k].uri) = files[k].path
  <2>1. SUFFICES ASSUME files \in Answers, NEW k \in DOMAIN files
                 PROVE  path_URI_to_Unix(files[k].uri) = files[k].path
    OBVIOUS
  <2>2. files[k].uri \in Seq(Byte)
    BY FileTypes
  <2>3. IF IsFile(files[k].uri)
        THEN files[k].path \in Seq(Byte) /\ Spells(files[k].uri, files[k].path)
        ELSE files[k].path = NULL
    BY <2>1, SpellingAssumption
  <2>4. QED
    BY <2>2, <2>3, UnixPathIs DEF path_URI_to_Unix
<1>2. [k \in DOMAIN files |-> path_URI_to_Unix(files[k].uri)] = [k \in DOMAIN files |-> files[k].path]
  BY <1>1
<1>3. {k \in DOMAIN files : path_URI_to_Unix(files[k].uri) # NULL} = {k \in DOMAIN files : files[k].path # NULL}
  BY <1>1
<1>4. QED
  BY <1>2, <1>3 DEF Converted, Local

(* What is returned is, in the order of the answer, a name or NULL for     *)
(* each local file chosen, or for the first, and each name is the path the *)
(* file has (src/wine_xdg_portal.c 172-183, 293-315, src/string_conv.c     *)
(* 122-163).                                                               *)
THEOREM ResultsAreTheFiles == Spec => []ResultMeans
<1>1. Init => ValueInv
  <2> SUFFICES ASSUME Init PROVE ValueInv
    OBVIOUS
  <2>1. answer = <<>> /\ result = <<>> /\ pc = "idle"
    BY DEF Init
  <2>2. Kept(answer) = <<>>
    BY <2>1, NothingConverted DEF Kept
  <2>3. AsKept(Len(Kept(answer)))
    BY <2>1, <2>2 DEF AsKept
  <2>4. QED
    BY <2>1, <2>3 DEF ValueInv
<1>2. HeapInv /\ ValueInv => ResultMeans
  <2> SUFFICES ASSUME HeapInv, ValueInv, pc = "idle", Kind # "open_native", err # 1
               PROVE  /\ Len(result) = IF Kind = "open_files" \/ Local(answer) = <<>>
                                       THEN Len(Local(answer)) ELSE 1
                      /\ \A k \in DOMAIN result : result[k] \in {Local(answer)[k], NULL}
    BY DEF ResultMeans, ValueInv
  <2>1. AsKept(Len(Kept(answer))) /\ answer \in Answers \cup {<<>>}
        /\ result \in Seq(Seq(Byte) \cup {NULL})
    BY DEF ValueInv, HeapInv, DataType
  <2>2. Converted(answer) = Local(answer) /\ Converted(answer) \in Seq(Seq(Byte))
    BY <2>1, ConvertedIsLocal, ConvertedType
  <2>3. /\ Len(Kept(answer)) = IF Kind = "open_files" \/ Local(answer) = <<>>
                               THEN Len(Local(answer)) ELSE 1
        /\ \A k \in DOMAIN Kept(answer) : Kept(answer)[k] = Local(answer)[k]
    BY <2>2 DEF Kept
  <2>4. DOMAIN result = 1 .. Len(Kept(answer)) /\ DOMAIN Kept(answer) = 1 .. Len(Kept(answer))
    BY <2>1, KeptType DEF AsKept
  <2>5. QED
    BY <2>1, <2>3, <2>4 DEF AsKept
<1>3. QED
  BY <1>1, <1>2, ValueStep, HeapAlways, PTL DEF Spec

=============================================================================
