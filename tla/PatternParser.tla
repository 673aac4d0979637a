---------------------------- MODULE PatternParser ----------------------------
(***************************************************************************)
(* The pattern parser (src/pattern_parser.c) and the loop of portal.c that *)
(* drains it.  A filter of the caller holds its patterns in one string,    *)
(* separated by semicolons; each call of pattern_parser_next copies the    *)
(* next one into the buffer of the parser and returns it, and NULL ends    *)
(* the loop.  The string belongs to the caller and is of any length, the   *)
(* buffer is not.                                                          *)
(*                                                                         *)
(* A character is a member of Chars and Byte is what is left of it after   *)
(* pattern_parser_next_sym: all of a char, the lower byte of a wchar_t.    *)
(***************************************************************************)
EXTENDS Naturals, Sequences, SequencesExt

CONSTANTS
  Chars,    \* characters a pattern string consists of
  Byte,     \* the byte each of them is reduced to
  Sep, Nul, \* the bytes ';' and 0
  BufSize,  \* sizeof(parser->buf)
  MaxLen    \* the longest string

ASSUME ByteAssumption == DOMAIN Byte = Chars
ASSUME BufAssumption  == BufSize \in Nat \ {0, 1}
ASSUME LenAssumption  == MaxLen \in Nat

VARIABLES
  filter,    \* the caller's string
  pattern,   \* parser->pattern: what is left of it
  buf,       \* the bytes pattern_parser_next has stored, i = Len(buf)
  pc,        \* "call", inside a call ("read"), or the loop is over ("end")
  appended   \* the patterns portal.c has put into its request

vars == <<filter, pattern, buf, pc, appended>>

-----------------------------------------------------------------------------
WholeSym(c) == c   \* mutant: the wide character itself

(* pattern_parser_next_sym                                                 *)
Sym(c) == Byte[c]

(* What a reader of a C string sees of the bytes stored.                   *)
CString(b) ==
  LET k == SelectInSeq(b, LAMBDA x : x = Nul)
  IN  IF k = 0 THEN b ELSE SubSeq(b, 1, k - 1)

Init ==
  /\ filter \in BoundedSeq(Chars, MaxLen)
  /\ pattern  = filter
  /\ buf      = <<>>
  /\ pc       = "call"
  /\ appended = <<>>

FullOneLater == Len(buf) > BufSize - 1   \* mutant: no room for the terminator

(* if (i > sizeof(parser->buf) - 2)                                        *)
Full == Len(buf) > BufSize - 2

(* The terminator is stored, the call returns the buffer, portal.c copies  *)
(* it into the request.                                                    *)
Return ==
  /\ appended' = Append(appended, CString(buf))
  /\ pc' = "call"

NullIgnored == pc' = "call" /\ UNCHANGED appended   \* mutant: the loop calls again

ReturnNull == pc' = "end" /\ UNCHANGED appended

KeepsBuffer == UNCHANGED buf   \* mutant: i is not reset

Reset == buf' = <<>>

(* while ((pattern = pattern_parser_next(filter.pattern)))                 *)
Call ==
  /\ pc = "call"
  /\ Reset
  /\ IF pattern = <<>> THEN ReturnNull ELSE pc' = "read" /\ UNCHANGED appended
  /\ UNCHANGED <<filter, pattern>>

(* A separator ends the pattern, which may be empty.                       *)
Separator ==
  /\ pc = "read"
  /\ pattern # <<>>
  /\ Sym(Head(pattern)) = Sep
  /\ pattern' = Tail(pattern)
  /\ Return
  /\ UNCHANGED <<filter, buf>>

Store ==
  /\ pc = "read"
  /\ pattern # <<>>
  /\ Sym(Head(pattern)) # Sep
  /\ ~Full
  /\ pattern' = Tail(pattern)
  /\ buf' = Append(buf, Sym(Head(pattern)))
  /\ UNCHANGED <<filter, pc, appended>>

(* The pattern does not fit: the loop ends as if the string had.           *)
Overflow ==
  /\ pc = "read"
  /\ pattern # <<>>
  /\ Sym(Head(pattern)) # Sep
  /\ Full
  /\ pattern' = Tail(pattern)
  /\ ReturnNull
  /\ UNCHANGED <<filter, buf>>

EndOfString ==
  /\ pc = "read"
  /\ pattern = <<>>
  /\ IF buf # <<>> THEN Return ELSE ReturnNull
  /\ UNCHANGED <<filter, pattern, buf>>

Next == Call \/ Separator \/ Store \/ Overflow \/ EndOfString

Spec == Init /\ [][Next]_vars

(* The loop of portal.c goes on while it may.                              *)
FairSpec == Spec /\ WF_vars(Next)

-----------------------------------------------------------------------------
(* Types: what is left of the string is its end.                           *)
TypeOK ==
  /\ filter \in Seq(Chars)
  /\ IsSuffix(pattern, filter)
  /\ buf \in Seq({Byte[c] : c \in Chars})
  /\ pc \in {"call", "read", "end"}
  /\ appended \in Seq(Seq({Byte[c] : c \in Chars}))

(* Neither a byte nor the terminator, which goes to buf[i], is stored      *)
(* outside the buffer, however long the caller's pattern is.               *)
BufferInBounds == Len(buf) <= BufSize - 1

Bytes(s) == [i \in DOMAIN s |-> Byte[s[i]]]

(* The string split at its separators: the fields that have ended before   *)
(* the n-th byte or with it, and the field that has not.                   *)
WithByte(x, t) ==
  IF x = Sep THEN [fields |-> Append(t.fields, t.last), last |-> <<>>]
             ELSE [t EXCEPT !.last = Append(@, x)]

Split(b) ==
  LET upTo[n \in 0 .. Len(b)] ==
        IF n = 0 THEN [fields |-> <<>>, last |-> <<>>] ELSE WithByte(b[n], upTo[n - 1])
  IN  upTo

(* A separator at the end starts no further pattern.                       *)
AllFields(t) == IF t.last = <<>> THEN t.fields ELSE Append(t.fields, t.last)
Patterns(b)  == AllFields(Split(b)[Len(b)])

(* The patterns before the first that does not fit into the buffer.        *)
Fitting(fields) ==
  LET k == SelectInSeq(fields, LAMBDA f : Len(f) >= BufSize)
  IN  IF k = 0 THEN fields ELSE SubSeq(fields, 1, k - 1)

(* How C sees them.                                                        *)
Seen(fields) == [i \in DOMAIN fields |-> CString(fields[i])]

(* The request gets the patterns of the split string in order, empty ones  *)
(* included, each as C sees it, up to the first that does not fit into the *)
(* buffer; nothing is appended that is not one of them.                    *)
AppendsPatterns ==
  LET expected == Seen(Fitting(Patterns(Bytes(filter))))
  IN  /\ IsPrefix(appended, expected)
      /\ pc = "end" => appended = expected

(* The loop of portal.c over the patterns of a filter ends.                *)
LoopEnds == <>(pc = "end")

=============================================================================
