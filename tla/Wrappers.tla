------------------------------ MODULE Wrappers ------------------------------
(***************************************************************************)
(* The exported functions (src/wine_xdg_portal.c) around the dialogs of    *)
(* src/portal.c, with the conversions of src/string_conv.c: which memory a *)
(* call allocates with which allocator, on which way it is freed, what a   *)
(* request carries, and what the caller is left with.                      *)
(*                                                                         *)
(* Three allocators meet here.  Strings come from HeapAlloc, Wine's own    *)
(* conversions included; pattern parsers and the array of the paths        *)
(* selected come from malloc; messages belong to libdbus.  The caller owns *)
(* what a call returns and gives it back through wine_portal_free.         *)
(*                                                                         *)
(* Abstractions: the dialog is answered by the Response to its own request *)
(* (Portal is about when it is not) and its strings are converted whole;   *)
(* an argument is NULL, is not proper UTF ("bad"), is proper ("ok") or a   *)
(* link ("http"); a path is a sequence of bytes, and whether Wine has a    *)
(* DOS name for it a choice.  Memory does not run out.                     *)
(***************************************************************************)
EXTENDS Naturals, Sequences, FiniteSets, Selection

CONSTANTS
  MaxCalls,  \* how often the program calls
  Args,      \* the arguments it calls with
  Answers,   \* what the portal answers: the files chosen
  NULL       \* no string

Byte   == 0 .. 255
Given  == {"null", "bad", "ok", "http"}
Filter == [name : {"null", "bad", "ok"}, pattern : {"null", "ok"}]

ASSUME CallsAssumption == MaxCalls \in Nat
ASSUME ArgsAssumption ==
  Args \subseteq [dir : Given, name : Given, title : Given, filters : Seq(Filter)]
ASSUME AnswersAssumption ==
  /\ NULL \notin Seq(Byte)
  /\ Answers \subseteq Seq([uri : Seq(Byte), path : Seq(Byte) \cup {NULL}])

Entries ==
  {<<"utf8", "open_file">>,        <<"wide", "open_native">>, <<"utf8", "open_native">>,
   <<"wide", "save_file">>,        <<"utf8", "save_file">>,
   <<"wide", "choose_directory">>, <<"utf8", "choose_directory">>,
   <<"wide", "open_files">>,       <<"utf8", "open_files">>}

Ends == {"returned", "refused", "unopened", "unanswered"}
Way  == [kind : {e[2] : e \in Entries}, end : Ends]

VARIABLES
  pc,      \* where the call is
  call,    \* its number
  entry,   \* which function was called
  args,    \* its arguments
  ways,    \* of each call so far, what it was and where it ended
  next,    \* the filter or the path it has come to
  sent,    \* the filters its request carries
  answer,  \* the files that were chosen
  err,     \* what the function of portal.c returned
  result,  \* what was returned for each path
  live,    \* what is allocated
  bad,     \* what was freed twice or by the wrong function
  owned    \* what the caller has not given back yet

callVars == <<call, entry, args, ways>>
dataVars == <<next, sent, answer, err, result>>
heapVars == <<live, bad, owned>>
vars     == <<pc, callVars, dataVars, heapVars>>

Wide == entry[1] = "wide"
Kind == entry[2]

-----------------------------------------------------------------------------
(* Memory.                                                                 *)

Allocator ==
  [dir |-> "HeapAlloc", title |-> "HeapAlloc", name |-> "HeapAlloc", wide |-> "HeapAlloc",
   filter_name |-> "HeapAlloc", path |-> "HeapAlloc", out |-> "HeapAlloc",
   outs |-> "HeapAlloc", parser |-> "malloc", paths |-> "malloc", msg |-> "libdbus",
   reply |-> "libdbus", error |-> "libdbus", fd |-> "kernel"]

Roles  == DOMAIN Allocator
Block  == [call : Nat, role : Roles, i : Nat]
Of(role, i) == [call |-> call, role |-> role, i |-> i]

str_free(blocks)           == {<<b, "HeapAlloc">> : b \in blocks}
free(blocks)               == {<<b, "malloc">> : b \in blocks}
libdbus(blocks)            == {<<b, "libdbus">> : b \in blocks}   \* dbus_*_unref, dbus_error_free
close(blocks)              == {<<b, "kernel">> : b \in blocks}

(* A step allocates some blocks, then frees some; a pointer that is NULL   *)
(* is in neither set.                                                      *)
Memory(allocated, freed) ==
  /\ live' = (live \cup allocated) \ {f[1] : f \in freed}
  /\ bad'  = bad \cup {f \in freed : f[1] \notin live \cup allocated \/ Allocator[f[1].role] # f[2]}

Goto(l) == pc' = l

(* The call takes one of the ways out that are told apart.                 *)
EndsAs(end) ==
  /\ ways' = [ways EXCEPT ![call].end = end]
  /\ UNCHANGED <<call, entry, args>>

-----------------------------------------------------------------------------
(* path_URI_to_Unix.                                                       *)

FileScheme == <<102, 105, 108, 101, 58, 47, 47>>   \* "file://"

IsFile(uri) == Len(uri) >= 7 /\ SubSeq(uri, 1, 7) = FileScheme

(* isxdigit, and the value strtol(..., 16) gives a digit.                  *)
Digit ==
  [c \in (48 .. 57) \cup (65 .. 70) \cup (97 .. 102) |->
     IF c <= 57 THEN c - 48 ELSE IF c <= 70 THEN c - 55 ELSE c - 87]

Escape(s, k) ==
  /\ k + 2 <= Len(s)
  /\ s[k] = 37
  /\ s[k + 1] \in DOMAIN Digit
  /\ s[k + 2] \in DOMAIN Digit

Unescaped(s, k) == 16 * Digit[s[k + 1]] + Digit[s[k + 2]]

(* A URI spells a path if it can be cut, after the scheme, into one piece  *)
(* for each byte: an escape, or the byte itself.  The portal's URIs spell  *)
(* the paths of the files chosen, which have no NUL in them.               *)
Spells(uri, path) ==
  \E at \in [1 .. (Len(path) + 1) -> 8 .. (Len(uri) + 1)] :
    /\ at[1] = 8 /\ at[Len(path) + 1] = Len(uri) + 1
    /\ \A i \in DOMAIN path :
         /\ path[i] # 0
         /\ \/ Escape(uri, at[i]) /\ path[i] = Unescaped(uri, at[i]) /\ at[i + 1] = at[i] + 3
            \/ ~Escape(uri, at[i]) /\ path[i] = uri[at[i]] /\ at[i + 1] = at[i] + 1

ASSUME SpellingAssumption ==
  \A files \in Answers : \A k \in DOMAIN files :
    IF IsFile(files[k].uri)
    THEN files[k].path \in Seq(Byte) /\ Spells(files[k].uri, files[k].path)
    ELSE files[k].path = NULL

StoredTwice(uri, t) ==   \* mutant: src += 1
  IF t.src > Len(uri) THEN t
  ELSE IF Escape(uri, t.src) THEN [src |-> t.src + 2, dst |-> Append(t.dst, Unescaped(uri, t.src))]
  ELSE [src |-> t.src + 1, dst |-> Append(t.dst, uri[t.src])]

(* One iteration stores one byte.                                          *)
Iteration(uri, t) ==
  IF t.src > Len(uri) THEN t
  ELSE IF Escape(uri, t.src) THEN [src |-> t.src + 3, dst |-> Append(t.dst, Unescaped(uri, t.src))]
  ELSE [src |-> t.src + 1, dst |-> Append(t.dst, uri[t.src])]

FromStart == [src |-> 1, dst |-> <<>>]   \* mutant: src = uri

AfterScheme == [src |-> 8, dst |-> <<>>]

(* The loop after n iterations, and what it has stored in the end.         *)
Loop(uri) ==
  LET after[n \in 0 .. Len(uri)] == IF n = 0 THEN AfterScheme ELSE Iteration(uri, after[n - 1])
  IN  after

Decoded(uri) == Loop(uri)[Len(uri)].dst

(* What its readers see of the string stored: it ends at the first NUL.    *)
CString(s) ==
  IF \E k \in DOMAIN s : s[k] = 0
  THEN SubSeq(s, 1, (CHOOSE k \in DOMAIN s : s[k] = 0 /\ \A j \in 1 .. (k - 1) : s[j] # 0) - 1)
  ELSE s

path_URI_to_Unix(uri) == IF IsFile(uri) THEN CString(Decoded(uri)) ELSE NULL

(* The paths of an answer, and those a filter function keeps of them.      *)
Converted(files) ==
  ElementsAt([k \in DOMAIN files |-> path_URI_to_Unix(files[k].uri)],
             {k \in DOMAIN files : path_URI_to_Unix(files[k].uri) # NULL})

Kept(files) ==
  IF Kind = "open_files" \/ Converted(files) = <<>> THEN Converted(files)
  ELSE <<Head(Converted(files))>>

-----------------------------------------------------------------------------
Init ==
  /\ pc = "idle"
  /\ call = 0
  /\ entry = <<"utf8", "open_file">>
  /\ args \in Args
  /\ ways = <<>>
  /\ next = 1
  /\ sent = <<>>
  /\ answer = <<>>
  /\ err = 0
  /\ result = <<>>
  /\ live = {}
  /\ bad = {}
  /\ owned = {}

(* The program calls one of the functions.                                 *)
Call(e, a) ==
  /\ pc = "idle"
  /\ call < MaxCalls
  /\ a.dir = "http" => e = <<"utf8", "open_native">>
  /\ call' = call + 1
  /\ entry' = e
  /\ args' = a
  /\ ways' = Append(ways, [kind |-> e[2], end |-> "returned"])
  /\ next' = 1
  /\ sent' = <<>>
  /\ answer' = <<>>
  /\ err' = 0
  /\ result' = <<>>
  /\ Goto(IF e[2] = "open_native" THEN "native" ELSE "convert")
  /\ UNCHANGED heapVars

(* What the call converts: the directory; the title, as if it were a path; *)
(* and the default name, unless it is UTF-8 already.                       *)
ArgBlocks ==
  {Of(r, 0) : r \in
     {r \in {"dir", "title", "name"} :
        /\ args[r] = "ok"
        /\ r = "title" => Kind = "choose_directory"
        /\ r = "name"  => Kind = "save_file" /\ Wide}}

ConvertArgs ==
  /\ pc = "convert"
  /\ Memory(ArgBlocks, {})
  /\ Goto("connect")
  /\ UNCHANGED <<callVars, dataVars, owned>>

(* dbus_init found no session bus.                                         *)
NoConnection ==
  /\ pc = "connect"
  /\ err' = 1
  /\ Goto("cleanup")
  /\ UNCHANGED <<callVars, next, sent, answer, result, heapVars>>

(* libdbus ends the process over a string that is not UTF-8, unless it was *)
(* built without its checks or told not to: the default name of a UTF-8    *)
(* caller goes into the request as it is.                                  *)
NameFaults ==
  /\ pc = "connect"
  /\ Kind = "save_file" /\ ~Wide
  /\ args.name = "bad"
  /\ Goto("crashed")
  /\ UNCHANGED <<callVars, dataVars, heapVars>>

NewRequest ==
  /\ pc = "connect"
  /\ Memory({Of("msg", 0)}, {})
  /\ Goto(IF Kind = "choose_directory" THEN "send" ELSE "filters")
  /\ UNCHANGED <<callVars, dataVars, owned>>

(* make_utf8_pattern_parser and make_wide_pattern_parser.  A UTF-8 name is *)
(* copied as it is, a wide one converted; there is always a parser.        *)
HasName(f) == f.name = "ok" \/ (f.name = "bad" /\ ~Wide)

NameBlocks == IF HasName(args.filters[next]) THEN {Of("filter_name", next)} ELSE {}

MakeFilter ==
  /\ pc = "filters"
  /\ next <= Len(args.filters)
  /\ Memory(NameBlocks \cup {Of("parser", next)}, {})
  /\ Goto("append")
  /\ UNCHANGED <<callVars, dataVars, owned>>

AppendNameless ==   \* mutant: a filter without a name is not left out
  /\ pc = "append"
  /\ NameBlocks = {} \/ args.filters[next].pattern = "ok"
  /\ sent' = Append(sent, args.filters[next])
  /\ Memory({}, str_free(NameBlocks) \cup free({Of("parser", next)}))
  /\ next' = next + 1
  /\ Goto("filters")
  /\ UNCHANGED <<callVars, answer, err, result, owned>>

(* A filter without a name is left out; one without a pattern is not,      *)
(* because its parser is not NULL.                                         *)
AppendFilter ==
  /\ pc = "append"
  /\ NameBlocks = {} \/ args.filters[next].pattern = "ok"
  /\ sent' = IF NameBlocks = {} THEN sent ELSE Append(sent, args.filters[next])
  /\ Memory({}, str_free(NameBlocks) \cup free({Of("parser", next)}))
  /\ next' = next + 1
  /\ Goto("filters")
  /\ UNCHANGED <<callVars, answer, err, result, owned>>

(* libdbus ends the process over the name of a UTF-8 caller, as above, or  *)
(* pattern_parser_next reads the string there is not.                      *)
AppendFaults ==
  /\ pc = "append"
  /\ NameBlocks # {}
  /\ args.filters[next].name = "bad" \/ args.filters[next].pattern = "null"
  /\ Goto("crashed")
  /\ UNCHANGED <<callVars, dataVars, heapVars>>

FiltersDone ==
  /\ pc = "filters"
  /\ next > Len(args.filters)
  /\ Goto("send")
  /\ UNCHANGED <<callVars, dataVars, heapVars>>

RefusedKeepsMessage ==   \* mutant: every dialog returns before it drops its message
  /\ pc = "send"
  /\ Memory({Of("error", 0)}, libdbus({Of("error", 0)}))
  /\ err' = 1
  /\ EndsAs("refused")
  /\ Goto("cleanup")
  /\ UNCHANGED <<next, sent, answer, result, owned>>

(* The method call fails.  portal_choose_directory returns before it drops *)
(* its message, the other functions after.                                 *)
Refused ==
  /\ pc = "send"
  /\ Memory({Of("error", 0)},
            libdbus({Of("error", 0)} \cup
                    IF Kind = "choose_directory" THEN {} ELSE {Of("msg", 0)}))
  /\ err' = 1
  /\ EndsAs("refused")
  /\ Goto("cleanup")
  /\ UNCHANGED <<next, sent, answer, result, owned>>

Accepted ==
  /\ pc = "send"
  /\ Memory({Of("reply", 0)}, libdbus({Of("msg", 0), Of("reply", 0)}))
  /\ Goto("wait")
  /\ UNCHANGED <<callVars, dataVars, owned>>

PathBlocks(kept)  == {Of("path", k) : k \in DOMAIN kept}
ArrayBlocks(kept) == IF Kind = "open_files" /\ kept # <<>> THEN {Of("paths", 0)} ELSE {}

(* The loop ends with the answer in the context: the files chosen, or none *)
(* for a dialog that was cancelled or a connection that was lost.  An      *)
(* array that stayed empty is freed at once.                               *)
Answered(files) ==
  /\ pc = "wait"
  /\ answer' = files
  /\ Memory(PathBlocks(Kept(files)) \cup ArrayBlocks(Kept(files)), {})
  /\ Goto("cleanup")
  /\ UNCHANGED <<callVars, next, sent, err, result, owned>>

(* Back in the exported function: the arguments converted are freed, and a *)
(* failure is returned with NULL.                                          *)
CleanupFails ==
  /\ pc = "cleanup"
  /\ err = 1
  /\ Memory({}, str_free(ArgBlocks))
  /\ Goto("idle")
  /\ UNCHANGED <<callVars, dataVars, owned>>

OutsBlocks ==
  IF Kind = "open_files" /\ Kept(answer) # <<>> THEN {Of("outs", 0)} ELSE {}

CleanupFromZero ==   \* mutant: the paths are counted from 0
  /\ pc = "cleanup"
  /\ err = 0
  /\ Memory(OutsBlocks, str_free(ArgBlocks))
  /\ next' = 0
  /\ Goto("paths")
  /\ UNCHANGED <<callVars, sent, answer, err, result, owned>>

Cleanup ==
  /\ pc = "cleanup"
  /\ err = 0
  /\ Memory(OutsBlocks, str_free(ArgBlocks))
  /\ next' = 1
  /\ Goto("paths")
  /\ UNCHANGED <<callVars, sent, answer, err, result, owned>>

WideBlocks == IF Wide THEN {} ELSE {Of("wide", next)}

(* path_Unix_to_WinW and path_Unix_to_WinA: Wine has no DOS name for the   *)
(* path; it has one that is not UTF-16 proper; or the caller gets it.      *)
ConvertPath(outcome) ==
  /\ pc = "paths"
  /\ next <= Len(Kept(answer))
  /\ outcome = "not_utf16" => ~Wide
  /\ result' = Append(result, IF outcome = "named" THEN Kept(answer)[next] ELSE NULL)
  /\ Memory((IF outcome = "named" THEN {Of("out", next)} ELSE {})
              \cup (IF outcome = "nameless" THEN {} ELSE WideBlocks),
            str_free({Of("path", next)}
              \cup (IF outcome = "nameless" THEN {} ELSE WideBlocks)))
  /\ next' = next + 1
  /\ UNCHANGED <<pc, callVars, sent, answer, err, owned>>

ReturnFreesArray ==   \* mutant: the array of the paths is freed as a string
  /\ pc = "paths"
  /\ next > Len(Kept(answer))
  /\ Memory({}, str_free(ArrayBlocks(Kept(answer))))
  /\ owned' = owned \cup OutsBlocks \cup {Of("out", k) : k \in {k \in DOMAIN result : result[k] # NULL}}
  /\ Goto("idle")
  /\ UNCHANGED <<callVars, dataVars>>

Return ==
  /\ pc = "paths"
  /\ next > Len(Kept(answer))
  /\ Memory({}, free(ArrayBlocks(Kept(answer))))
  /\ owned' = owned \cup OutsBlocks \cup {Of("out", k) : k \in {k \in DOMAIN result : result[k] # NULL}}
  /\ Goto("idle")
  /\ UNCHANGED <<callVars, dataVars>>

-----------------------------------------------------------------------------
(* wine_portal_wide_open_native_for, which does nothing, and               *)
(* portal_open_native_for.                                                 *)

(* There is no bus, or no path for the name.                               *)
NativeFails ==
  /\ pc = "native"
  /\ err' = 1
  /\ Goto("idle")
  /\ UNCHANGED <<callVars, next, sent, answer, result, heapVars>>

NativeFaults ==
  /\ pc = "native"
  /\ ~Wide
  /\ args.dir = "null"
  /\ Goto("crashed")
  /\ UNCHANGED <<callVars, dataVars, heapVars>>

NativeRequest ==
  /\ pc = "native"
  /\ ~Wide
  /\ args.dir \in {"ok", "http"}
  /\ Memory({Of("msg", 0)} \cup (IF args.dir = "ok" THEN {Of("dir", 0)} ELSE {}), {})
  /\ Goto(IF args.dir = "ok" THEN "open" ELSE "native_send")
  /\ UNCHANGED <<callVars, dataVars, owned>>

(* The path opens, as a directory or as a file: its descriptor goes into   *)
(* the message as a copy.                                                  *)
NativeOpen ==
  /\ pc = "open"
  /\ Memory({Of("fd", 0)}, str_free({Of("dir", 0)}) \cup close({Of("fd", 0)}))
  /\ Goto("native_send")
  /\ UNCHANGED <<callVars, dataVars, owned>>

NativeOpenFails ==
  /\ pc = "open"
  /\ Memory({}, str_free({Of("dir", 0)}))
  /\ err' = 1
  /\ EndsAs("unopened")
  /\ Goto("idle")
  /\ UNCHANGED <<next, sent, answer, result, owned>>

(* 0 is returned either way, and the error is not freed.                   *)
NativeSent(role) ==
  /\ pc = "native_send"
  /\ Memory({Of(role, 0)},
            libdbus({Of("msg", 0)} \cup (IF role = "reply" THEN {Of("reply", 0)} ELSE {})))
  /\ EndsAs(IF role = "reply" THEN "returned" ELSE "unanswered")
  /\ Goto("idle")
  /\ UNCHANGED <<dataVars, owned>>

-----------------------------------------------------------------------------
(* The caller gives a block back: wine_portal_free is free() whatever the  *)
(* block came from.                                                        *)
wine_portal_free(b) ==
  /\ pc = "idle"
  /\ b \in owned
  /\ Memory({}, free({b}))
  /\ owned' = owned \ {b}
  /\ UNCHANGED <<pc, callVars, dataVars>>

Next ==
  \/ \E e \in Entries, a \in Args : Call(e, a)
  \/ ConvertArgs \/ NoConnection \/ NameFaults \/ NewRequest
  \/ MakeFilter \/ AppendFilter \/ AppendFaults \/ FiltersDone
  \/ Refused \/ Accepted
  \/ \E files \in Answers : Answered(files)
  \/ CleanupFails \/ Cleanup
  \/ \E outcome \in {"nameless", "not_utf16", "named"} : ConvertPath(outcome)
  \/ Return
  \/ NativeFails \/ NativeFaults \/ NativeRequest \/ NativeOpen \/ NativeOpenFails
  \/ \E role \in {"reply", "error"} : NativeSent(role)
  \/ \E b \in owned : wine_portal_free(b)

Spec == Init /\ [][Next]_vars

-----------------------------------------------------------------------------
(* The state has the shape the declarations say; in particular a filter is *)
(* made only of one there is (src/portal.c 258, wine_xdg_portal.c 308).    *)
TypeOK ==
  /\ pc \in {"idle", "convert", "connect", "filters", "append", "send", "wait", "cleanup",
             "paths", "native", "open", "native_send", "crashed"}
  /\ call \in Nat
  /\ entry \in Entries
  /\ args \in Args
  /\ ways \in Seq(Way) /\ Len(ways) = call
  /\ next \in Nat \ {0}
  /\ pc = "append" => next \in DOMAIN args.filters
  /\ sent \in Seq(Filter)
  /\ answer \in Answers \cup {<<>>}
  /\ err \in {0, 1}
  /\ result \in Seq(Seq(Byte) \cup {NULL})
  /\ live \subseteq Block
  /\ bad \subseteq Block \X {"HeapAlloc", "malloc", "libdbus", "kernel"}
  /\ owned \subseteq Block

(* What the library frees on its own account, it frees once and with the   *)
(* function of the allocator it came from.  wine_portal_free is excepted:  *)
(* it gives the strings it takes back, which came from HeapAlloc, to       *)
(* free() (src/wine_xdg_portal.c 134).                                     *)
LibraryFreesRight ==
  \A f \in bad : f[2] = "malloc" /\ f[1].role \in {"out", "outs"} /\ f[1] \notin live \cup owned

(* Between two calls what the caller owns is still there, and nothing else *)
(* is held, apart from the three leaks the code has, each on its one way   *)
(* out of its one function: the message of open_native_for when the path   *)
(* does not open (src/portal.c 100), its error when there is no reply      *)
(* (115), and the message of choose_directory when it is refused (542).    *)
Leaks ==
  {<<"open_native", "unopened", "msg">>,
   <<"open_native", "unanswered", "error">>,
   <<"choose_directory", "refused", "msg">>}

Leaked(w, b) ==
  b.i = 0 /\ b.call \in DOMAIN w /\ <<w[b.call].kind, w[b.call].end, b.role>> \in Leaks

NothingLost ==
  pc = "idle" =>
    /\ owned \subseteq live
    /\ \A b \in live \ owned : Leaked(ways, b)

(* What a call leaves its caller with: on an error nothing; on success one *)
(* string for each local file that was chosen, or for the first, in their  *)
(* order and spelt as the file is, NULL standing for a file without a DOS  *)
(* name; nothing when none was local or the dialog was cancelled           *)
(* (src/wine_xdg_portal.c 172-183, 293-315, src/string_conv.c 122-163).    *)
Local(files) ==
  ElementsAt([k \in DOMAIN files |-> files[k].path], {k \in DOMAIN files : files[k].path # NULL})

ResultMeans ==
  pc = "idle" /\ Kind # "open_native" =>
    IF err = 1 THEN result = <<>>
    ELSE /\ Len(result) = IF Kind = "open_files" \/ Local(answer) = <<>>
                          THEN Len(Local(answer)) ELSE 1
         /\ \A k \in DOMAIN result : result[k] \in {Local(answer)[k], NULL}

(* The path and its NUL fit the block, which is as long as the URI: the    *)
(* scheme that is not copied pays for the NUL (src/string_conv.c 130).     *)
DecodedFits ==
  \A k \in DOMAIN answer :
    IsFile(answer[k].uri) => Len(Decoded(answer[k].uri)) + 1 <= Len(answer[k].uri)

(* A request carries the filters that have a name, every one and in their  *)
(* order (src/portal.c 258-289).                                           *)
HasGoodName(f) == f.name \in (IF Wide THEN {"ok"} ELSE {"ok", "bad"})
FiltersSent ==
  pc = "send" /\ Kind # "choose_directory" =>
    sent = ElementsAt(args.filters, {k \in DOMAIN args.filters : HasGoodName(args.filters[k])})

=============================================================================
