----------------------------- MODULE MCFindLibc -----------------------------
(***************************************************************************)
(* Instances of FindLibc for TLC.  A libc takes 46 addresses: header,      *)
(* .dynsym and .dynstr, the text from 8, the loaded words from 36.         *)
(***************************************************************************)
EXTENDS FindLibc, TLC

CONSTANTS a, b, fsonly, other, negative, none, elf32

Hdr(type, alloc, offset) == [type |-> type, alloc |-> alloc, offset |-> offset, size |-> 1]
Sy(name, value)          == [name |-> name, value |-> value]
Load(disp)               == [op |-> "load", at |-> 0, disp |-> disp]
AddFs                    == [op |-> "fs", at |-> 7, disp |-> 0]

(* The usual libc: .strtab comes after .dynstr and is not loaded; syscall  *)
(* has two versions.  __errno_location is at 9, so a displacement of 24    *)
(* loads the word at 40.                                                   *)
Libc == [elf |-> TRUE,
         headers |-> <<Hdr("DYNSYM", TRUE, 1), Hdr("STRTAB", TRUE, 2), Hdr("STRTAB", FALSE, 3)>>,
         symbols |-> <<Sy("syscall", 30), Sy("other", 8), Sy("__errno_location", 9), Sy("syscall", 10)>>,
         code |-> <<Load(24), AddFs>>,
         words |-> 40 :> -8 @@ 41 :> 16 @@ 4 :> 24 @@ 42 :> 4096,
         errno |-> -8]

(* Another version of it; those whose __errno_location has the addition of *)
(* fs only, another load first, or a load from below; one that lacks it;   *)
(* and one whose section headers cannot be read as those of ELF64.         *)
MCFile ==
     a        :> Libc
  @@ b        :> [Libc EXCEPT !.symbols[4].value = 11, !.symbols[3].value = 10]
  @@ fsonly   :> [Libc EXCEPT !.code = <<AddFs>>]
  @@ other    :> [Libc EXCEPT !.code = <<Load(25), Load(24), AddFs>>]
  @@ negative :> [Libc EXCEPT !.code = <<Load(-12), AddFs>>]
  @@ none     :> [Libc EXCEPT !.symbols = SubSeq(@, 1, 2)]
  @@ elf32    :> [Libc EXCEPT !.headers = <<>>]

Ln(l, base, from, to, skew, perms) ==
  [lib |-> l, base |-> base, start |-> base + from, end |-> base + to,
   offset |-> from - skew, perms |-> perms, named |-> TRUE]

Copy(l, base) ==
  <<Ln(l, base, 0, 8, 0, {"r"}), Ln(l, base, 8, 24, 0, {"r", "x"}),
    Ln(l, base, 24, 28, 0, {"r"}), Ln(l, base, 36, 44, 8, {"r"}),
    Ln(l, base, 44, 46, 8, {"r", "w"})>>

(* The text in two pieces, with the functions in the first.                *)
Split(l, base) ==
  <<Ln(l, base, 0, 8, 0, {"r"}), Ln(l, base, 8, 20, 0, {"r", "x"}),
    Ln(l, base, 20, 24, 0, {"r", "x"}), Ln(l, base, 36, 44, 8, {"r"})>>

(* The text ends before syscall does.                                      *)
Short(l, base) ==
  <<Ln(l, base, 0, 8, 0, {"r"}), Ln(l, base, 8, 9, 0, {"r", "x"}), Ln(l, base, 36, 44, 8, {"r"})>>

(* Memory that is not the file's but bears its name, and other memory.     *)
Anon(base)  == [Ln(a, base, 0, 4, 0, {"r", "x"}) EXCEPT !.named = FALSE]
Alien(base) == [Ln(NULL, base, 0, 4, 0, {"r", "x"}) EXCEPT !.named = FALSE]

Same    == [l \in Libs |-> l]
Deleted == [l \in Libs |-> NULL]
Renewed == [l \in Libs |-> b]

MCTargets ==
  [lines : {Copy(l, 100) : l \in Libs}
             \cup {Copy(a, 100) \o Copy(a, 200), Copy(a, 100) \o Copy(b, 200),
                   <<Alien(50)>> \o Split(a, 100) \o <<Anon(150)>>, Short(a, 100)},
   disk : {Same, Deleted, Renewed}]

MCGarbageLocs ==
  {[start |-> 0, end |-> 0, offset |-> 0], [start |-> 90, end |-> 300, offset |-> 1]}
MCGarbageTables == {<<>>, <<Sy("syscall", 8), Sy("__errno_location", 24)>>}
MCGarbageCodes  == {<<>>, <<AddFs>>, <<Load(24)>>}
MCGarbageWords  == {0, -8, 7, 4096}

=============================================================================
