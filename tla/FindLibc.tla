------------------------------ MODULE FindLibc ------------------------------
(***************************************************************************)
(* find_libc (src/recon.c): out of /proc/<pid>/maps, /proc/<pid>/mem and   *)
(* the file libc.so.6 on disk it computes the addresses of syscall and     *)
(* __errno_location in a process, and the offset of errno from fs.         *)
(*                                                                         *)
(* The maps are read line by line, the memory in several reads; the        *)
(* process may end between any two of them, which cuts the maps short and  *)
(* makes every later read fail.  More than one file may have libc.so.6 in  *)
(* its name, a file may be mapped more than once, its text in several      *)
(* pieces, and what is on disk under a path need not be what is mapped.    *)
(*                                                                         *)
(* Abstractions: a file is what find_libc looks at of it (section headers, *)
(* dynamic symbols, the loads in the code of __errno_location, the words   *)
(* they load); memory is the file offset some line of the maps shows at an *)
(* address.  Tables, code and words read from anywhere else are garbage,   *)
(* a choice among the values of a constant.  Any read may fail.            *)
(***************************************************************************)
EXTENDS Integers, Sequences, FiniteSets

CONSTANTS
  Libs,           \* the files with libc.so.6 in their names
  File,           \* what is in each
  Targets,        \* the processes find_libc may be asked to look at
  InitialSize,    \* the capacity sections_init allocates
  Wrap,           \* displacements are taken modulo this
  GarbageLocs,    \* what xloc may hold before it is set
  GarbageTables,  \* what may be read for a symbol table,
  GarbageCodes,   \* for the code of __errno_location,
  GarbageWords,   \* and for the errno offset
  NULL            \* no file

Line ==
  [lib : Libs \cup {NULL}, base : Nat, start : Nat, end : Nat, offset : Nat,
   perms : SUBSET {"r", "w", "x"}, named : BOOLEAN]
Loc  == [start : Nat, end : Nat, offset : Nat]
Header == [type : {"DYNSYM", "STRTAB"}, alloc : BOOLEAN, offset : Nat, size : Nat \ {0}]
Symbol == [name : {"__errno_location", "syscall", "other"}, value : Nat]
Instruction == [op : {"load", "fs"}, at : Nat, disp : Int]

ASSUME FileAssumption ==
  /\ NULL \notin Libs
  /\ \A l \in Libs :
       /\ File[l].elf \in BOOLEAN
       /\ File[l].headers \in Seq(Header)
       /\ File[l].symbols \in Seq(Symbol)
       /\ File[l].code \in Seq(Instruction)
       /\ File[l].words \in [DOMAIN File[l].words -> Int]
       /\ File[l].errno \in Int

ASSUME GarbageAssumption ==
  /\ GarbageLocs \subseteq Loc
  /\ GarbageTables \subseteq Seq(Symbol)
  /\ GarbageCodes \subseteq Seq(Instruction)
  /\ GarbageWords \subseteq Int

ASSUME SizeAssumption == InitialSize \in Nat \ {0} /\ Wrap \in Nat \ {0}

(* The name libc.so.6 is in a line, with a path or without: [anon:...].    *)
Shows(e)      == e.lib # NULL
Listed(e)     == Shows(e) /\ e.named
Executable(e) == Listed(e) /\ "x" \in e.perms

(* Where in a file are the functions find_libc looks up, and its words.    *)
Image(l) ==
  {File[l].symbols[k].value : k \in {k \in DOMAIN File[l].symbols : File[l].symbols[k].name # "other"}}
    \cup DOMAIN File[l].words

(* A process maps a libc somewhere executable, does not map two things at  *)
(* one address nor anything at address 0, shows the text of a file where   *)
(* the link editor put it (its address relative to the base is its offset  *)
(* in the file), and nothing else in the midst of a file's image.          *)
ASSUME TargetAssumption ==
  \A t \in Targets :
    /\ t.lines \in Seq(Line)
    /\ t.disk \in [Libs -> Libs \cup {NULL}]
    /\ \E i \in DOMAIN t.lines : Executable(t.lines[i])
    /\ \A i \in DOMAIN t.lines :
         /\ t.lines[i].start # 0
         /\ Executable(t.lines[i]) => t.lines[i].start = t.lines[i].base + t.lines[i].offset
    /\ \A i, j \in DOMAIN t.lines :
         i # j => t.lines[i].end <= t.lines[j].start \/ t.lines[j].end <= t.lines[i].start
    /\ \A i, j \in DOMAIN t.lines :
         Executable(t.lines[i]) =>
           \A v \in Image(t.lines[i].lib) :
             t.lines[j].start <= t.lines[i].base + v /\ t.lines[i].base + v < t.lines[j].end
               => t.lines[j].lib = t.lines[i].lib /\ t.lines[j].base = t.lines[i].base

VARIABLES
  pc,        \* where find_libc is
  target,    \* the process: its maps, and the files its paths lead to
  alive,     \* it has not ended
  unread,    \* the next line of /proc/<pid>/maps
  elfloc,    \* where the ELF header is
  libcPath,  \* the file it is of
  xloc,      \* the executable mapping
  sections,  \* the read-only mappings
  capacity,  \* the allocated size of that array
  shdrs,     \* the file whose section headers it has
  sym,       \* the place sym_table was read from
  str,       \* the place str_table was read from
  code,      \* the code of __errno_location
  ret,       \* struct LibcFunctions
  held       \* what is allocated or open

mapVars    == <<unread, elfloc, libcPath, xloc, sections, capacity>>
tableVars  == <<shdrs, sym, str>>
vars == <<pc, target, alive, mapVars, tableVars, code, ret, held>>

NoFunctions == [syscall |-> 0, errno_location |-> 0, errno_fs_offset |-> 0]

(* wine_portal_init: if (!libc.syscall || !libc.errno_location || ...)     *)
IgnoresOffset == ret.syscall # 0 /\ ret.errno_location # 0   \* mutant: two fields tested

Accepted ==
  /\ ret.syscall # 0
  /\ ret.errno_location # 0
  /\ ret.errno_fs_offset # 0

Init ==
  /\ pc = "open"
  /\ target \in Targets
  /\ alive = TRUE
  /\ unread = 1
  /\ elfloc = 0
  /\ libcPath = NULL
  /\ xloc \in GarbageLocs
  /\ sections = <<>>
  /\ capacity = 0
  /\ shdrs = NULL
  /\ sym = <<>>
  /\ str = <<>>
  /\ code = <<>>
  /\ ret = NoFunctions
  /\ held = {}

-----------------------------------------------------------------------------
(* The maps.                                                               *)

OpenMaps ==
  /\ pc = "open"
  /\ alive
  /\ pc' = "maps"
  /\ capacity' = InitialSize
  /\ held' = {"iter", "sections"}
  /\ UNCHANGED <<target, alive, unread, elfloc, libcPath, xloc, sections,
                 tableVars, code, ret>>

OpenMapsFails ==
  /\ pc = "open"
  /\ pc' = "done"
  /\ UNCHANGED <<target, alive, mapVars, tableVars, code, ret, held>>

(* procfs_map_iter_next returns the next line that mentions libc.so.6.     *)
NextLine(i) ==
  /\ i \in unread .. Len(target.lines)
  /\ Shows(target.lines[i])
  /\ \A j \in unread .. (i - 1) : ~Shows(target.lines[j])

LocOf(e) == [start |-> e.start, end |-> e.end, offset |-> e.offset]

(* The line the ELF header is in; the last one that begins the file.       *)
SetElf(e) ==
  IF e.offset = 0 THEN elfloc' = e.start /\ libcPath' = e.lib
                  ELSE UNCHANGED <<elfloc, libcPath>>

FirstXloc(e) ==   \* mutant: the first executable line is kept
  IF "x" \in e.perms /\ xloc.start = 0 THEN xloc' = LocOf(e) ELSE UNCHANGED xloc

SetXloc(e) ==
  IF "x" \in e.perms THEN xloc' = LocOf(e) ELSE UNCHANGED xloc

FullTooLate == Len(sections) > capacity   \* mutant: > for >=

Full == Len(sections) >= capacity

(* sections_add, for what is mapped for reading only.                      *)
SectionsAdd(e) ==
  /\ sections' = Append(sections, LocOf(e))
  /\ capacity' = IF Full THEN capacity * 2 ELSE capacity

AddSection(e) ==
  IF e.perms = {"r"} THEN SectionsAdd(e) ELSE UNCHANGED <<sections, capacity>>

ReadLine(i) ==
  /\ pc = "maps"
  /\ alive
  /\ NextLine(i)
  /\ unread' = i + 1
  /\ IF target.lines[i].named
       THEN SetElf(target.lines[i]) /\ SetXloc(target.lines[i]) /\ AddSection(target.lines[i])
       ELSE UNCHANGED <<elfloc, libcPath, xloc, sections, capacity>>
  /\ UNCHANGED <<pc, target, alive, tableVars, code, ret, held>>

(* The end of the file: of the maps, or of the process.                    *)
EndOfMaps == ~alive \/ \A j \in unread .. Len(target.lines) : ~Shows(target.lines[j])

(* if (!elfloc || !xloc.start || !xloc.end)                                *)
Located == elfloc # 0 /\ xloc.start # 0 /\ xloc.end # 0

NotLocated ==
  /\ pc = "maps"
  /\ EndOfMaps
  /\ ~Located
  /\ pc' = "done"
  /\ held' = held \ {"iter", "sections"}
  /\ UNCHANGED <<target, alive, mapVars, tableVars, code, ret>>

MapsRead ==
  /\ pc = "maps"
  /\ EndOfMaps
  /\ Located
  /\ pc' = "mem"
  /\ held' = held \ {"iter"}
  /\ UNCHANGED <<target, alive, mapVars, tableVars, code, ret>>

-----------------------------------------------------------------------------
(* The memory, and the file on disk.                                       *)

(* The lines at an address, and the offset of the file they show there.    *)
MappedAt(a)      == {i \in DOMAIN target.lines :
                       target.lines[i].start <= a /\ a < target.lines[i].end}
FileOffset(i, a) == a - target.lines[i].start + target.lines[i].offset

(* /proc/<pid>/mem can be read while the process lives.                    *)
Reads(l, a) == pc = l /\ alive /\ MappedAt(a) # {}

(* Every step from here may fail and go to fini, with what it has so far.  *)
Fails(more) ==
  /\ pc' = "fini"
  /\ held' = held \cup more
  /\ UNCHANGED <<target, alive, mapVars, tableVars, code, ret>>

(* /proc/<pid>/mem of a process that has ended can be opened or not.       *)
OpenMem ==
  /\ pc = "mem"
  /\ pc' = "header"
  /\ held' = held \cup {"ram"}
  /\ UNCHANGED <<target, alive, mapVars, tableVars, code, ret>>

ReadFails ==
  /\ pc \in {"mem", "header", "code", "offset"}
  /\ Fails({})

(* The ELF header, and memory for the section headers it announces.        *)
ReadHeader ==
  /\ Reads("header", elfloc)
  /\ \E i \in MappedAt(elfloc) : Shows(target.lines[i]) /\ File[target.lines[i].lib].elf
  /\ pc' = "disk"
  /\ held' = held \cup {"shdrs"}
  /\ UNCHANGED <<target, alive, mapVars, tableVars, code, ret>>

(* They are read from the file under libcPath now, from the place and in   *)
(* the number that the header in memory tells: of another file that is     *)
(* garbage, a choice among the section headers of all the files.           *)
ReadSectionHeaders ==
  /\ pc = "disk"
  /\ target.disk[libcPath] # NULL
  /\ pc' = "tables"
  /\ shdrs' \in IF target.disk[libcPath] = libcPath THEN {libcPath} ELSE Libs
  /\ UNCHANGED <<target, alive, mapVars, sym, str, code, ret, held>>

ReadSectionHeadersFails ==
  /\ pc = "disk"
  /\ Fails({})

(* The last allocated section header of a type.                            *)
OfType(h, type) == h.alloc /\ h.type = type

Table(l, type) ==
  {File[l].headers[i] : i \in
    {i \in DOMAIN File[l].headers :
       /\ OfType(File[l].headers[i], type)
       /\ \A j \in (i + 1) .. Len(File[l].headers) : ~OfType(File[l].headers[j], type)}}

(* sections_find: the first read-only mapping that has all of a section.   *)
Covers(s, h) ==
  s.offset <= h.offset /\ h.offset + h.size <= s.offset + (s.end - s.start)

SectionsFind(h) ==
  {sections[i] : i \in
    {i \in DOMAIN sections : Covers(sections[i], h) /\ \A j \in 1 .. (i - 1) : ~Covers(sections[j], h)}}

(* Where a section is in memory.                                           *)
AddressOf(s, h) == s.start + (h.offset - s.offset)

Place(i, a) == <<target.lines[i].lib, FileOffset(i, a)>>

(* Both sections have to be mapped before either is read.                  *)
BothMapped ==
  \A type \in {"DYNSYM", "STRTAB"} : \E h \in Table(shdrs, type) : SectionsFind(h) # {}

(* A section is read from the memory it is mapped to.                      *)
ReadTable(l, type) ==
  \E h \in Table(shdrs, type) : \E s \in SectionsFind(h) :
    /\ Reads(l, AddressOf(s, h))
    /\ \E i \in MappedAt(AddressOf(s, h)) :
         IF type = "DYNSYM" THEN sym' = Place(i, AddressOf(s, h)) /\ UNCHANGED str
                            ELSE str' = Place(i, AddressOf(s, h)) /\ UNCHANGED sym

ReadDynsym ==
  /\ pc = "tables"
  /\ BothMapped
  /\ ReadTable("tables", "DYNSYM")
  /\ pc' = "strings"
  /\ held' = held \cup {"sym_table"}
  /\ UNCHANGED <<target, alive, mapVars, shdrs, code, ret>>

ReadDynsymFails ==
  /\ pc = "tables"
  /\ Fails(IF BothMapped THEN {"sym_table"} ELSE {})

ReadStrtab ==
  /\ pc = "strings"
  /\ ReadTable("strings", "STRTAB")
  /\ pc' = "symbols"
  /\ held' = held \cup {"str_table"}
  /\ UNCHANGED <<target, alive, mapVars, shdrs, code, ret>>

ReadStrtabFails ==
  /\ pc = "strings"
  /\ Fails({"str_table"})

-----------------------------------------------------------------------------
(* The symbols and the errno offset.                                       *)

(* What was read are the symbols of file l.                                *)
IsTable(place, l, type) == \E h \in Table(l, type) : place = <<l, h.offset>>

TablesRead ==
  LET of == {l \in Libs : IsTable(sym, l, "DYNSYM") /\ IsTable(str, l, "STRTAB")}
  IN  IF of = {} THEN GarbageTables ELSE {File[l].symbols : l \in of}

NoOffset(v) == xloc.start + v   \* mutant: the offset of the mapping is forgotten

Relocated(v) == xloc.start + v - xloc.offset

LastOf(table, name) ==
  {i \in DOMAIN table :
     table[i].name = name /\ \A j \in (i + 1) .. Len(table) : table[j].name # name}

(* What the loop leaves for a name: the address of its last occurrence, or *)
(* 0 if that is beyond the mapping or there is none.                       *)
Lookup(table, name, a) ==
  IF LastOf(table, name) = {} THEN a = 0
  ELSE \E i \in LastOf(table, name) :
         a = IF Relocated(table[i].value) > xloc.end THEN 0 ELSE Relocated(table[i].value)

FindSymbols ==
  /\ pc = "symbols"
  /\ \E table \in TablesRead :
       \E s, e \in {0} \cup {Relocated(table[i].value) : i \in DOMAIN table} :
         /\ Lookup(table, "syscall", s)
         /\ Lookup(table, "__errno_location", e)
         /\ ret' = [ret EXCEPT !.syscall = s, !.errno_location = e]
  /\ pc' = "code"
  /\ UNCHANGED <<target, alive, mapVars, tableVars, code, held>>

(* The code at an address: that of __errno_location, if it is there.       *)
CodeAt(i, a) ==
  LET l == target.lines[i].lib
      v == a - target.lines[i].base
  IN  IF l # NULL /\ \E k \in DOMAIN File[l].symbols :
                       File[l].symbols[k] = [name |-> "__errno_location", value |-> v]
      THEN {File[l].code} ELSE GarbageCodes

(* memmem finds the first instruction of a kind.                           *)
First(c, op) ==
  {k \in DOMAIN c : c[k].op = op /\ \A j \in 1 .. (k - 1) : c[j].op # op}

(* if (!offAt && !fsAt) it fails; without offAt it reads near NULL.        *)
ReadCode ==
  /\ Reads("code", ret.errno_location)
  /\ \E i \in MappedAt(ret.errno_location) : code' \in CodeAt(i, ret.errno_location)
  /\ pc' = IF First(code', "load") # {} THEN "offset"
           ELSE IF First(code', "fs") # {} THEN "crashed" ELSE "fini"
  /\ UNCHANGED <<target, alive, mapVars, tableVars, ret, held>>

(* The displacement is read as a uint32_t and added to 64 bits.            *)
Loaded(k) == (code[k].disp % Wrap) + code[k].at + 7 + ret.errno_location

WordAt(i, a) ==
  LET l == target.lines[i].lib
      v == a - target.lines[i].base
  IN  IF l # NULL /\ v \in DOMAIN File[l].words THEN {File[l].words[v]} ELSE GarbageWords

ERRNO_OFFSET_MAX == 256
ERRNO_OFFSET_MIN == -512

Plausible(w) == ERRNO_OFFSET_MIN < w /\ w < ERRNO_OFFSET_MAX

ReadOffset ==
  /\ pc = "offset"
  /\ \E k \in First(code, "load") :
       /\ Reads("offset", Loaded(k))
       /\ \E i \in MappedAt(Loaded(k)) : \E w \in WordAt(i, Loaded(k)) :
            IF Plausible(w) THEN ret' = [ret EXCEPT !.errno_fs_offset = w] ELSE UNCHANGED ret
  /\ pc' = "fini"
  /\ UNCHANGED <<target, alive, mapVars, tableVars, code, held>>

ForgetsShdrs == {"str_table", "sym_table", "ram", "sections"}   \* mutant

Freed == {"str_table", "sym_table", "shdrs", "ram", "sections"}

Fini ==
  /\ pc = "fini"
  /\ pc' = "done"
  /\ held' = held \ Freed
  /\ UNCHANGED <<target, alive, mapVars, tableVars, code, ret>>

Exit ==
  /\ alive
  /\ alive' = FALSE
  /\ UNCHANGED <<pc, target, mapVars, tableVars, code, ret, held>>

-----------------------------------------------------------------------------
Next ==
  \/ OpenMaps
  \/ OpenMapsFails
  \/ \E i \in DOMAIN target.lines : ReadLine(i)
  \/ NotLocated
  \/ MapsRead
  \/ OpenMem
  \/ ReadFails
  \/ ReadHeader
  \/ ReadSectionHeaders
  \/ ReadSectionHeadersFails
  \/ ReadDynsym
  \/ ReadDynsymFails
  \/ ReadStrtab
  \/ ReadStrtabFails
  \/ FindSymbols
  \/ ReadCode
  \/ ReadOffset
  \/ Fini
  \/ Exit

Spec == Init /\ [][Next]_vars

-----------------------------------------------------------------------------
(* Types; the array of sections_add is never written past its end.         *)
TypeOK ==
  /\ pc \in {"open", "maps", "mem", "header", "disk", "tables", "strings", "symbols",
             "code", "offset", "fini", "done", "crashed"}
  /\ target \in Targets
  /\ alive \in BOOLEAN
  /\ unread \in Nat \ {0}
  /\ elfloc \in Nat
  /\ libcPath \in Libs \cup {NULL}
  /\ xloc \in Loc
  /\ sections \in Seq(Loc)
  /\ capacity \in Nat
  /\ shdrs \in Libs \cup {NULL}
  /\ sym \in {<<>>} \cup ((Libs \cup {NULL}) \X Int)
  /\ str \in {<<>>} \cup ((Libs \cup {NULL}) \X Int)
  /\ code \in Seq(Instruction)
  /\ ret \in [syscall : Int, errno_location : Int, errno_fs_offset : Int]
  /\ held \subseteq {"iter", "ram"} \cup Freed
  /\ Len(sections) <= capacity

(* One file named libc.so.6 is mapped, as often as it may be, and no other *)
(* one has taken its place on disk.                                        *)
IsOnlyLibc(l) ==
  /\ \A i \in DOMAIN target.lines : Shows(target.lines[i]) => target.lines[i].lib = l
  /\ target.disk[l] \in {l, NULL}

OneLibc == \E l \in Libs : IsOnlyLibc(l)

(* An address of the symbol in a mapping of the file it is a symbol of.    *)
IsAddressOf(a, name) ==
  \E i \in DOMAIN target.lines :
    /\ Executable(target.lines[i])
    /\ \E k \in DOMAIN File[target.lines[i].lib].symbols :
         File[target.lines[i].lib].symbols[k] =
           [name |-> name, value |-> a - target.lines[i].base]

(* The address a gate will jump to is that of syscall, in whatever pieces  *)
(* the text is mapped, whichever mapping the tables were read from and     *)
(* wherever the reading went wrong after the symbols were found.           *)
AddressesAreReal ==
  OneLibc =>
    /\ ret.syscall # 0 => IsAddressOf(ret.syscall, "syscall")
    /\ ret.errno_location # 0 => IsAddressOf(ret.errno_location, "__errno_location")

(* xloc is that of an executable line.                                     *)
XlocIsListed ==
  \E i \in DOMAIN target.lines :
    Executable(target.lines[i]) /\ xloc = LocOf(target.lines[i])

(* xloc is not initialised and the test at the end of the maps cannot tell *)
(* what the stack held from a mapping: no address is computed from it all  *)
(* the same, since only the maps of a process that has ended lack the      *)
(* line, and nothing can be read of that one any more.                     *)
GarbageUnused == ret # NoFunctions => XlocIsListed

(* find_libc returns with everything freed and closed, from wherever it    *)
(* fails.                                                                  *)
NothingHeld == pc = "done" => held = {}

(* find_libc is what Bootstrap takes it for.                               *)
ErrnoLoaded(l) ==
  \E k \in First(File[l].code, "load") : \E e \in LastOf(File[l].symbols, "__errno_location") :
    LET v == File[l].symbols[e].value + File[l].code[k].at + 7 + (File[l].code[k].disp % Wrap)
    IN  v \in DOMAIN File[l].words /\ File[l].words[v] = File[l].errno

FormOf(l) ==
  IF First(File[l].code, "load") # {} THEN IF ErrnoLoaded(l) THEN "errno" ELSE "other"
  ELSE IF First(File[l].code, "fs") # {} THEN "fs" ELSE "none"

ErrnoIsRight ==
  \E i \in DOMAIN target.lines :
    /\ Executable(target.lines[i])
    /\ xloc = LocOf(target.lines[i])
    /\ ret.errno_fs_offset = File[target.lines[i].lib].errno

FormsSeen ==
  IF OneLibc THEN {FormOf(target.lines[i].lib) : i \in {i \in DOMAIN target.lines : Shows(target.lines[i])}}
  ELSE {"errno", "other", "fs", "none"}

ResultSeen ==
  IF pc = "crashed" THEN "fault"
  ELSE IF pc \notin {"fini", "done"} THEN "searching"
  ELSE IF ~Accepted THEN "failed"
  ELSE IF ErrnoIsRight THEN "right" ELSE "wrong"

Search == INSTANCE LibcSearch WITH forms <- FormsSeen, result <- ResultSeen

(* Every result is one LibcSearch allows: a partly filled struct never     *)
(* passes for a libc, the offset is right if the code has the form         *)
(* find_libc knows, and only the form it misreads makes it fault.          *)
ImplementsSearch == Search!Spec

=============================================================================
