--------------------------- MODULE FindLibcProofs ---------------------------
(***************************************************************************)
(* Proofs about FindLibc, for any files, any processes that meet           *)
(* TargetAssumption, and whatever an uninitialised or mistaken read        *)
(* returns.                                                                *)
(***************************************************************************)
EXTENDS FindLibc, SequenceTheorems, TLAPS

(* What the later reads rely on: a path with every ELF header, section     *)
(* headers before the tables are looked for, room in the array.            *)
TypeInv ==
  /\ TypeOK
  /\ elfloc # 0 => libcPath \in Libs
  /\ pc \in {"mem", "header", "disk"} => elfloc # 0
  /\ pc \in {"tables", "strings"} => shdrs \in Libs
  /\ pc = "maps" => capacity # 0
  /\ pc = "open" => Len(sections) = 0

LEMMA LineTypes ==
  ASSUME target \in Targets, NEW i \in DOMAIN target.lines
  PROVE  target.lines[i] \in Line
<1>1. target.lines \in Seq(Line)
  BY TargetAssumption
<1>2. QED
  BY <1>1, ElementOfSeq

LEMMA InitTypes == Init => TypeInv
<1> SUFFICES ASSUME Init PROVE TypeInv
  OBVIOUS
<1>1. xloc \in Loc /\ Len(sections) <= capacity
  BY GarbageAssumption DEF Init
<1>2. sections \in Seq(Loc) /\ code \in Seq(Instruction)
  BY DEF Init
<1>3. QED
  BY <1>1, <1>2, FileAssumption DEF Init, TypeInv, TypeOK, NoFunctions

(* A line of the maps leaves its location where it has to go.              *)
LEMMA LocTypes == ASSUME NEW e \in Line PROVE LocOf(e) \in Loc
BY DEF Line, Loc, LocOf

LEMMA SectionTypes ==
  ASSUME sections \in Seq(Loc), capacity \in Nat, capacity # 0, Len(sections) <= capacity,
         NEW e \in Line, AddSection(e)
  PROVE  /\ sections' \in Seq(Loc)
         /\ capacity' \in Nat
         /\ capacity' # 0
         /\ Len(sections') <= capacity'
<1>1. CASE UNCHANGED <<sections, capacity>>
  BY <1>1
<1>2. CASE SectionsAdd(e)
  <2>1. sections' = Append(sections, LocOf(e)) /\ LocOf(e) \in Loc
    BY <1>2, LocTypes DEF SectionsAdd
  <2>2. sections' \in Seq(Loc) /\ Len(sections') = Len(sections) + 1 /\ Len(sections) \in Nat
    BY <2>1
  <2>3. CASE Full
    BY <1>2, <2>2, <2>3 DEF SectionsAdd, Full
  <2>4. CASE ~Full
    BY <1>2, <2>2, <2>4 DEF SectionsAdd, Full
  <2>5. QED
    BY <2>3, <2>4
<1>3. QED
  BY <1>1, <1>2 DEF AddSection

LEMMA ReadLineTypes ==
  ASSUME TypeInv, NEW i \in DOMAIN target.lines, ReadLine(i)
  PROVE  TypeInv'
<1> DEFINE e == target.lines[i]
<1>1. e \in Line /\ Shows(e) /\ i \in Nat
  <2>1. target.lines \in Seq(Line)
    BY TargetAssumption DEF TypeInv, TypeOK
  <2>2. QED
    BY <2>1, LineTypes DEF ReadLine, NextLine, TypeInv, TypeOK
<1>2. /\ pc = "maps" /\ unread' = i + 1
      /\ UNCHANGED <<pc, target, alive, shdrs, sym, str, code, ret, held>>
  BY DEF ReadLine, tableVars
<1>3. elfloc' \in Nat /\ libcPath' \in Libs \cup {NULL} /\ (elfloc' # 0 => libcPath' \in Libs)
  BY <1>1 DEF ReadLine, SetElf, Line, Shows, TypeInv, TypeOK
<1>4. xloc' \in Loc
  BY <1>1, LocTypes DEF ReadLine, SetXloc, TypeInv, TypeOK
<1>5. sections' \in Seq(Loc) /\ capacity' \in Nat /\ capacity' # 0 /\ Len(sections') <= capacity'
  <2>1. CASE e.named
    <3>1. AddSection(e)
      BY <2>1 DEF ReadLine
    <3>2. QED
      BY <1>1, <1>2, <3>1, SectionTypes DEF TypeInv, TypeOK
  <2>2. CASE ~e.named
    BY <1>2, <2>2 DEF ReadLine, TypeInv, TypeOK
  <2>3. QED
    BY <2>1, <2>2
<1>6. QED
  BY <1>1, <1>2, <1>3, <1>4, <1>5 DEF TypeInv, TypeOK

LEMMA PlaceTypes ==
  ASSUME TypeInv, pc \in {"tables", "strings"}, NEW l, NEW type, ReadTable(l, type)
  PROVE  /\ sym' \in {<<>>} \cup ((Libs \cup {NULL}) \X Int)
         /\ str' \in {<<>>} \cup ((Libs \cup {NULL}) \X Int)
<1> DEFINE Result(s, h) ==
      \E i \in MappedAt(AddressOf(s, h)) :
        IF type = "DYNSYM" THEN sym' = Place(i, AddressOf(s, h)) /\ UNCHANGED str
                           ELSE str' = Place(i, AddressOf(s, h)) /\ UNCHANGED sym
<1>a. PICK h \in Table(shdrs, type) : \E s \in SectionsFind(h) : Result(s, h)
  BY DEF ReadTable
<1>b. PICK s \in SectionsFind(h) : Result(s, h)
  BY <1>a
<1>1. PICK i \in MappedAt(AddressOf(s, h)) :
        IF type = "DYNSYM" THEN sym' = Place(i, AddressOf(s, h)) /\ UNCHANGED str
                           ELSE str' = Place(i, AddressOf(s, h)) /\ UNCHANGED sym
  BY <1>b
<1>2. h.offset \in Nat
  <2>1. File[shdrs].headers \in Seq(Header)
    BY FileAssumption DEF TypeInv
  <2>2. h \in Header
    BY <1>a, <2>1, ElementOfSeq DEF Table
  <2>3. QED
    BY <2>2 DEF Header
<1>3. s.start \in Nat /\ s.offset \in Nat
  <2>1. s \in Loc
    BY <1>b, ElementOfSeq DEF SectionsFind, TypeInv, TypeOK
  <2>2. QED
    BY <2>1 DEF Loc
<1>4. target.lines[i] \in Line
  BY <1>1, LineTypes DEF MappedAt, TypeInv, TypeOK
<1>5. Place(i, AddressOf(s, h)) \in (Libs \cup {NULL}) \X Int
  BY <1>2, <1>3, <1>4 DEF Place, FileOffset, AddressOf, Line
<1>6. QED
  BY <1>1, <1>5 DEF TypeInv, TypeOK

LEMMA SymbolTypes ==
  ASSUME TypeInv, FindSymbols
  PROVE  ret' \in [syscall : Int, errno_location : Int, errno_fs_offset : Int]
<1>1. \A table \in TablesRead : table \in Seq(Symbol)
  BY FileAssumption, GarbageAssumption DEF TablesRead
<1>2. PICK table \in TablesRead :
        \E s, e \in {0} \cup {Relocated(table[i].value) : i \in DOMAIN table} :
          ret' = [ret EXCEPT !.syscall = s, !.errno_location = e]
  BY DEF FindSymbols
<1>3. \A i \in DOMAIN table : Relocated(table[i].value) \in Int
  <2>1. \A i \in DOMAIN table : table[i] \in Symbol
    BY <1>1, <1>2, ElementOfSeq
  <2>2. QED
    BY <2>1 DEF Symbol, Relocated, Loc, TypeInv, TypeOK
<1>4. \A s, e \in Int : [ret EXCEPT !.syscall = s, !.errno_location = e]
        \in [syscall : Int, errno_location : Int, errno_fs_offset : Int]
  BY DEF TypeInv, TypeOK
<1>5. {0} \cup {Relocated(table[i].value) : i \in DOMAIN table} \subseteq Int
  BY <1>3
<1>6. QED
  BY <1>2, <1>4, <1>5

LEMMA CodeTypes ==
  ASSUME TypeInv, NEW i \in DOMAIN target.lines, NEW a
  PROVE  /\ CodeAt(i, a) \subseteq Seq(Instruction)
         /\ WordAt(i, a) \subseteq Int
<1>1. target.lines[i].lib \in Libs \cup {NULL}
  BY LineTypes DEF TypeInv, TypeOK, Line
<1>2. CodeAt(i, a) \subseteq Seq(Instruction)
  BY <1>1, FileAssumption, GarbageAssumption DEF CodeAt
<1>3. WordAt(i, a) \subseteq Int
  BY <1>1, FileAssumption, GarbageAssumption DEF WordAt
<1>4. QED
  BY <1>2, <1>3

LEMMA TypeStep == TypeInv /\ [Next]_vars => TypeInv'
<1> SUFFICES ASSUME TypeInv, [Next]_vars PROVE TypeInv'
  OBVIOUS
<1> USE DEF TypeInv, TypeOK, mapVars, tableVars
<1>1. CASE OpenMaps
  BY <1>1, SizeAssumption DEF OpenMaps, Freed
<1>2. CASE OpenMapsFails
  BY <1>2 DEF OpenMapsFails
<1>3. ASSUME NEW i \in DOMAIN target.lines, ReadLine(i) PROVE TypeInv'
  BY <1>3, ReadLineTypes DEF TypeInv
<1>4. CASE NotLocated
  BY <1>4 DEF NotLocated
<1>5. CASE MapsRead
  BY <1>5 DEF MapsRead, Located
<1>6. CASE OpenMem
  BY <1>6 DEF OpenMem, Freed
<1>7. CASE ReadFails
  BY <1>7 DEF ReadFails, Fails
<1>8. CASE ReadHeader
  BY <1>8 DEF ReadHeader, Reads, Freed
<1>9. CASE ReadSectionHeaders
  <2>1. target.disk \in [Libs -> Libs \cup {NULL}]
    BY TargetAssumption
  <2>2. shdrs' \in Libs
    BY <1>9, <2>1 DEF ReadSectionHeaders
  <2>3. QED
    BY <1>9, <2>2 DEF ReadSectionHeaders
<1>10. CASE ReadSectionHeadersFails
  BY <1>10 DEF ReadSectionHeadersFails, Fails
<1>11. CASE ReadDynsym
  BY <1>11, PlaceTypes DEF ReadDynsym, Freed
<1>12. CASE ReadDynsymFails
  BY <1>12 DEF ReadDynsymFails, Fails, Freed
<1>13. CASE ReadStrtab
  BY <1>13, PlaceTypes DEF ReadStrtab, Freed
<1>14. CASE ReadStrtabFails
  BY <1>14 DEF ReadStrtabFails, Fails, Freed
<1>15. CASE FindSymbols
  BY <1>15, SymbolTypes DEF FindSymbols
<1>16. CASE ReadCode
  <2>1. code' \in Seq(Instruction)
    BY <1>16, CodeTypes DEF ReadCode, MappedAt
  <2>2. QED
    BY <1>16, <2>1 DEF ReadCode
<1>17. CASE ReadOffset
  <2>1. ret' \in [syscall : Int, errno_location : Int, errno_fs_offset : Int]
    BY <1>17, CodeTypes DEF ReadOffset, MappedAt
  <2>2. QED
    BY <1>17, <2>1 DEF ReadOffset
<1>18. CASE Fini
  BY <1>18 DEF Fini
<1>19. CASE Exit
  BY <1>19 DEF Exit
<1>20. CASE UNCHANGED vars
  BY <1>20 DEF vars
<1>21. QED
  BY <1>1, <1>2, <1>3, <1>4, <1>5, <1>6, <1>7, <1>8, <1>9, <1>10, <1>11, <1>12, <1>13,
     <1>14, <1>15, <1>16, <1>17, <1>18, <1>19, <1>20 DEF Next

(* Types, and sections_add never writes past the end of its array, however *)
(* many mappings there are.                                                *)
THEOREM FindLibcTypes == Spec => []TypeOK
<1>1. TypeInv => TypeOK
  BY DEF TypeInv
<1>2. QED
  BY InitTypes, TypeStep, <1>1, PTL DEF Spec

-----------------------------------------------------------------------------
(* What is allocated or open at each point.                                *)
HeldInv ==
  /\ pc = "open" => held = {}
  /\ pc = "maps" => held \subseteq {"iter", "sections"}
  /\ pc \notin {"open", "maps"} => held \subseteq Freed
  /\ NothingHeld

LEMMA InitHeld == Init => HeldInv
BY DEF Init, HeldInv, NothingHeld

LEMMA HeldStep == HeldInv /\ [Next]_vars => HeldInv'
<1> SUFFICES ASSUME HeldInv, [Next]_vars PROVE HeldInv'
  OBVIOUS
<1> USE DEF HeldInv, NothingHeld, Freed
<1>1. CASE OpenMaps
  BY <1>1 DEF OpenMaps
<1>2. CASE OpenMapsFails
  BY <1>2 DEF OpenMapsFails
<1>3. ASSUME NEW i \in DOMAIN target.lines, ReadLine(i) PROVE HeldInv'
  BY <1>3 DEF ReadLine
<1>4. CASE NotLocated
  BY <1>4 DEF NotLocated
<1>5. CASE MapsRead
  BY <1>5 DEF MapsRead
<1>6. CASE OpenMem
  BY <1>6 DEF OpenMem
<1>7. CASE ReadFails
  BY <1>7 DEF ReadFails, Fails
<1>8. CASE ReadHeader
  BY <1>8 DEF ReadHeader, Reads
<1>9. CASE ReadSectionHeaders
  BY <1>9 DEF ReadSectionHeaders
<1>10. CASE ReadSectionHeadersFails
  BY <1>10 DEF ReadSectionHeadersFails, Fails
<1>11. CASE ReadDynsym
  BY <1>11 DEF ReadDynsym
<1>12. CASE ReadDynsymFails
  BY <1>12 DEF ReadDynsymFails, Fails
<1>13. CASE ReadStrtab
  BY <1>13 DEF ReadStrtab
<1>14. CASE ReadStrtabFails
  BY <1>14 DEF ReadStrtabFails, Fails
<1>15. CASE FindSymbols
  BY <1>15 DEF FindSymbols
<1>16. CASE ReadCode
  BY <1>16 DEF ReadCode, Reads
<1>17. CASE ReadOffset
  BY <1>17 DEF ReadOffset
<1>18. CASE Fini
  BY <1>18 DEF Fini
<1>19. CASE Exit
  BY <1>19 DEF Exit
<1>20. CASE UNCHANGED vars
  BY <1>20 DEF vars
<1>21. QED
  BY <1>1, <1>2, <1>3, <1>4, <1>5, <1>6, <1>7, <1>8, <1>9, <1>10, <1>11, <1>12, <1>13,
     <1>14, <1>15, <1>16, <1>17, <1>18, <1>19, <1>20 DEF Next

(* find_libc leaves nothing allocated or open, on whichever path it ends.  *)
THEOREM NothingLeaks == Spec => []NothingHeld
<1>1. HeldInv => NothingHeld
  BY DEF HeldInv
<1>2. QED
  BY InitHeld, HeldStep, <1>1, PTL DEF Spec

-----------------------------------------------------------------------------
(* xloc is a listed line as soon as an executable line was read; so it is  *)
(* one after the maps of a process that still lives, and wherever          *)
(* find_libc can only get by reading the memory of such a process.         *)
XlocInv ==
  /\ pc = "open" => unread = 1
  /\ \A i \in DOMAIN target.lines :
       i < unread /\ Executable(target.lines[i]) => XlocIsListed
  /\ alive /\ pc \in {"mem", "header", "disk", "tables"} => XlocIsListed
  /\ pc \in {"strings", "symbols", "code", "offset"} => XlocIsListed
  /\ GarbageUnused

LEMMA InitXloc == Init => XlocInv
<1> SUFFICES ASSUME Init PROVE XlocInv
  OBVIOUS
<1>1. target.lines \in Seq(Line)
  BY TargetAssumption DEF Init
<1>2. QED
  BY <1>1 DEF Init, XlocInv, GarbageUnused, NoFunctions

(* Steps that leave the maps alone keep xloc where it was.                 *)
LEMMA XlocKept ==
  ASSUME UNCHANGED <<target, xloc>>, XlocIsListed
  PROVE  XlocIsListed'
BY DEF XlocIsListed

LEMMA XlocReadLine ==
  ASSUME TypeInv, XlocInv, NEW i \in DOMAIN target.lines, ReadLine(i)
  PROVE  XlocInv'
<1> DEFINE e == target.lines[i]
<1>1. /\ pc = "maps" /\ pc' = "maps" /\ unread' = i + 1
      /\ UNCHANGED <<target, ret>>
  BY DEF ReadLine
<1>2. target.lines \in Seq(Line)
  BY TargetAssumption DEF TypeInv, TypeOK
<1>3. CASE Executable(e)
  <2>1. xloc' = LocOf(e)
    BY <1>3 DEF ReadLine, SetXloc, Executable, Listed
  <2>2. XlocIsListed'
    BY <1>1, <1>3, <2>1 DEF XlocIsListed
  <2>3. QED
    BY <1>1, <2>2 DEF XlocInv, GarbageUnused
<1>4. CASE ~Executable(e)
  <2>1. UNCHANGED xloc
    BY <1>4 DEF ReadLine, NextLine, SetXloc, Executable, Listed
  <2>2. XlocIsListed => XlocIsListed'
    BY <1>1, <2>1, XlocKept
  <2>3. ASSUME NEW j \in DOMAIN target.lines, j < i + 1, Executable(target.lines[j])
        PROVE  XlocIsListed
    <3>1. j # i
      BY <1>4, <2>3
    <3>2. ~(j \in unread .. (i - 1))
      BY <2>3 DEF ReadLine, NextLine, Executable, Listed
    <3>3. j < unread
      BY <1>2, <2>3, <3>1, <3>2 DEF TypeInv, TypeOK
    <3>4. QED
      BY <2>3, <3>3 DEF XlocInv
  <2>4. QED
    BY <1>1, <2>2, <2>3 DEF XlocInv, GarbageUnused
<1>5. QED
  BY <1>3, <1>4

LEMMA XlocMapsRead ==
  ASSUME TypeInv, XlocInv, MapsRead, alive
  PROVE  XlocIsListed
<1>1. PICK i \in DOMAIN target.lines : Executable(target.lines[i])
  BY TargetAssumption DEF TypeInv, TypeOK
<1>2. target.lines \in Seq(Line)
  BY TargetAssumption DEF TypeInv, TypeOK
<1>3. ~(i \in unread .. Len(target.lines))
  BY <1>1 DEF MapsRead, EndOfMaps, Executable, Listed
<1>4. i < unread
  BY <1>2, <1>3 DEF TypeInv, TypeOK
<1>5. QED
  BY <1>1, <1>4 DEF XlocInv

LEMMA XlocStep == TypeInv /\ XlocInv /\ [Next]_vars => XlocInv'
<1> SUFFICES ASSUME TypeInv, XlocInv, [Next]_vars PROVE XlocInv'
  OBVIOUS
<1>1. CASE UNCHANGED <<target, xloc, unread>>
  <2>1. XlocIsListed => XlocIsListed'
    BY <1>1, XlocKept
  <2> USE <1>1, <2>1 DEF XlocInv, GarbageUnused, mapVars, tableVars
  <2>2. CASE OpenMaps
    BY <2>2 DEF OpenMaps
  <2>3. CASE OpenMapsFails
    BY <2>3 DEF OpenMapsFails
  <2>4. CASE NotLocated
    BY <2>4 DEF NotLocated
  <2>5. CASE MapsRead
    BY <2>5, XlocMapsRead DEF MapsRead
  <2>6. CASE OpenMem
    BY <2>6 DEF OpenMem
  <2>7. CASE ReadFails
    BY <2>7 DEF ReadFails, Fails
  <2>8. CASE ReadHeader
    BY <2>8 DEF ReadHeader, Reads
  <2>9. CASE ReadSectionHeaders
    BY <2>9 DEF ReadSectionHeaders
  <2>10. CASE ReadSectionHeadersFails
    BY <2>10 DEF ReadSectionHeadersFails, Fails
  <2>11. CASE ReadDynsym
    <3>1. alive
      BY <2>11 DEF ReadDynsym, ReadTable, Reads
    <3>2. QED
      BY <2>11, <3>1 DEF ReadDynsym
  <2>12. CASE ReadDynsymFails
    BY <2>12 DEF ReadDynsymFails, Fails
  <2>13. CASE ReadStrtab
    BY <2>13 DEF ReadStrtab
  <2>14. CASE ReadStrtabFails
    BY <2>14 DEF ReadStrtabFails, Fails
  <2>15. CASE FindSymbols
    BY <2>15 DEF FindSymbols
  <2>16. CASE ReadCode
    BY <2>16 DEF ReadCode, Reads
  <2>17. CASE ReadOffset
    BY <2>17 DEF ReadOffset
  <2>18. CASE Fini
    BY <2>18 DEF Fini
  <2>19. CASE Exit
    BY <2>19 DEF Exit
  <2>20. CASE UNCHANGED vars
    BY <2>20 DEF vars
  <2>21. ASSUME NEW i \in DOMAIN target.lines, ReadLine(i) PROVE XlocInv'
    BY <2>21, XlocReadLine
  <2>22. QED
    BY <2>2, <2>3, <2>4, <2>5, <2>6, <2>7, <2>8, <2>9, <2>10, <2>11, <2>12, <2>13, <2>14,
       <2>15, <2>16, <2>17, <2>18, <2>19, <2>20, <2>21 DEF Next
<1>2. CASE ~UNCHANGED <<target, xloc, unread>>
  <2>1. \E i \in DOMAIN target.lines : ReadLine(i)
    BY <1>2 DEF Next, vars, mapVars, OpenMaps, OpenMapsFails, NotLocated, MapsRead, OpenMem,
       ReadFails, Fails, ReadHeader, ReadSectionHeaders, ReadSectionHeadersFails, ReadDynsym,
       ReadDynsymFails, ReadStrtab, ReadStrtabFails, FindSymbols, ReadCode, ReadOffset, Fini,
       Exit
  <2>2. QED
    BY <2>1, XlocReadLine
<1>3. QED
  BY <1>1, <1>2

(* No address is ever computed from what the stack held before xloc was    *)
(* set, whenever the process ends and however its maps are cut short.      *)
THEOREM GarbageNeverUsed == Spec => []GarbageUnused
<1>1. TypeInv /\ XlocInv /\ [Next]_vars => (TypeInv /\ XlocInv)'
  BY TypeStep, XlocStep
<1>2. XlocInv => GarbageUnused
  BY DEF XlocInv
<1>3. QED
  BY InitTypes, InitXloc, <1>1, <1>2, PTL DEF Spec

-----------------------------------------------------------------------------
(* When the only libc is l: the path and the headers are l's, each section *)
(* is a line of l's, the tables are l's, and the addresses are those of    *)
(* its symbols.                                                            *)
IsSectionOf(s) ==
  \E j \in DOMAIN target.lines : Shows(target.lines[j]) /\ s = LocOf(target.lines[j])

RealResult ==
  /\ ret.syscall # 0 => IsAddressOf(ret.syscall, "syscall")
  /\ ret.errno_location # 0 => IsAddressOf(ret.errno_location, "__errno_location")

SectionsListed == \A k \in DOMAIN sections : IsSectionOf(sections[k])

SourceInv(l) ==
  IsOnlyLibc(l) =>
    /\ libcPath # NULL => libcPath = l
    /\ shdrs # NULL => shdrs = l
    /\ SectionsListed
    /\ pc \in {"strings", "symbols"} => IsTable(sym, l, "DYNSYM")
    /\ pc = "symbols" => IsTable(str, l, "STRTAB")
    /\ RealResult

LEMMA InitSource == ASSUME NEW l \in Libs, Init PROVE SourceInv(l)
BY DEF Init, SourceInv, SectionsListed, RealResult, NoFunctions

(* A table is read from the place where its only file has it.              *)
LEMMA TableIsRead ==
  ASSUME TypeInv, NEW l \in Libs, SourceInv(l), IsOnlyLibc(l),
         pc \in {"tables", "strings"}, NEW at, NEW type, ReadTable(at, type)
  PROVE  IF type = "DYNSYM" THEN IsTable(sym', l, type) /\ UNCHANGED str
                            ELSE IsTable(str', l, type) /\ UNCHANGED sym
<1> DEFINE Result(s, h) ==
      \E i \in MappedAt(AddressOf(s, h)) :
        IF type = "DYNSYM" THEN sym' = Place(i, AddressOf(s, h)) /\ UNCHANGED str
                           ELSE str' = Place(i, AddressOf(s, h)) /\ UNCHANGED sym
<1>1. PICK h \in Table(shdrs, type) : \E s \in SectionsFind(h) : Result(s, h)
  BY DEF ReadTable
<1>2. PICK s \in SectionsFind(h) : Result(s, h)
  BY <1>1
<1>3. PICK i \in MappedAt(AddressOf(s, h)) :
        IF type = "DYNSYM" THEN sym' = Place(i, AddressOf(s, h)) /\ UNCHANGED str
                           ELSE str' = Place(i, AddressOf(s, h)) /\ UNCHANGED sym
  BY <1>2
<1>4. shdrs = l
  BY FileAssumption DEF TypeInv, SourceInv
<1>5. h \in Header
  <2>1. File[l].headers \in Seq(Header)
    BY FileAssumption
  <2>2. QED
    BY <1>1, <1>4, <2>1, ElementOfSeq DEF Table
<1>6. PICK j \in DOMAIN target.lines : Shows(target.lines[j]) /\ s = LocOf(target.lines[j])
  BY <1>2 DEF SectionsFind, SourceInv, SectionsListed, IsSectionOf
<1>7. Covers(s, h)
  BY <1>2 DEF SectionsFind
<1>8. target.lines[i] \in Line /\ target.lines[j] \in Line /\ i \in DOMAIN target.lines
  BY <1>3, <1>6, LineTypes DEF MappedAt, TypeInv, TypeOK
<1>9. /\ target.lines[j].start <= AddressOf(s, h)
      /\ AddressOf(s, h) < target.lines[j].end
      /\ AddressOf(s, h) - target.lines[j].start + target.lines[j].offset = h.offset
  BY <1>5, <1>6, <1>7, <1>8 DEF Covers, AddressOf, LocOf, Line, Header
<1>10. target.lines[i].start <= AddressOf(s, h) /\ AddressOf(s, h) < target.lines[i].end
  BY <1>3 DEF MappedAt
<1>11. i = j
  <2>1. AddressOf(s, h) \in Int
    BY <1>5, <1>6, <1>8 DEF AddressOf, LocOf, Line, Header
  <2>2. i # j => \/ target.lines[i].end <= target.lines[j].start
                 \/ target.lines[j].end <= target.lines[i].start
    BY <1>6, <1>8, TargetAssumption DEF TypeInv, TypeOK
  <2>3. QED
    BY <1>8, <1>9, <1>10, <2>1, <2>2 DEF Line
<1>12. target.lines[j].lib = l
  BY <1>6 DEF IsOnlyLibc
<1>13. Place(i, AddressOf(s, h)) = <<l, h.offset>>
  BY <1>9, <1>11, <1>12 DEF Place, FileOffset
<1>14. IsTable(Place(i, AddressOf(s, h)), l, type)
  BY <1>1, <1>4, <1>13 DEF IsTable
<1>15. QED
  BY <1>3, <1>14

(* The tables that were read are those of the only libc.                   *)
LEMMA TablesAreReal ==
  ASSUME NEW l \in Libs, IsTable(sym, l, "DYNSYM"), IsTable(str, l, "STRTAB")
  PROVE  TablesRead = {File[l].symbols}
<1>1. \A k \in Libs : IsTable(sym, k, "DYNSYM") => k = l
  BY DEF IsTable
<1>2. {k \in Libs : IsTable(sym, k, "DYNSYM") /\ IsTable(str, k, "STRTAB")} = {l}
  BY <1>1
<1>3. QED
  BY <1>2 DEF TablesRead

(* What the loop computes is an address of the symbol.                     *)
LEMMA LookupIsReal ==
  ASSUME TypeInv, XlocIsListed, NEW l \in Libs, IsOnlyLibc(l),
         NEW name \in {"syscall", "__errno_location"}, NEW a, a # 0,
         Lookup(File[l].symbols, name, a)
  PROVE  IsAddressOf(a, name)
<1> DEFINE table == File[l].symbols
<1>1. PICK k \in LastOf(table, name) :
        a = IF Relocated(table[k].value) > xloc.end THEN 0 ELSE Relocated(table[k].value)
  BY DEF Lookup
<1>2. a = Relocated(table[k].value)
  BY <1>1
<1>3. k \in DOMAIN table /\ table[k].name = name /\ table[k] \in Symbol
  <2>1. table \in Seq(Symbol)
    BY FileAssumption
  <2>2. QED
    BY <1>1, <2>1, ElementOfSeq DEF LastOf
<1>4. PICK i \in DOMAIN target.lines : Executable(target.lines[i]) /\ xloc = LocOf(target.lines[i])
  BY DEF XlocIsListed
<1>5. target.lines[i] \in Line
  BY LineTypes DEF TypeInv, TypeOK
<1>6. target.lines[i].start = target.lines[i].base + target.lines[i].offset
  BY <1>4, TargetAssumption DEF TypeInv, TypeOK
<1>7. table[k].value = a - target.lines[i].base
  BY <1>2, <1>3, <1>4, <1>5, <1>6 DEF Relocated, LocOf, Line, Symbol
<1>8. table[k] = [name |-> name, value |-> a - target.lines[i].base]
  BY <1>3, <1>7 DEF Symbol
<1>9. target.lines[i].lib = l
  BY <1>4 DEF IsOnlyLibc, Executable, Listed
<1>10. QED
  BY <1>3, <1>4, <1>8, <1>9 DEF IsAddressOf

(* FindSymbols looks both names up in the table of the only libc.          *)
LEMMA SymbolsFound ==
  ASSUME TypeInv, NEW l \in Libs, SourceInv(l), IsOnlyLibc(l), FindSymbols
  PROVE  /\ Lookup(File[l].symbols, "syscall", ret'.syscall)
         /\ Lookup(File[l].symbols, "__errno_location", ret'.errno_location)
         /\ ret'.errno_fs_offset = ret.errno_fs_offset
<1>1. TablesRead = {File[l].symbols}
  BY TablesAreReal DEF SourceInv, FindSymbols
<1> DEFINE Addresses(table) == {0} \cup {Relocated(table[i].value) : i \in DOMAIN table}
           Outcome(table) ==
             \E s, e \in Addresses(table) :
               /\ Lookup(table, "syscall", s)
               /\ Lookup(table, "__errno_location", e)
               /\ ret' = [ret EXCEPT !.syscall = s, !.errno_location = e]
<1>2. \E table \in TablesRead : Outcome(table)
  BY DEF FindSymbols
<1>3. Outcome(File[l].symbols)
  <2> HIDE DEF Outcome
  <2>1. QED
    BY <1>1, <1>2
<1>4. PICK s \in Addresses(File[l].symbols), e \in Addresses(File[l].symbols) :
        /\ Lookup(File[l].symbols, "syscall", s)
        /\ Lookup(File[l].symbols, "__errno_location", e)
        /\ ret' = [ret EXCEPT !.syscall = s, !.errno_location = e]
  BY <1>3
<1>5. /\ ret'.syscall = s /\ ret'.errno_location = e
      /\ ret'.errno_fs_offset = ret.errno_fs_offset
  <2>1. ret \in [syscall : Int, errno_location : Int, errno_fs_offset : Int]
    BY DEF TypeInv, TypeOK
  <2>2. ret' = [ret EXCEPT !.syscall = s, !.errno_location = e]
    BY <1>4
  <2>3. QED
    BY ONLY <2>1, <2>2
<1>6. QED
  BY <1>4, <1>5

LEMMA SymbolsAreReal ==
  ASSUME TypeInv, XlocInv, NEW l \in Libs, SourceInv(l), IsOnlyLibc(l), FindSymbols
  PROVE  RealResult'
<1>1. /\ Lookup(File[l].symbols, "syscall", ret'.syscall)
      /\ Lookup(File[l].symbols, "__errno_location", ret'.errno_location)
  BY SymbolsFound
<1>2. XlocIsListed
  BY DEF XlocInv, FindSymbols
<1>3. target' = target
  BY DEF FindSymbols
<1>4. ret'.syscall # 0 => IsAddressOf(ret'.syscall, "syscall")
  BY <1>1, <1>2, LookupIsReal
<1>5. ret'.errno_location # 0 => IsAddressOf(ret'.errno_location, "__errno_location")
  BY <1>1, <1>2, LookupIsReal
<1>6. QED
  BY <1>3, <1>4, <1>5 DEF RealResult, IsAddressOf

LEMMA SourceReadLine ==
  ASSUME TypeInv, NEW l \in Libs, SourceInv(l), IsOnlyLibc(l),
         NEW i \in DOMAIN target.lines, ReadLine(i)
  PROVE  /\ libcPath' # NULL => libcPath' = l
         /\ \A k \in DOMAIN sections' : IsSectionOf(sections'[k])
<1> DEFINE e == target.lines[i]
<1>1. Shows(e) /\ e.lib = l
  BY DEF ReadLine, NextLine, IsOnlyLibc
<1>2. libcPath' # NULL => libcPath' = l
  BY <1>1 DEF ReadLine, SetElf, SourceInv
<1>3. CASE UNCHANGED sections
  BY <1>2, <1>3 DEF SourceInv, SectionsListed
<1>4. CASE sections' = Append(sections, LocOf(e))
  <2>1. sections \in Seq(Loc) /\ Len(sections) \in Nat
    BY DEF TypeInv, TypeOK
  <2>2. DOMAIN sections' = 1 .. (Len(sections) + 1)
    BY <1>4, <2>1
  <2>3. ASSUME NEW k \in DOMAIN sections' PROVE IsSectionOf(sections'[k])
    <3>1. CASE k = Len(sections) + 1
      BY <1>1, <1>4, <2>1, <3>1 DEF IsSectionOf
    <3>2. CASE k # Len(sections) + 1
      <4>1. k \in DOMAIN sections /\ sections'[k] = sections[k]
        BY <1>4, <2>1, <2>2, <3>2
      <4>2. QED
        BY <4>1 DEF SourceInv, SectionsListed
    <3>3. QED
      BY <3>1, <3>2
  <2>4. QED
    BY <1>2, <2>3
<1>5. QED
  BY <1>3, <1>4 DEF ReadLine, AddSection, SectionsAdd

(* Steps that change neither the result nor where it comes from.           *)
LEMMA SourceKept ==
  ASSUME NEW l \in Libs, SourceInv(l),
         UNCHANGED <<target, libcPath, shdrs, sections, sym, str, ret>>,
         pc' \in {"strings", "symbols"} => pc' = pc
  PROVE  SourceInv(l)'
BY DEF SourceInv, SectionsListed, IsOnlyLibc, IsSectionOf, IsTable, Table, OfType, RealResult, IsAddressOf

LEMMA SourceStep ==
  ASSUME TypeInv, XlocInv, NEW l \in Libs, SourceInv(l), [Next]_vars
  PROVE  SourceInv(l)'
<1> USE DEF mapVars, tableVars
<1>1. CASE OpenMaps
  BY <1>1, SourceKept DEF OpenMaps
<1>2. CASE OpenMapsFails
  BY <1>2, SourceKept DEF OpenMapsFails
<1>3. ASSUME NEW i \in DOMAIN target.lines, ReadLine(i) PROVE SourceInv(l)'
  <2>1. UNCHANGED <<pc, target, shdrs, sym, str, ret>> /\ pc = "maps"
    BY <1>3 DEF ReadLine
  <2>2. IsOnlyLibc(l)' => IsOnlyLibc(l)
    BY <2>1 DEF IsOnlyLibc
  <2>3. IsOnlyLibc(l) => /\ libcPath' # NULL => libcPath' = l
                         /\ \A k \in DOMAIN sections' : IsSectionOf(sections'[k])
    BY <1>3, SourceReadLine
  <2>5. IsOnlyLibc(l) => SectionsListed'
    BY <2>1, <2>3 DEF SectionsListed, IsSectionOf
  <2>6. RealResult => RealResult'
    BY <2>1 DEF RealResult, IsAddressOf
  <2>7. QED
    BY <2>1, <2>2, <2>3, <2>5, <2>6 DEF SourceInv
<1>4. CASE NotLocated
  BY <1>4, SourceKept DEF NotLocated
<1>5. CASE MapsRead
  BY <1>5, SourceKept DEF MapsRead
<1>6. CASE OpenMem
  BY <1>6, SourceKept DEF OpenMem
<1>7. CASE ReadFails
  BY <1>7, SourceKept DEF ReadFails, Fails
<1>8. CASE ReadHeader
  BY <1>8, SourceKept DEF ReadHeader
<1>9. CASE ReadSectionHeaders
  <2>1. UNCHANGED <<target, libcPath, sections, sym, str, ret>> /\ pc' = "tables"
    BY <1>9 DEF ReadSectionHeaders
  <2>2. IsOnlyLibc(l) => shdrs' = l
    <3>1. libcPath \in Libs /\ libcPath # NULL
      BY <1>9, FileAssumption DEF ReadSectionHeaders, TypeInv
    <3>2. QED
      BY <1>9, <3>1 DEF ReadSectionHeaders, SourceInv, IsOnlyLibc
  <2>3. IsOnlyLibc(l)' => IsOnlyLibc(l)
    BY <2>1 DEF IsOnlyLibc
  <2>4. RealResult => RealResult'
    BY <2>1 DEF RealResult, IsAddressOf
  <2>5. QED
    BY <2>1, <2>2, <2>3, <2>4 DEF SourceInv, SectionsListed, IsSectionOf
<1>10. CASE ReadSectionHeadersFails
  BY <1>10, SourceKept DEF ReadSectionHeadersFails, Fails
<1>11. CASE ReadDynsym
  <2>1. UNCHANGED <<target, libcPath, shdrs, sections, ret>> /\ pc = "tables" /\ pc' = "strings"
    BY <1>11 DEF ReadDynsym
  <2>2. IsOnlyLibc(l) => IsTable(sym', l, "DYNSYM")
    BY <1>11, <2>1, TableIsRead DEF ReadDynsym
  <2>3. IsOnlyLibc(l)' => IsOnlyLibc(l)
    BY <2>1 DEF IsOnlyLibc
  <2>4. RealResult => RealResult'
    BY <2>1 DEF RealResult, IsAddressOf
  <2>5. QED
    BY <2>1, <2>2, <2>3, <2>4 DEF SourceInv, SectionsListed, IsSectionOf, IsTable
<1>12. CASE ReadDynsymFails
  BY <1>12, SourceKept DEF ReadDynsymFails, Fails
<1>13. CASE ReadStrtab
  <2>1. UNCHANGED <<target, libcPath, shdrs, sections, ret>> /\ pc = "strings" /\ pc' = "symbols"
    BY <1>13 DEF ReadStrtab
  <2>2. IsOnlyLibc(l) => IsTable(str', l, "STRTAB") /\ UNCHANGED sym
    BY <1>13, <2>1, TableIsRead DEF ReadStrtab
  <2>3. IsOnlyLibc(l)' => IsOnlyLibc(l)
    BY <2>1 DEF IsOnlyLibc
  <2>4. RealResult => RealResult'
    BY <2>1 DEF RealResult, IsAddressOf
  <2>5. QED
    BY <2>1, <2>2, <2>3, <2>4 DEF SourceInv, SectionsListed, IsSectionOf, IsTable
<1>14. CASE ReadStrtabFails
  BY <1>14, SourceKept DEF ReadStrtabFails, Fails
<1>15. CASE FindSymbols
  <2>1. UNCHANGED <<target, libcPath, shdrs, sections, sym, str>> /\ pc' = "code"
    BY <1>15 DEF FindSymbols
  <2>2. IsOnlyLibc(l) => RealResult'
    BY <1>15, SymbolsAreReal
  <2>3. IsOnlyLibc(l)' => IsOnlyLibc(l)
    BY <2>1 DEF IsOnlyLibc
  <2>4. QED
    BY <2>1, <2>2, <2>3 DEF SourceInv, SectionsListed, IsSectionOf
<1>16. CASE ReadCode
  BY <1>16, SourceKept DEF ReadCode
<1>17. CASE ReadOffset
  <2>1. UNCHANGED <<target, libcPath, shdrs, sections, sym, str>> /\ pc' = "fini"
    BY <1>17 DEF ReadOffset
  <2>2. UNCHANGED <<ret.syscall, ret.errno_location>>
    BY <1>17 DEF ReadOffset, TypeInv, TypeOK
  <2>3. IsOnlyLibc(l)' => IsOnlyLibc(l)
    BY <2>1 DEF IsOnlyLibc
  <2>4. RealResult => RealResult'
    BY <2>1, <2>2 DEF RealResult, IsAddressOf
  <2>5. QED
    BY <2>1, <2>3, <2>4 DEF SourceInv, SectionsListed, IsSectionOf
<1>18. CASE Fini
  BY <1>18, SourceKept DEF Fini
<1>19. CASE Exit
  BY <1>19, SourceKept DEF Exit
<1>20. CASE UNCHANGED vars
  BY <1>20, SourceKept DEF vars
<1>21. QED
  BY <1>1, <1>2, <1>3, <1>4, <1>5, <1>6, <1>7, <1>8, <1>9, <1>10, <1>11, <1>12, <1>13,
     <1>14, <1>15, <1>16, <1>17, <1>18, <1>19, <1>20 DEF Next

AllSources == \A l \in Libs : SourceInv(l)

(* If one libc is mapped, in however many copies and pieces, the addresses *)
(* find_libc returns are those of syscall and __errno_location.            *)
THEOREM AddressesFound == Spec => []AddressesAreReal
<1>1. Init => TypeInv /\ XlocInv /\ AllSources
  BY InitTypes, InitXloc, InitSource DEF AllSources
<1>2. TypeInv /\ XlocInv /\ AllSources /\ [Next]_vars => (TypeInv /\ XlocInv /\ AllSources)'
  BY TypeStep, XlocStep, SourceStep DEF AllSources
<1>3. AllSources => AddressesAreReal
  BY DEF AllSources, SourceInv, RealResult, AddressesAreReal, OneLibc
<1>4. QED
  BY <1>1, <1>2, <1>3, PTL DEF Spec

-----------------------------------------------------------------------------
(* find_libc implements LibcSearch.  Nothing is accepted before the errno  *)
(* offset is read; and when the only libc is l, what is read for the code  *)
(* of __errno_location, and for the word it loads, is l's.                 *)
AtErrno(l) ==
  \E e \in LastOf(File[l].symbols, "__errno_location") :
    ret.errno_location = Relocated(File[l].symbols[e].value)

ErrnoInv(l) ==
  IsOnlyLibc(l) =>
    /\ pc \in {"code", "offset"} /\ ret.errno_location # 0 => AtErrno(l)
    /\ pc = "offset" => ret.errno_location # 0 /\ code = File[l].code

NoneYet == pc \notin {"fini", "done"} => ret.errno_fs_offset = 0

SearchInv == TypeInv /\ XlocInv /\ AllSources /\ NoneYet /\ \A l \in Libs : ErrnoInv(l)

(* Nothing is read at address 0.                                           *)
LEMMA ReadsSomewhere ==
  ASSUME TypeInv, NEW l, NEW a \in Int, Reads(l, a)
  PROVE  a # 0
<1>1. PICK i \in DOMAIN target.lines : target.lines[i].start <= a
  BY DEF Reads, MappedAt
<1>2. target.lines[i].start \in Nat /\ target.lines[i].start # 0
  BY LineTypes, TargetAssumption DEF TypeInv, TypeOK, Line
<1>3. QED
  BY <1>1, <1>2

(* Where a line shows an image address of the only libc, as the executable *)
(* line in xloc has it, the line is of the same copy of that libc.         *)
LEMMA SameCopy ==
  ASSUME TypeInv, NEW l \in Libs, IsOnlyLibc(l),
         NEW x \in DOMAIN target.lines, Executable(target.lines[x]),
         NEW v \in Image(l), NEW i \in MappedAt(target.lines[x].base + v)
  PROVE  target.lines[i].lib = l /\ target.lines[i].base = target.lines[x].base
<1>1. target.lines[x].lib = l
  BY DEF IsOnlyLibc, Executable, Listed
<1>2. /\ i \in DOMAIN target.lines
      /\ target.lines[i].start <= target.lines[x].base + v
      /\ target.lines[x].base + v < target.lines[i].end
  BY DEF MappedAt
<1>3. target \in Targets
  BY DEF TypeInv, TypeOK
<1>4. QED
  BY <1>1, <1>2, <1>3, TargetAssumption

LEMMA ErrnoSymbol ==
  ASSUME TypeInv, XlocIsListed, NEW l \in Libs, AtErrno(l)
  PROVE  \E e \in LastOf(File[l].symbols, "__errno_location"), x \in DOMAIN target.lines :
           /\ Executable(target.lines[x]) /\ xloc = LocOf(target.lines[x])
           /\ e \in DOMAIN File[l].symbols
           /\ File[l].symbols[e].name = "__errno_location"
           /\ File[l].symbols[e].value \in Nat
           /\ target.lines[x].base \in Nat
           /\ ret.errno_location = target.lines[x].base + File[l].symbols[e].value
<1>1. PICK e \in LastOf(File[l].symbols, "__errno_location") :
        ret.errno_location = Relocated(File[l].symbols[e].value)
  BY DEF AtErrno
<1>2. PICK x \in DOMAIN target.lines : Executable(target.lines[x]) /\ xloc = LocOf(target.lines[x])
  BY DEF XlocIsListed
<1>3. /\ e \in DOMAIN File[l].symbols /\ File[l].symbols[e].name = "__errno_location"
      /\ File[l].symbols[e] \in Symbol
  <2>1. File[l].symbols \in Seq(Symbol)
    BY FileAssumption
  <2>2. QED
    BY <1>1, <2>1, ElementOfSeq DEF LastOf
<1>4. /\ target.lines[x] \in Line
      /\ target.lines[x].start = target.lines[x].base + target.lines[x].offset
  BY <1>2, LineTypes, TargetAssumption DEF TypeInv, TypeOK
<1>5. ret.errno_location = target.lines[x].base + File[l].symbols[e].value
  BY <1>1, <1>2, <1>3, <1>4 DEF Relocated, LocOf, Line, Symbol
<1>6. QED
  BY <1>1, <1>2, <1>3, <1>4, <1>5 DEF Line, Symbol

(* The code read is that of __errno_location.                              *)
LEMMA CodeIsReal ==
  ASSUME TypeInv, XlocIsListed, NEW l \in Libs, IsOnlyLibc(l), AtErrno(l),
         NEW i \in MappedAt(ret.errno_location)
  PROVE  CodeAt(i, ret.errno_location) = {File[l].code}
<1>1. PICK e \in LastOf(File[l].symbols, "__errno_location"), x \in DOMAIN target.lines :
           /\ Executable(target.lines[x])
           /\ e \in DOMAIN File[l].symbols
           /\ File[l].symbols[e].name = "__errno_location"
           /\ File[l].symbols[e].value \in Nat
           /\ target.lines[x].base \in Nat
           /\ ret.errno_location = target.lines[x].base + File[l].symbols[e].value
  BY ErrnoSymbol
<1>2. File[l].symbols[e].value \in Image(l)
  BY <1>1 DEF Image
<1>3. target.lines[i].lib = l /\ target.lines[i].base = target.lines[x].base
  BY <1>1, <1>2, SameCopy
<1>4. ret.errno_location - target.lines[i].base = File[l].symbols[e].value
  BY <1>1, <1>3
<1>5. File[l].symbols[e] = [name |-> "__errno_location", value |-> ret.errno_location - target.lines[i].base]
  <2>1. File[l].symbols[e] \in Symbol
    BY <1>1, FileAssumption, ElementOfSeq
  <2>2. QED
    BY <1>1, <1>4, <2>1 DEF Symbol
<1>6. l # NULL
  BY FileAssumption
<1>7. QED
  BY <1>1, <1>3, <1>5, <1>6 DEF CodeAt

(* There is one first instruction of a kind and one last symbol of a name. *)
LEMMA FirstIsOne ==
  ASSUME NEW c \in Seq(Instruction), NEW op, NEW j \in First(c, op), NEW k \in First(c, op)
  PROVE  j = k
BY DEF First

LEMMA LastIsOne ==
  ASSUME NEW t \in Seq(Symbol), NEW name, NEW j \in LastOf(t, name), NEW k \in LastOf(t, name)
  PROVE  j = k
BY DEF LastOf

(* If the first load of the code is that of the errno offset, the word     *)
(* read is the errno offset.                                               *)
LEMMA WordIsReal ==
  ASSUME TypeInv, XlocIsListed, NEW l \in Libs, IsOnlyLibc(l), AtErrno(l),
         code = File[l].code, ErrnoLoaded(l),
         NEW k \in First(code, "load"), NEW i \in MappedAt(Loaded(k))
  PROVE  WordAt(i, Loaded(k)) = {File[l].errno}
<1> DEFINE V(a) == a + code[k].at + 7 + (code[k].disp % Wrap)
<1>1. PICK e \in LastOf(File[l].symbols, "__errno_location"), x \in DOMAIN target.lines :
           /\ Executable(target.lines[x])
           /\ File[l].symbols[e].value \in Nat
           /\ target.lines[x].base \in Nat
           /\ ret.errno_location = target.lines[x].base + File[l].symbols[e].value
  BY ErrnoSymbol
<1>2. File[l].code \in Seq(Instruction) /\ File[l].symbols \in Seq(Symbol)
  BY FileAssumption
<1>3. V(File[l].symbols[e].value) \in DOMAIN File[l].words
      /\ File[l].words[V(File[l].symbols[e].value)] = File[l].errno
  <2>1. PICK k2 \in First(File[l].code, "load"), e2 \in LastOf(File[l].symbols, "__errno_location") :
          LET v == File[l].symbols[e2].value + File[l].code[k2].at + 7 + (File[l].code[k2].disp % Wrap)
          IN  v \in DOMAIN File[l].words /\ File[l].words[v] = File[l].errno
    BY DEF ErrnoLoaded
  <2>2. k2 = k
    <3>1. k2 \in First(File[l].code, "load") /\ k \in First(File[l].code, "load")
      BY <2>1
    <3>2. QED
      BY ONLY <1>2, <3>1, FirstIsOne
  <2>2a. e2 = e
    <3>1. e2 \in LastOf(File[l].symbols, "__errno_location") /\ e \in LastOf(File[l].symbols, "__errno_location")
      BY <1>1, <2>1
    <3>2. QED
      BY ONLY <1>2, <3>1, LastIsOne
  <2>3. QED
    BY <2>1, <2>2, <2>2a
<1>4. code[k] \in Instruction
  BY <1>2, ElementOfSeq DEF First
<1>5. code[k].at \in Nat /\ (code[k].disp % Wrap) \in Int
  <2>1. code[k].at \in Nat /\ code[k].disp \in Int /\ Wrap \in Nat \ {0}
    BY <1>4, SizeAssumption DEF Instruction
  <2>2. QED
    BY <2>1
<1>6. Loaded(k) = target.lines[x].base + V(File[l].symbols[e].value)
  BY <1>1, <1>5 DEF Loaded
<1>7. V(File[l].symbols[e].value) \in Image(l)
  BY <1>3 DEF Image
<1>8. target.lines[i].lib = l /\ target.lines[i].base = target.lines[x].base
  BY <1>1, <1>6, <1>7, SameCopy
<1>9. Loaded(k) - target.lines[i].base = V(File[l].symbols[e].value)
  BY <1>1, <1>5, <1>6, <1>8
<1>10. l # NULL
  BY FileAssumption
<1>11. QED
  BY <1>3, <1>8, <1>9, <1>10 DEF WordAt

(* Steps that change neither the result nor what it is computed from.      *)
LEMMA ErrnoKept ==
  ASSUME NEW l \in Libs, NoneYet, ErrnoInv(l),
         UNCHANGED <<target, xloc, ret, code>>,
         pc' \in {"code", "offset"} => pc' = pc,
         pc \in {"fini", "done"} => pc' \in {"fini", "done"}
  PROVE  NoneYet' /\ ErrnoInv(l)'
BY DEF NoneYet, ErrnoInv, IsOnlyLibc, AtErrno, Relocated

LEMMA ErrnoFindSymbols ==
  ASSUME TypeInv, NoneYet, NEW l \in Libs, SourceInv(l), FindSymbols
  PROVE  NoneYet' /\ ErrnoInv(l)'
<1>1. pc = "symbols" /\ pc' = "code" /\ UNCHANGED <<target, xloc>>
  BY DEF FindSymbols, mapVars
<1>2. ret'.errno_fs_offset = ret.errno_fs_offset
  <2>1. PICK s, e : ret' = [ret EXCEPT !.syscall = s, !.errno_location = e]
    BY DEF FindSymbols
  <2>2. ret \in [syscall : Int, errno_location : Int, errno_fs_offset : Int]
    BY DEF TypeInv, TypeOK
  <2>3. QED
    BY ONLY <2>1, <2>2
<1>3. ASSUME IsOnlyLibc(l)', ret'.errno_location # 0
      PROVE  AtErrno(l)'
  <2>1. IsOnlyLibc(l)
    BY <1>1, <1>3 DEF IsOnlyLibc
  <2>2. Lookup(File[l].symbols, "__errno_location", ret'.errno_location)
    BY <2>1, SymbolsFound
  <2>3. PICK e \in LastOf(File[l].symbols, "__errno_location") :
          ret'.errno_location = Relocated(File[l].symbols[e].value)
    BY <1>3, <2>2 DEF Lookup
  <2>4. QED
    BY <1>1, <2>3 DEF AtErrno, Relocated
<1>4. QED
  BY <1>1, <1>2, <1>3 DEF NoneYet, ErrnoInv

LEMMA ErrnoReadCode ==
  ASSUME TypeInv, XlocInv, NoneYet, NEW l \in Libs, ErrnoInv(l), ReadCode
  PROVE  NoneYet' /\ ErrnoInv(l)'
<1>1. pc = "code" /\ UNCHANGED <<target, xloc, ret>>
  BY DEF ReadCode, Reads, mapVars
<1>2. ret.errno_location # 0
  BY ReadsSomewhere DEF ReadCode, TypeInv, TypeOK
<1>3. PICK i \in MappedAt(ret.errno_location) : code' \in CodeAt(i, ret.errno_location)
  BY DEF ReadCode
<1>4. ASSUME IsOnlyLibc(l)' PROVE AtErrno(l) /\ code' = File[l].code
  <2>1. IsOnlyLibc(l)
    BY <1>1, <1>4 DEF IsOnlyLibc
  <2>2. AtErrno(l) /\ XlocIsListed
    BY <1>1, <1>2, <2>1 DEF ErrnoInv, XlocInv
  <2>3. QED
    BY <1>3, <2>1, <2>2, CodeIsReal
<1>5. AtErrno(l) => AtErrno(l)'
  BY <1>1 DEF AtErrno, Relocated
<1>6. QED
  BY <1>1, <1>2, <1>4, <1>5 DEF NoneYet, ErrnoInv

LEMMA ErrnoStep ==
  ASSUME TypeInv, XlocInv, NoneYet, NEW l \in Libs, SourceInv(l), ErrnoInv(l), [Next]_vars
  PROVE  NoneYet' /\ ErrnoInv(l)'
<1>1. CASE FindSymbols
  BY <1>1, ErrnoFindSymbols
<1>2. CASE ReadCode
  BY <1>2, ErrnoReadCode
<1>3. CASE ReadOffset
  BY <1>3 DEF ReadOffset, NoneYet, ErrnoInv
<1>4. ASSUME NEW i \in DOMAIN target.lines, ReadLine(i) PROVE NoneYet' /\ ErrnoInv(l)'
  BY <1>4 DEF ReadLine, NoneYet, ErrnoInv
<1>5. CASE \/ OpenMaps \/ OpenMapsFails \/ NotLocated \/ MapsRead \/ OpenMem \/ ReadFails
           \/ ReadHeader \/ ReadSectionHeaders \/ ReadSectionHeadersFails
  BY <1>5, ErrnoKept DEF OpenMaps, OpenMapsFails, NotLocated, MapsRead, OpenMem, ReadFails,
     ReadHeader, ReadSectionHeaders, ReadSectionHeadersFails, Fails, Reads, mapVars, tableVars
<1>6. CASE \/ ReadDynsym \/ ReadDynsymFails \/ ReadStrtab \/ ReadStrtabFails
           \/ Fini \/ Exit \/ UNCHANGED vars
  BY <1>6, ErrnoKept DEF ReadDynsym, ReadDynsymFails, ReadStrtab, ReadStrtabFails, Fini,
     Exit, Fails, vars, mapVars, tableVars
<1>7. QED
  BY <1>1, <1>2, <1>3, <1>4, <1>5, <1>6 DEF Next

(* What LibcSearch sees.                                                   *)
LEMMA FormsKept == ASSUME UNCHANGED target PROVE FormsSeen' = FormsSeen
BY DEF FormsSeen, OneLibc, IsOnlyLibc

LEMMA ResultKept ==
  ASSUME UNCHANGED <<target, xloc, ret>>, pc' = pc \/ (pc = "fini" /\ pc' = "done")
  PROVE  ResultSeen' = ResultSeen
BY DEF ResultSeen, Accepted, ErrnoIsRight

LEMMA StillSearching ==
  ASSUME pc \notin {"crashed", "fini", "done"}, pc' \notin {"crashed", "fini", "done"},
         UNCHANGED <<target, alive>>
  PROVE  UNCHANGED Search!svars
BY FormsKept DEF ResultSeen, Search!svars

(* What fails has accepted nothing.                                        *)
LEMMA FailureSeen ==
  ASSUME NoneYet, pc \notin {"crashed", "fini", "done"}, pc' \in {"fini", "done"},
         UNCHANGED <<target, alive, ret>>
  PROVE  Search!Fails
<1>1. ret'.errno_fs_offset = 0
  BY DEF NoneYet
<1>2. ResultSeen = "searching" /\ ResultSeen' = "failed"
  BY <1>1 DEF ResultSeen, Accepted
<1>3. QED
  BY <1>2, FormsKept DEF Search!Fails

(* A file of the maps has one of the forms, and the only libc is one.      *)
LEMMA FormOfOnly ==
  ASSUME TypeInv
  PROVE  \/ FormsSeen = {"errno", "other", "fs", "none"}
         \/ \E l \in Libs : IsOnlyLibc(l) /\ FormsSeen = {FormOf(l)}
<1>1. CASE OneLibc
  <2>1. PICK l \in Libs : IsOnlyLibc(l)
    BY <1>1 DEF OneLibc
  <2>2. PICK i \in DOMAIN target.lines : Executable(target.lines[i])
    BY TargetAssumption DEF TypeInv, TypeOK
  <2>3. Shows(target.lines[i])
    BY <2>2 DEF Executable, Listed
  <2>4. {FormOf(target.lines[j].lib) : j \in {j \in DOMAIN target.lines : Shows(target.lines[j])}} = {FormOf(l)}
    BY <2>1, <2>3 DEF IsOnlyLibc
  <2>5. QED
    BY <1>1, <2>1, <2>4 DEF FormsSeen
<1>2. QED
  BY <1>1 DEF FormsSeen

LEMMA ReadCodeRefines ==
  ASSUME SearchInv, ReadCode
  PROVE  Search!Next \/ UNCHANGED Search!svars
<1>1. pc = "code" /\ alive /\ UNCHANGED <<target, alive, xloc, ret>>
  BY DEF ReadCode, Reads, mapVars
<1>2. CASE pc' = "offset"
  BY <1>1, <1>2, StillSearching
<1>3. CASE pc' = "fini"
  BY <1>1, <1>3, FailureSeen DEF SearchInv, Search!Next
<1>4. CASE pc' = "crashed"
  <2>1. First(code', "load") = {} /\ First(code', "fs") # {}
    BY <1>4 DEF ReadCode
  <2>2. "fs" \in FormsSeen
    <3>1. ASSUME NEW l \in Libs, IsOnlyLibc(l), FormsSeen = {FormOf(l)}
          PROVE  FormOf(l) = "fs"
      <4>1. ret.errno_location # 0
        BY ReadsSomewhere DEF ReadCode, SearchInv, TypeInv, TypeOK
      <4>2. AtErrno(l) /\ XlocIsListed
        BY <1>1, <3>1, <4>1 DEF SearchInv, ErrnoInv, XlocInv
      <4>3. code' = File[l].code
        BY <3>1, <4>2, CodeIsReal DEF ReadCode, SearchInv
      <4>4. QED
        BY <2>1, <4>3 DEF FormOf
    <3>2. QED
      BY <3>1, FormOfOnly DEF SearchInv
  <2>3. ResultSeen = "searching" /\ ResultSeen' = "fault"
    BY <1>1, <1>4 DEF ResultSeen
  <2>4. Search!Finds("fault", {"fs"})
    BY <1>1, <2>2, <2>3, FormsKept DEF Search!Finds
  <2>5. QED
    BY <2>4 DEF Search!Next
<1>5. QED
  BY <1>2, <1>3, <1>4 DEF ReadCode

(* With the form find_libc knows, the offset it takes is the right one.    *)
LEMMA OffsetIsRight ==
  ASSUME SearchInv, ReadOffset, NEW l \in Libs, IsOnlyLibc(l), FormOf(l) = "errno", Accepted'
  PROVE  ErrnoIsRight'
<1>1. /\ pc = "offset" /\ UNCHANGED <<target, xloc>>
      /\ ret.errno_fs_offset = 0
      /\ code = File[l].code /\ AtErrno(l) /\ XlocIsListed
  BY DEF ReadOffset, Reads, mapVars, SearchInv, NoneYet, ErrnoInv, XlocInv
<1>2. ErrnoLoaded(l)
  BY DEF FormOf
<1>3. PICK k \in First(code, "load") :
        \E i \in MappedAt(Loaded(k)) : \E w \in WordAt(i, Loaded(k)) :
          IF Plausible(w) THEN ret' = [ret EXCEPT !.errno_fs_offset = w] ELSE UNCHANGED ret
  BY DEF ReadOffset
<1>4. PICK i \in MappedAt(Loaded(k)) : \E w \in WordAt(i, Loaded(k)) :
        IF Plausible(w) THEN ret' = [ret EXCEPT !.errno_fs_offset = w] ELSE UNCHANGED ret
  BY <1>3
<1>5. PICK w \in WordAt(i, Loaded(k)) :
        IF Plausible(w) THEN ret' = [ret EXCEPT !.errno_fs_offset = w] ELSE UNCHANGED ret
  BY <1>4
<1>6. w = File[l].errno
  BY <1>1, <1>2, <1>3, <1>4, <1>5, WordIsReal DEF SearchInv
<1>7. ret'.errno_fs_offset = w
  <2>1. ret' # ret
    BY <1>1 DEF Accepted
  <2>2. QED
    BY <1>5, <2>1 DEF SearchInv, TypeInv, TypeOK
<1>8. PICK x \in DOMAIN target.lines : Executable(target.lines[x]) /\ xloc = LocOf(target.lines[x])
  BY <1>1 DEF XlocIsListed
<1>9. target.lines[x].lib = l
  BY <1>8 DEF IsOnlyLibc, Executable, Listed
<1>10. QED
  BY <1>1, <1>6, <1>7, <1>8, <1>9 DEF ErrnoIsRight

LEMMA ReadOffsetRefines ==
  ASSUME SearchInv, ReadOffset
  PROVE  Search!Next
<1>1. pc = "offset" /\ alive /\ pc' = "fini" /\ UNCHANGED <<target, alive>>
  BY DEF ReadOffset, Reads
<1>2. ResultSeen = "searching" /\ FormsSeen' = FormsSeen
  BY <1>1, FormsKept DEF ResultSeen
<1>3. CASE ~Accepted'
  <2>1. ResultSeen' = "failed"
    BY <1>1, <1>3 DEF ResultSeen
  <2>2. QED
    BY <1>1, <1>2, <2>1 DEF Search!Fails, Search!Next
<1>4. CASE Accepted' /\ ErrnoIsRight'
  <2>1. ResultSeen' = "right"
    BY <1>1, <1>4 DEF ResultSeen
  <2>2. FormsSeen \cap {"errno", "other"} # {}
    <3>1. ASSUME NEW l \in Libs, IsOnlyLibc(l), FormsSeen = {FormOf(l)}
          PROVE  FormOf(l) \in {"errno", "other"}
      BY <1>1, <3>1 DEF ReadOffset, SearchInv, ErrnoInv, FormOf
    <3>2. QED
      BY <3>1, FormOfOnly DEF SearchInv
  <2>3. Search!Finds("right", {"errno", "other"})
    BY <1>1, <1>2, <2>1, <2>2 DEF Search!Finds
  <2>4. QED
    BY <2>3 DEF Search!Next
<1>5. CASE Accepted' /\ ~ErrnoIsRight'
  <2>1. ResultSeen' = "wrong"
    BY <1>1, <1>5 DEF ResultSeen
  <2>2. FormsSeen \cap {"other"} # {}
    <3>1. ASSUME NEW l \in Libs, IsOnlyLibc(l), FormsSeen = {FormOf(l)}
          PROVE  FormOf(l) = "other"
      <4>1. FormOf(l) \in {"errno", "other"}
        BY <1>1, <3>1 DEF ReadOffset, SearchInv, ErrnoInv, FormOf
      <4>2. FormOf(l) # "errno"
        BY <1>5, <3>1, OffsetIsRight
      <4>3. QED
        BY <4>1, <4>2
    <3>2. QED
      BY <3>1, FormOfOnly DEF SearchInv
  <2>3. Search!Finds("wrong", {"other"})
    BY <1>1, <1>2, <2>1, <2>2 DEF Search!Finds
  <2>4. QED
    BY <2>3 DEF Search!Next
<1>6. QED
  BY <1>3, <1>4, <1>5

LEMMA NextSearches ==
  ASSUME SearchInv, [Next]_vars
  PROVE  [Search!Next]_(Search!svars)
<1>1. CASE ReadCode
  BY <1>1, ReadCodeRefines
<1>2. CASE ReadOffset
  BY <1>2, ReadOffsetRefines
<1>3. ASSUME NEW i \in DOMAIN target.lines, ReadLine(i) PROVE UNCHANGED Search!svars
  BY <1>3, StillSearching DEF ReadLine
<1>4. CASE \/ OpenMaps \/ MapsRead \/ OpenMem \/ ReadHeader \/ ReadSectionHeaders
           \/ ReadDynsym \/ ReadStrtab \/ FindSymbols
  <2>1. /\ pc \notin {"crashed", "fini", "done"} /\ pc' \notin {"crashed", "fini", "done"}
        /\ UNCHANGED <<target, alive>>
    BY <1>4 DEF OpenMaps, MapsRead, OpenMem, ReadHeader, Reads, ReadSectionHeaders,
       ReadDynsym, ReadStrtab, FindSymbols
  <2>2. QED
    BY <2>1, StillSearching
<1>5. CASE \/ OpenMapsFails \/ NotLocated \/ ReadFails \/ ReadSectionHeadersFails
           \/ ReadDynsymFails \/ ReadStrtabFails
  <2>1. /\ pc \notin {"crashed", "fini", "done"} /\ pc' \in {"fini", "done"}
        /\ UNCHANGED <<target, alive, ret>>
    BY <1>5 DEF OpenMapsFails, NotLocated, ReadFails, ReadSectionHeadersFails,
       ReadDynsymFails, ReadStrtabFails, Fails
  <2>2. QED
    BY <2>1, FailureSeen DEF SearchInv, Search!Next
<1>6. CASE Fini \/ UNCHANGED vars
  <2>1. UNCHANGED <<target, alive, xloc, ret>> /\ (pc' = pc \/ (pc = "fini" /\ pc' = "done"))
    BY <1>6 DEF Fini, vars, mapVars
  <2>2. QED
    BY <2>1, FormsKept, ResultKept DEF Search!svars
<1>7. CASE Exit
  <2>1. UNCHANGED <<target, pc, xloc, ret>> /\ alive /\ alive' = FALSE
    BY <1>7 DEF Exit, mapVars
  <2>2. Search!Ends
    BY <2>1, FormsKept, ResultKept DEF Search!Ends
  <2>3. QED
    BY <2>2 DEF Search!Next
<1>8. QED
  BY <1>1, <1>2, <1>3, <1>4, <1>5, <1>6, <1>7 DEF Next

(* find_libc is what Bootstrap takes it for: whatever is mapped beside     *)
(* libc, whenever the process ends and whatever garbage is read, a result  *)
(* that wine_portal_init accepts comes from a process that lives, with the *)
(* right errno offset unless another load comes first in the code, and     *)
(* only the form of code that find_libc misreads makes it fault.           *)
THEOREM FindLibcImplementsSearch == Spec => ImplementsSearch
<1>1. Init => SearchInv
  BY InitTypes, InitXloc, InitSource
     DEF SearchInv, AllSources, NoneYet, ErrnoInv, Init, NoFunctions
<1>2. SearchInv /\ [Next]_vars => SearchInv'
  <2> SUFFICES ASSUME SearchInv, [Next]_vars PROVE SearchInv'
    OBVIOUS
  <2>1. TypeInv' /\ XlocInv'
    BY TypeStep, XlocStep DEF SearchInv
  <2>2. ASSUME NEW l \in Libs PROVE SourceInv(l)' /\ NoneYet' /\ ErrnoInv(l)'
    BY SourceStep, ErrnoStep DEF SearchInv, AllSources
  <2>3. PICK i \in DOMAIN target.lines : Executable(target.lines[i])
    BY TargetAssumption DEF SearchInv, TypeInv, TypeOK
  <2>4. target.lines[i].lib \in Libs
    <3>1. target.lines \in Seq(Line)
      BY TargetAssumption DEF SearchInv, TypeInv, TypeOK
    <3>2. target.lines[i] \in Line
      BY <3>1, ElementOfSeq
    <3>3. QED
      BY <2>3, <3>2 DEF Line, Executable, Listed, Shows
  <2>5. NoneYet'
    BY <2>2, <2>4
  <2>6. QED
    BY <2>1, <2>2, <2>5 DEF SearchInv, AllSources
<1>3. Init => Search!Init
  <2>1. Init => alive = TRUE /\ ResultSeen = "searching"
    BY DEF Init, ResultSeen
  <2>2. FormsSeen \subseteq Search!Forms
    BY DEF FormsSeen, FormOf, Search!Forms
  <2>3. QED
    BY <2>1, <2>2 DEF Search!Init
<1>4. SearchInv /\ [Next]_vars => [Search!Next]_(Search!svars)
  BY NextSearches
<1>5. QED
  BY <1>1, <1>2, <1>3, <1>4, PTL DEF Spec, ImplementsSearch, Search!Spec

=============================================================================
