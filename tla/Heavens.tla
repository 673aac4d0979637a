------------------------------- MODULE Heavens -------------------------------
(***************************************************************************)
(* The gate to the system calls of libc (src/heavens.c, src/syscall.S and  *)
(* src/errno_conv.c).  hg_setup copies Wine's 64-bit trampoline next to a  *)
(* system call core, instruction by instruction, so that the call it makes *)
(* goes to the core and what it addresses relative to rip stays where it   *)
(* was.  A system call then enters the core, which stands a piece of its   *)
(* own stack in for libc's thread data, calls libc's syscall, picks errno  *)
(* out of that piece and returns; errnoConv turns the number into errno.   *)
(*                                                                         *)
(* Abstractions: the trampoline is a program, a sequence of instructions   *)
(* that is encoded as bytes before it is read; a byte past it is a nop; of *)
(* a stack frame the model keeps the fields written, each with its place,  *)
(* and a write that overlaps a field destroys it; an error is the number   *)
(* Linux gives to the error of that name.  The errno offset is the one     *)
(* libc uses (Bootstrap is about when it is not), and the trampoline       *)
(* itself does what it does (it is Wine's).                                *)
(***************************************************************************)
EXTENDS Integers, Sequences, FiniteSets

CONSTANTS
  Programs,   \* the trampolines
  InAddr,     \* where the trampoline is
  OutAddr,    \* where its copy goes: code_buffer + OFFSET_TRAMPOLINE
  CoreAddr,   \* where the core is: code_buffer + OFFSET_SYSCALL
  Limit,      \* how many bytes of the trampoline are read
  Room,       \* OFFSET_SYSCALL_PTRS - OFFSET_TRAMPOLINE
  Offsets,    \* the offsets from fs at which libc may keep errno
  Errnos,     \* the errors libc reports
  Results,    \* the results it reports
  NULL        \* no gate

Byte == 0 .. 255

ERRNO_OFFSET_MAX == 256
ERRNO_OFFSET_MIN == -512

(* An instruction of the trampoline.  The operand is a modrm byte and what *)
(* belongs to it; value, if there is a target, a displacement of four      *)
(* bytes that is added to the address of the next instruction.             *)
Instruction ==
  [rex : Seq(Byte), opcode : Seq(Byte), operand : Seq(Byte),
   target : {"none", "data", "call"}, value : Int, imm : Seq(Byte)]

Btr     == <<15, 186>>
Jb      == <<114>>
CallRel == <<232>>
IretOp  == <<207>>

(* btr, xchg, mov, lea, mov to a segment register, group ff; and those     *)
(* that are an opcode alone: push, pop, pushf, iret.                       *)
WithOperand == {Btr, <<135>>, <<137>>, <<139>>, <<141>>, <<142>>, <<255>>}
Alone       == {<<b>> : b \in 80 .. 95} \cup {<<156>>, IretOp}

(* An operand as the processor reads it.  One with an index and no base is *)
(* left out: its displacement does not show in the modrm byte.             *)
HasOperand(i) ==
  LET mod == i.operand[1] \div 64
      rm  == i.operand[1] % 8
      sib == IF mod # 3 /\ rm = 4 THEN 1 ELSE 0
  IN  /\ i.operand # <<>>
      /\ Len(i.operand) = 1 + sib + (IF mod = 1 THEN 1 ELSE IF mod = 2 THEN 4 ELSE 0)
      /\ sib = 1 /\ mod = 0 => i.operand[2] % 8 # 5
      /\ i.target = IF mod = 0 /\ rm = 5 THEN "data" ELSE "none"

NoOperand(i, target) == i.operand = <<>> /\ i.target = target

Rex == {<<b>> : b \in 64 .. 79}

(* What the processor reads the bytes of an instruction as, for an opcode  *)
(* decompile_copy knows; any other is one byte, or 15 and another.         *)
Encoding(i) ==
  /\ i.rex \in Rex \cup {<<>>}
  /\ \/ i.opcode \in WithOperand /\ HasOperand(i) /\ Len(i.imm) = (IF i.opcode = Btr THEN 1 ELSE 0)
     \/ i.opcode \in Alone /\ NoOperand(i, "none") /\ i.imm = <<>>
     \/ i.opcode = Jb /\ NoOperand(i, "none") /\ Len(i.imm) = 1
     \/ i.opcode = CallRel /\ NoOperand(i, "call") /\ i.imm = <<>>
     \/ /\ i.opcode \notin WithOperand \cup Alone \cup Rex \cup {Jb, CallRel}
        /\ \/ Len(i.opcode) = 1 /\ i.opcode # <<15>>
           \/ Len(i.opcode) = 2 /\ i.opcode[1] = 15

ASSUME ProgramsAssumption ==
  /\ Programs \subseteq Seq(Instruction)
  /\ \A q \in Programs : \A k \in DOMAIN q : Encoding(q[k])
ASSUME AddressAssumption  == InAddr \in Nat /\ OutAddr \in Nat /\ CoreAddr \in Nat
ASSUME SizeAssumption     == Limit \in Nat /\ Room \in 0 .. Limit
ASSUME OffsetsAssumption  == Offsets \subseteq (ERRNO_OFFSET_MIN + 1) .. (ERRNO_OFFSET_MAX - 1)
ASSUME ErrnosAssumption   == Errnos \subseteq 1 .. 4095
ASSUME ResultsAssumption  == Results \subseteq Nat

VARIABLES
  pc,       \* where setup or the call is
  program,  \* Wine's trampoline
  offset,   \* libc.errno_fs_offset
  p,        \* the position decompile_copy has come to
  out,      \* the copy
  gate,     \* heavensGate
  frame,    \* the fields written to the stack of the core
  fs,       \* the base of the fs segment
  did,      \* what libc did last: a result or an errno
  result,   \* what syscall returned last
  errno     \* the caller's errno

setupVars == <<program, offset, p, out, gate>>
callVars  == <<frame, fs, did, result, errno>>
vars      == <<pc, setupVars, callVars>>

Goto(l) == pc' = l

-----------------------------------------------------------------------------
(* Bytes.                                                                  *)

(* Four bytes of an unsigned, the lowest first, and back as a signed one.  *)
Bytes4(n) == <<n % 256, (n \div 256) % 256, (n \div 65536) % 256, (n \div 16777216) % 256>>

Signed4(b) ==
  b[1] + 256 * b[2] + 65536 * b[3] + 16777216 * (IF b[4] < 128 THEN b[4] ELSE b[4] - 256)

Displacement(i) == IF i.target = "none" THEN <<>> ELSE Bytes4(i.value)

Encoded(i) == i.rex \o i.opcode \o i.operand \o Displacement(i) \o i.imm

(* The bytes of the first n instructions, and of all.                      *)
CodeUpTo(is) ==
  LET upTo[n \in 0 .. Len(is)] == IF n = 0 THEN <<>> ELSE upTo[n - 1] \o Encoded(is[n])
  IN  upTo

Code(is) == CodeUpTo(is)[Len(is)]

Nop == 144
At(k) == IF k <= Len(Code(program)) THEN Code(program)[k] ELSE Nop
Slice(from, to) == [k \in 1 .. (to + 1 - from) |-> At(from + k - 1)]

-----------------------------------------------------------------------------
(* decompile_copy: what it takes the bytes from position k on for.         *)

HasRex(k)  == At(k) \in 64 .. 79
OpAt(k)    == IF HasRex(k) THEN k + 1 ELSE k
Op(k)      == At(OpAt(k))
IsBtr(k)   == Op(k) = 15 /\ At(OpAt(k) + 1) = 186
IsIret(k)  == Op(k) = 207
IsCall(k)  == Op(k) = 232
IsStack(k) == Op(k) \in 80 .. 95 \cup {156}                  \* push, pop, pushf
IsJb(k)    == Op(k) = 114

(* btr, xchg, mov, lea, mov to a segment register, group ff.               *)
WantModrm(k) == IsBtr(k) \/ Op(k) \in {135, 137, 139, 141, 142, 255}
Known(k)     == WantModrm(k) \/ IsIret(k) \/ IsCall(k) \/ IsStack(k) \/ IsJb(k)

ModrmAt(k) == OpAt(k) + (IF IsBtr(k) THEN 2 ELSE 1)
Mod(k)     == At(ModrmAt(k)) \div 64
Rm(k)      == At(ModrmAt(k)) % 8
WantSib(k) == WantModrm(k) /\ Mod(k) # 3 /\ Rm(k) = 4
IsRip(k)   == WantModrm(k) /\ Mod(k) = 0 /\ Rm(k) = 5

DispWithoutSib(k) == ModrmAt(k) + (IF WantModrm(k) THEN 1 ELSE 0)   \* mutant

(* Where the displacement begins, and how long it is.                      *)
DispAt(k) ==
  ModrmAt(k) + (IF ~WantModrm(k) THEN 0 ELSE IF WantSib(k) THEN 2 ELSE 1)

DispSize(k) ==
  IF IsCall(k) \/ IsRip(k) THEN 4
  ELSE IF ~WantModrm(k) THEN 0
  ELSE IF Mod(k) = 1 THEN 1
  ELSE IF Mod(k) = 2 THEN 4
  ELSE 0

ImmSize(k) == IF IsBtr(k) \/ IsJb(k) THEN 1 ELSE 0
End(k)     == DispAt(k) + DispSize(k) + ImmSize(k) - 1

distance == InAddr - OutAddr

(* The displacement of the copy: past what was copied so far, the address  *)
(* of the copy of position j is that of position j minus the distance.     *)
CopiedDisp(k) ==
  LET old == Slice(DispAt(k), DispAt(k) + 3)
      to  == OutAddr + DispAt(k) - 1
  IN  IF IsCall(k) THEN Bytes4(CoreAddr - to - 4)
      ELSE IF IsRip(k) THEN Bytes4(Signed4(old) + distance)
      ELSE Slice(DispAt(k), DispAt(k) + DispSize(k) - 1)

CopyOf(k) ==
  Slice(k, DispAt(k) - 1) \o CopiedDisp(k) \o Slice(DispAt(k) + DispSize(k), End(k))

-----------------------------------------------------------------------------
(* The frame of _syscall: sub $(MAX - MIN + 32), %rsp.                     *)

FrameSize == ERRNO_OFFSET_MAX - ERRNO_OFFSET_MIN + 32

FsBaseTooLow == 8 - ERRNO_OFFSET_MIN   \* mutant

FsBase == 24 - ERRNO_OFFSET_MIN

Field == [name : {"rip", "rbp", "fs", "self", "errno"}, at : Int, size : {4, 8}]

Return == [name |-> "rip", at |-> FrameSize + 8, size |-> 8]
Rbp    == [name |-> "rbp", at |-> FrameSize, size |-> 8]
OldFs  == [name |-> "fs", at |-> 8, size |-> 8]
Self   == [name |-> "self", at |-> FsBase, size |-> 8]
Errno  == [name |-> "errno", at |-> FsBase + offset, size |-> 4]

Disjoint(f, g) == f.at + f.size <= g.at \/ g.at + g.size <= f.at
Stored(f, fields) == {g \in fields : Disjoint(f, g)} \cup {f}

-----------------------------------------------------------------------------
(* errnoConv, above 34: the errors the switch names.  It takes 36, which is *)
(* ENAMETOOLONG, for EDEADLK, which is 35.                                 *)
EINVAL == 22
ENOSYS == 38

Named ==
  {38, 39, 40, 42, 43, 60, 61, 62, 63, 67, 71, 74, 75, 84} \cup 88 .. 93 \cup {95}
  \cup 97 .. 107 \cup {110, 111, 113, 114, 115, 125, 130, 131}

SetErrno(e) ==
  IF e <= 34 \/ e \in Named THEN e
  ELSE IF e = 36 THEN 35
  ELSE EINVAL

ETXTBSY == 139   \* the number Windows gives it

-----------------------------------------------------------------------------
Init ==
  /\ pc = "setup"
  /\ program \in Programs
  /\ offset \in Offsets
  /\ p = 1
  /\ out = <<>>
  /\ gate = NULL
  /\ frame = {}
  /\ fs = "teb"
  /\ did = [rax |-> 0, errno |-> 0]
  /\ result = 0
  /\ errno = 0

(* hg_setup clears code_buffer and puts the core and its pointers into it. *)
Setup ==
  /\ pc = "setup"
  /\ Goto("copy")
  /\ UNCHANGED <<setupVars, callVars>>

(* There is no TEB, or no WOW32Reserved in it.                             *)
SetupFails ==
  /\ pc = "setup"
  /\ Goto("failed")
  /\ UNCHANGED <<setupVars, callVars>>

CopyCallTwice ==   \* mutant: p is not moved past the displacement of a call
  /\ pc = "copy"
  /\ p <= Limit
  /\ Known(p)
  /\ ~IsIret(p)
  /\ out' = out \o CopyOf(p)
  /\ p' = IF IsCall(p) THEN DispAt(p) ELSE End(p) + 1
  /\ UNCHANGED <<pc, program, offset, gate, callVars>>

(* One turn of the loop.                                                   *)
CopyInstruction ==
  /\ pc = "copy"
  /\ p <= Limit
  /\ Known(p)
  /\ ~IsIret(p)
  /\ out' = out \o CopyOf(p)
  /\ p' = End(p) + 1
  /\ UNCHANGED <<pc, program, offset, gate, callVars>>

UnknownInstruction ==
  /\ pc = "copy"
  /\ p <= Limit
  /\ ~Known(p)
  /\ Goto("failed")
  /\ UNCHANGED <<setupVars, callVars>>

(* The copy ends with iret, or with the bytes to be read, which nobody     *)
(* notices; nor that it ran into the pointers and the core behind it.      *)
(* code_buffer is sealed and heavensGate set.                              *)
Ready(copied) ==
  /\ out' = out \o copied
  /\ p' = p + Len(copied)
  /\ gate' = "linsys"
  /\ Goto("ready")
  /\ UNCHANGED <<program, offset, callVars>>

Iret ==
  /\ pc = "copy"
  /\ p <= Limit
  /\ IsIret(p)
  /\ Ready(Slice(p, OpAt(p)))

EndOfTrampoline ==
  /\ pc = "copy"
  /\ p > Limit
  /\ Ready(<<>>)

-----------------------------------------------------------------------------
(* The copy is all of the trampoline, and did not grow into the core.      *)
Runs == out # <<>> /\ out[Len(out)] = 207 /\ Len(out) <= Room

(* _syscall, up to the call of libc: the caller's rip and rbp are on the   *)
(* stack, fs is saved and moved.                                           *)
Enter ==
  /\ pc = "ready"
  /\ gate # NULL
  /\ Runs
  /\ frame' = Stored(Self, Stored(OldFs, Stored(Rbp, Stored(Return, {}))))
  /\ fs' = "frame"
  /\ Goto("libc")
  /\ UNCHANGED <<setupVars, did, result, errno>>

EnterFaults ==
  /\ pc = "ready"
  /\ gate # NULL
  /\ ~Runs
  /\ Goto("crashed")
  /\ UNCHANGED <<setupVars, callVars>>

(* libc's syscall.                                                         *)
Succeeds(r) ==
  /\ pc = "libc"
  /\ did' = [rax |-> r, errno |-> 0]
  /\ Goto("leave")
  /\ UNCHANGED <<setupVars, frame, fs, result, errno>>

Fails(e) ==
  /\ pc = "libc"
  /\ did' = [rax |-> -1, errno |-> e]
  /\ frame' = Stored(Errno, frame)
  /\ Goto("leave")
  /\ UNCHANGED <<setupVars, fs, result, errno>>

(* What the core has in rax when it returns.                               *)
Rax == IF did.rax = -1 THEN -did.errno ELSE did.rax

(* _syscall, after the call, and errnoConv with what it returned.  What    *)
(* was written over rip and rbp is where the core returns to.              *)
Leave ==
  /\ pc = "leave"
  /\ fs' = IF OldFs \in frame THEN "teb" ELSE "lost"
  /\ frame' = {}
  /\ IF -4096 < Rax /\ Rax < 0
     THEN IF Rax = -26
          THEN result' = ETXTBSY /\ UNCHANGED errno
          ELSE result' = -1 /\ errno' = SetErrno(-Rax)
     ELSE result' = Rax /\ UNCHANGED errno
  /\ Goto(IF {Return, Rbp} \subseteq frame THEN "ready" ELSE "crashed")
  /\ UNCHANGED <<setupVars, did>>

Next ==
  \/ Setup \/ SetupFails
  \/ CopyInstruction \/ UnknownInstruction \/ Iret \/ EndOfTrampoline
  \/ Enter \/ EnterFaults
  \/ \E r \in Results : Succeeds(r)
  \/ \E e \in Errnos : Fails(e)
  \/ Leave

Spec == Init /\ [][Next]_vars

-----------------------------------------------------------------------------
(* The state has the shape the declarations say.  The copy keeps step with *)
(* what is read, and at most one instruction is read past the limit        *)
(* (src/heavens.c 83-240).                                                 *)
TypeOK ==
  /\ pc \in {"setup", "copy", "failed", "ready", "libc", "leave", "crashed"}
  /\ program \in Programs
  /\ offset \in Offsets
  /\ p \in 1 .. (Limit + 16)
  /\ out \in Seq(Byte)
  /\ Len(out) = p - 1
  /\ gate \in {NULL, "linsys"}
  /\ frame \subseteq Field
  /\ fs \in {"teb", "frame", "lost"}
  /\ did \in [rax : {-1} \cup Nat, errno : {0} \cup Errnos]
  /\ result \in {-1} \cup Nat
  /\ errno \in 0 .. 4095

(* The first iret, if there is one, with which the trampoline ends.        *)
IretAt(k) == program[k].opcode = IretOp
HasIret   == \E k \in DOMAIN program : IretAt(k)
FirstIret == CHOOSE k \in DOMAIN program : IretAt(k) /\ \A j \in 1 .. (k - 1) : ~IretAt(j)

Fits == HasIret /\ Len(CodeUpTo(program)[FirstIret]) <= Room

(* The same instructions elsewhere, the data they address where it was and *)
(* the calls made to the core: a target is an address less that of the     *)
(* next instruction.                                                       *)
MovedValue(i, next) ==
  CASE i.target = "none" -> i.value
    [] i.target = "data" -> (InAddr + next + i.value) - (OutAddr + next)
    [] i.target = "call" -> CoreAddr - (OutAddr + next)

Moved(is) ==
  [k \in DOMAIN is |-> [is[k] EXCEPT !.value = MovedValue(is[k], Len(CodeUpTo(is)[k]))]]

(* The copy of a trampoline that fits its room does what the trampoline    *)
(* did, except that it calls the core; and only a trampoline that does not *)
(* fit, or has no iret, makes the gate crash (src/heavens.c 71-243, 280).  *)
CopyIsFaithful ==
  /\ gate # NULL /\ Fits => out = CodeUpTo(Moved(program))[FirstIret]
  /\ pc = "crashed" => ~Fits

(* The caller of a system call learns what libc said: the result, or -1    *)
(* and the error; or -1 and EINVAL, for an error without a counterpart;    *)
(* but for 26, which is returned as the result 139 (src/errno_conv.c 15),  *)
(* and 36, which becomes 35.  ENOSYS, which wine_portal_init looks at, is  *)
(* always told, and the segment base is what it was (src/syscall.S).       *)
FailureIsTold ==
  pc = "ready" =>
    /\ fs = "teb"
    /\ did.rax # -1 => result = did.rax
    /\ did.rax = -1 /\ did.errno = 26 => result = ETXTBSY
    /\ did.rax = -1 /\ did.errno # 26 =>
         /\ result = -1
         /\ errno \in {IF did.errno = 36 THEN 35 ELSE did.errno, EINVAL}
         /\ did.errno \in 1 .. 34 \cup {ENOSYS} => errno = did.errno

=============================================================================
