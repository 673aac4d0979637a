----------------------------- MODULE MCHeavens ------------------------------
(***************************************************************************)
(* Instances of Heavens for TLC.                                           *)
(***************************************************************************)
EXTENDS Heavens, TLC

None(rex, opcode, operand, imm) ==
  [rex |-> rex, opcode |-> opcode, operand |-> operand, target |-> "none", value |-> 0, imm |-> imm]
Data(rex, opcode, operand, value, imm) ==
  [None(rex, opcode, operand, imm) EXCEPT !.target = "data", !.value = value]
Call(value) == [None(<<>>, CallRel, <<>>, <<>>) EXCEPT !.target = "call", !.value = value]

Xchg  == None(<<76>>, <<135>>, <<244>>, <<>>)   \* xchg rsp, r14
IretQ == None(<<72>>, IretOp, <<>>, <<>>)
Nop1  == None(<<>>, <<144>>, <<>>, <<>>)

(* Every kind of instruction of Wine's trampoline, with every form of      *)
(* operand, and one that decompile_copy does not know.                     *)
Forms ==
  {None(<<>>,   <<85>>,  <<>>, <<>>),                        \* push rbp
   None(<<65>>, <<92>>,  <<>>, <<>>),                        \* pop r12
   None(<<>>,   <<156>>, <<>>, <<>>),                        \* pushf
   Xchg,
   None(<<72>>, <<137>>, <<193>>, <<>>),                     \* mov rcx, rax
   None(<<65>>, <<137>>, <<125, 156>>, <<>>),                \* mov [r13-0x64], edi
   None(<<65>>, <<137>>, <<189, 160, 0, 0, 0>>, <<>>),       \* mov [r13+0xa0], edi
   None(<<65>>, <<139>>, <<22>>, <<>>),                      \* mov edx, [r14]
   None(<<>>,   <<137>>, <<20, 36>>, <<>>),                  \* mov [rsp], edx
   None(<<>>,   <<137>>, <<84, 36, 232>>, <<>>),             \* mov [rsp-0x18], edx
   None(<<73>>, <<141>>, <<86, 8>>, <<>>),                   \* lea rdx, [r14+8]
   None(<<>>,   <<142>>, <<216>>, <<>>),                     \* mov ds, eax
   None(<<65>>, Btr,     <<117, 252>>, <<0>>),               \* btr [r13-4], 0
   Data(<<>>,   Btr,     <<53>>, -300, <<207>>),             \* btr [rip-300], 207
   Data(<<72>>, <<141>>, <<13>>, 20, <<>>),                  \* lea rcx, [rip+20]
   Call(378),                                                \* call
   None(<<>>,   Jb,      <<>>, <<2>>),                       \* jb +2
   None(<<65>>, <<255>>, <<46>>, <<>>),                      \* jmp far [r14]
   Nop1}                                                     \* nop, which is not known

(* Two of them and iret, and what comes after it; three that are as long   *)
(* as the room and one byte longer; and one without an iret.               *)
MCPrograms ==
  {<<f, g, IretQ, Nop1>> : f \in Forms, g \in Forms}
  \cup {<<Call(1), Call(2), Call(3), None(<<>>, IretOp, <<>>, <<>>)>>,
        <<Call(1), Call(2), Call(3), IretQ>>,
        [k \in 1 .. 20 |-> Xchg]}

(* The lowest and the highest errno offset that find_libc accepts, and     *)
(* one where errno overlaps the pointer at fs:0.                           *)
MCOffsets == {-511, 2, 255}

=============================================================================
