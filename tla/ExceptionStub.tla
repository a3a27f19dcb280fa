--------------------------- MODULE ExceptionStub ---------------------------
(***************************************************************************)
(* The way through an exception: the CPU's frame, the stub of              *)
(* kernel/asm.S, the C handler of kernel/exception.c behind it, and the    *)
(* way back.  In this kernel it is a normal event: do_page_fault maps the  *)
(* page and the interrupted code goes on as if nothing had happened.       *)
(*                                                                         *)
(* A word is named for what it was when the exception came: the word       *)
(* "rbx" is the interrupted code's rbx, wherever it lies now.  The stack   *)
(* is a sequence, its top first.  The stubs are run an instruction at a    *)
(* time, the C handler is one step.                                        *)
(***************************************************************************)
EXTENDS Naturals, Sequences, SequencesExt

CONSTANT Vectors       \* exceptions the kernel's code may cause

VARIABLES vector,      \* the exception in progress, or NoVector
          present,     \* bit 0 of its error code: the page is present
          pc,          \* next instruction of its stub
          reg, stack,
          resumed,     \* the words the interrupted code went on with last
          seen,        \* history: what a handler found in its frame last
          at           \* "code", "stub" or "halted"

vars == <<vector, present, pc, reg, stack, resumed, seen, at>>

NoVector == 256
Saved == <<"rax", "rbx", "rcx", "rdx", "rdi", "rsi", "rbp">>
Regs == Range(Saved) \cup {"r8", "r9", "r10", "r11", "r12", "r13", "r14", "r15"}

\* The x86-64 calling convention (external): what a C function may change.
CallerSaved == {"rax", "rcx", "rdx", "rdi", "rsi", "r8", "r9", "r10", "r11"}

\* The fields of struct interrupt_frame that the handlers read, and where
\* they lie: rbp, rsi, rdi, rdx, rcx, rbx and rax are in front of them.
Frame == [error |-> 8, rip |-> 9]

\* The installed stubs, and the ones that push an error code of their own.
Idt == {0, 3, 6, 7, 8, 13, 14, 16, 19}
NoErr == {0, 3, 6, 7, 16, 19}
\* The vectors with an error code from the CPU (external).
CpuError == {8, 10, 11, 12, 13, 14, 17}

CpuFrame == <<"rip", "cs", "rflags", "rsp", "ss">>
NoFrame == [v |-> NoVector]

Init ==
  /\ vector = NoVector /\ present = FALSE /\ pc = 1
  /\ reg = [r \in Regs |-> r]
  /\ stack = <<"data">>
  /\ resumed = CpuFrame
  /\ seen = NoFrame
  /\ at = "code"

----------------------------------------------------------------------------

\* The CPU (external).  A vector without a descriptor ends in a double fault.
Raise(v) ==
  LET w == IF v \in Idt THEN v ELSE 8
      error == IF w \in CpuError THEN <<"error">> ELSE <<>>
  IN  /\ at = "code"
      /\ vector' = w /\ at' = "stub" /\ pc' = 1
      /\ present' \in (IF w = 14 THEN BOOLEAN ELSE {FALSE})
      /\ stack' = error \o CpuFrame \o stack
      /\ reg' = [r \in Regs |-> r]
      /\ UNCHANGED <<resumed, seen>>

Dummy(v) == IF v \in NoErr THEN <<[op |-> "push0"]>> ELSE <<>>

SAVE_ALL_REGISTERS == [i \in DOMAIN Saved |-> [op |-> "push", r |-> Saved[i]]]

\* Mutant: the registers are taken back in the order they were saved in.
RESTORE_ALL_REGISTERS_sameOrder == [i \in DOMAIN Saved |-> [op |-> "pop", r |-> Saved[i]]]
RESTORE_ALL_REGISTERS ==
  LET Restored == <<"rbp", "rsi", "rdi", "rdx", "rcx", "rbx", "rax">>
  IN  [i \in DOMAIN Restored |-> [op |-> "pop", r |-> Restored[i]]]

SkipError == <<[op |-> "skip"]>>

\* exception_handler and exception_handler_noerr
Stub(v) ==
  Dummy(v) \o SAVE_ALL_REGISTERS \o <<[op |-> "mov"], [op |-> "call"]>>
    \o RESTORE_ALL_REGISTERS \o SkipError \o <<[op |-> "iretq"]>>

Instruction(op) == at = "stub" /\ Stub(vector)[pc].op = op
Operand == Stub(vector)[pc].r

Push0 ==
  /\ Instruction("push0")
  /\ stack' = <<"zero">> \o stack
  /\ pc' = pc + 1
  /\ UNCHANGED <<vector, present, reg, resumed, seen, at>>

Push ==
  /\ Instruction("push")
  /\ stack' = <<reg[Operand]>> \o stack
  /\ pc' = pc + 1
  /\ UNCHANGED <<vector, present, reg, resumed, seen, at>>

MovRspRdi ==
  /\ Instruction("mov")
  /\ reg' = [reg EXCEPT !["rdi"] = "frame"]
  /\ pc' = pc + 1
  /\ UNCHANGED <<vector, present, stack, resumed, seen, at>>

\* do_breakpoint returns, do_page_fault does unless the page is present; the
\* others print and stay.
Returns == vector = 3 \/ (vector = 14 /\ ~present)

\* The C handler: it reads its frame and leaves anything in the registers
\* it need not keep.
CallHandler ==
  /\ Instruction("call")
  /\ seen' = [v |-> vector, error |-> stack[Frame.error], rip |-> stack[Frame.rip]]
  /\ \E changed \in SUBSET CallerSaved :
       reg' = [r \in Regs |-> IF r \in changed THEN "junk" ELSE reg[r]]
  /\ IF Returns THEN at' = at /\ pc' = pc + 1
                ELSE at' = "halted" /\ pc' = pc
  /\ UNCHANGED <<vector, present, stack, resumed>>

Pop ==
  /\ Instruction("pop")
  /\ reg' = [reg EXCEPT ![Operand] = Head(stack)]
  /\ stack' = Tail(stack)
  /\ pc' = pc + 1
  /\ UNCHANGED <<vector, present, resumed, seen, at>>

Skip ==
  /\ Instruction("skip")
  /\ stack' = Tail(stack)
  /\ pc' = pc + 1
  /\ UNCHANGED <<vector, present, reg, resumed, seen, at>>

\* The CPU (external): the interrupted code goes on with these five words.
Iretq ==
  /\ Instruction("iretq")
  /\ resumed' = SubSeq(stack, 1, 5)
  /\ stack' = SubSeq(stack, 6, Len(stack))
  /\ at' = "code"
  /\ UNCHANGED <<vector, present, pc, reg, seen>>

Halted == at = "halted" /\ UNCHANGED vars

Next ==
  \/ \E v \in Vectors : Raise(v)
  \/ Push0 \/ Push \/ MovRspRdi \/ CallHandler \/ Pop \/ Skip \/ Iretq \/ Halted

Spec == Init /\ [][Next]_vars

----------------------------------------------------------------------------

\* Every handler finds the error code the CPU pushed, or the 0 of the stub,
\* and the address of the interrupted instruction in its frame, whichever of
\* the two kinds of stub it is called from.
FrameMatches ==
  seen # NoFrame =>
    seen.rip = "rip" /\ seen.error = IF seen.v \in CpuError THEN "error" ELSE "zero"

\* However many exceptions come one after the other, the interrupted code
\* goes on where it was, with its own stack and flags, and nothing is left on
\* the stack.
ResumesInPlace == at = "code" => resumed = CpuFrame /\ stack = <<"data">>

\* The registers that are in the frame, and those a C function keeps, have
\* their values again when the interrupted code goes on.  That leaves out r8
\* to r11, which SAVE_ALL_REGISTERS does not save and a C function may change.
SavedRegistersKept ==
  at = "code" => \A r \in Range(Saved) \cup (Regs \ CallerSaved) : reg[r] = r

\* The stubs of asm.S fit the frames the CPU builds, the handlers they call and
\* the code they interrupt.
StubsTransparent == FrameMatches /\ ResumesInPlace /\ SavedRegistersKept
=============================================================================
