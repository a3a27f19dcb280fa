---------------------------- MODULE KernelProofs ----------------------------
(***************************************************************************)
(* Proofs about the parts of the kernel that every other part calls or     *)
(* falls into: the exception stubs (ExceptionStub), demand paging          *)
(* (Paging), vsprintf (Printf) and the console (Console).                  *)
(***************************************************************************)
EXTENDS KernelParts, SequenceTheorems, WellFoundedInduction, TLAPS

----------------------------------------------------------------------------
(* Induction over the natural numbers.                                     *)

\* A set of natural numbers that is not empty has a least element.
LEMMA Least ==
  ASSUME NEW T, T \subseteq Nat, T # {}
  PROVE  \E n \in T : \A k \in T : n <= k
<1>1. \E n \in T : \A k \in T : ~ (<<k, n>> \in OpToRel(<,Nat))
  BY WFMin, NatLessThanWellFounded
<1>2. \A a, b \in Nat : b < a => <<b, a>> \in OpToRel(<,Nat)
  BY Zenon DEF OpToRel
<1>3. PICK n \in T : \A k \in T : ~ (k < n)
  BY <1>1, <1>2, Zenon
<1>4. \A k \in T : n <= k
  BY <1>3
<1> QED BY <1>4

\* A set that holds 0 and, below N, the successor of what it holds, holds all
\* of 0 .. N.
LEMMA Induct ==
  ASSUME NEW N \in Nat, NEW T, 0 \in T, \A k \in 0 .. N - 1 : k \in T => k + 1 \in T
  PROVE  \A k \in 0 .. N : k \in T
<1> DEFINE Bad == {k \in 0 .. N : k \notin T}
<1>1. SUFFICES ASSUME Bad # {} PROVE FALSE
  OBVIOUS
<1>2. PICK n \in Bad : \A k \in Bad : n <= k
  <2>1. Bad \subseteq Nat
    OBVIOUS
  <2> HIDE DEF Bad
  <2> QED BY <1>1, <2>1, Least
<1>3. n # 0 /\ n \in 1 .. N
  BY <1>2
<1>4. n - 1 \in 0 .. N - 1 /\ n - 1 \in 0 .. N /\ ~ (n <= n - 1) /\ (n - 1) + 1 = n
  BY <1>3
<1>5. n - 1 \in T
  BY <1>2, <1>4
<1> QED BY <1>2, <1>4, <1>5

\* The step F of a recursion up to N over the set S, and a function h that
\* follows it from the value a.
RecursionStep(F, N, S) == F \in [(1 .. N) \X S -> S]
Follows(h, F, a, N, S) ==
  h \in [0 .. N -> S] /\ h[0] = a /\ \A k \in 1 .. N : h[k] = F[<<k, h[k - 1]>>]

\* A function can be defined by recursion.
LEMMA Recur ==
  ASSUME NEW N \in Nat, NEW S, NEW a \in S, NEW F, RecursionStep(F, N, S)
  PROVE  \E h : Follows(h, F, a, N, S)
<1> USE DEF RecursionStep, Follows
<1> DEFINE Upto(n) == \E h \in [0 .. n -> S] :
                         h[0] = a /\ \A k \in 1 .. n : h[k] = F[<<k, h[k - 1]>>]
           T == {n \in 0 .. N : Upto(n)}
<1>1. 0 \in T
  <2> DEFINE g == [k \in 0 .. 0 |-> a]
  <2>1. g \in [0 .. 0 -> S] /\ g[0] = a /\ \A k \in 1 .. 0 : g[k] = F[<<k, g[k - 1]>>]
    OBVIOUS
  <2> HIDE DEF g
  <2>2. Upto(0)
    BY <2>1
  <2> QED BY <2>2
<1>2. ASSUME NEW n \in 0 .. N - 1, n \in T PROVE n + 1 \in T
  <2>1. PICK h \in [0 .. n -> S] : h[0] = a /\ \A k \in 1 .. n : h[k] = F[<<k, h[k - 1]>>]
    BY <1>2
  <2> DEFINE g == [k \in 0 .. n + 1 |-> IF k <= n THEN h[k] ELSE F[<<n + 1, h[n]>>]]
  <2>2. h[n] \in S /\ n + 1 \in 1 .. N /\ F[<<n + 1, h[n]>>] \in S
    OBVIOUS
  <2>3. g \in [0 .. n + 1 -> S]
    BY <2>2
  <2>4. g[0] = a
    BY <2>1
  <2>5. ASSUME NEW k \in 1 .. n + 1 PROVE g[k] = F[<<k, g[k - 1]>>]
    <3>1. k - 1 \in 0 .. n /\ g[k - 1] = h[k - 1]
      OBVIOUS
    <3>2. CASE k <= n
      BY <2>1, <3>1, <3>2
    <3>3. CASE k = n + 1
      <4>1. k - 1 = n /\ g[k] = F[<<n + 1, h[n]>>]
        BY <3>3
      <4> QED BY ONLY <3>1, <3>3, <4>1, Zenon
    <3> QED BY <3>2, <3>3
  <2> HIDE DEF g
  <2>6. Upto(n + 1) /\ n + 1 \in 0 .. N
    BY <2>3, <2>4, <2>5
  <2> QED BY <2>6
<1> HIDE DEF T
<1>3. N \in T
  BY <1>1, <1>2, Induct
<1>4. PICK h \in [0 .. N -> S] : h[0] = a /\ \A k \in 1 .. N : h[k] = F[<<k, h[k - 1]>>]
  BY <1>3 DEF T
<1> QED BY <1>4

----------------------------------------------------------------------------
(* The exception stubs.                                                    *)

\* How many instructions come before SAVE_ALL_REGISTERS: the dummy error code.
Lead(v) == IF v \in Exc!NoErr THEN 1 ELSE 0

\* The error word a handler of vector v finds.
ErrorWord(v) == IF v \in Exc!CpuError THEN "error" ELSE "zero"

\* The stack when everything is saved, its top first; struct interrupt_frame.
FullFrame(v) ==
  <<"rbp", "rsi", "rdi", "rdx", "rcx", "rbx", "rax", ErrorWord(v),
    "rip", "cs", "rflags", "rsp", "ss", "data">>

Words == {"rbp", "rsi", "rdi", "rdx", "rcx", "rbx", "rax", "error", "zero",
          "rip", "cs", "rflags", "rsp", "ss", "data", "frame", "junk",
          "r8", "r9", "r10", "r11", "r12", "r13", "r14", "r15"}

\* The stack s is what is left of the full frame from word n on.
Holds(s, n, v) ==
  /\ s \in Seq(Words) /\ Len(s) = 15 - n
  /\ \A j \in 1 .. 15 - n : s[j] = FullFrame(v)[n - 1 + j]
HoldsFrom(n, v) == Holds(stack, n, v)

Kept == {"rbx", "rbp", "r12", "r13", "r14", "r15"}

\* What the stack and the registers hold before instruction k of the common
\* part of the stubs.
Running(k, v) ==
  /\ k <= 8 => HoldsFrom(9 - k, v)
  /\ k = 9 => HoldsFrom(1, v)
  /\ k >= 10 => HoldsFrom(k - 9, v)
  /\ k <= 8 => \A r \in Exc!Regs : reg[r] = r
  /\ \A r \in Kept : reg[r] = r
  /\ k >= 10 => \A j \in 1 .. k - 10 : j <= 7 => reg[FullFrame(v)[j]] = FullFrame(v)[j]

\* In the stub of an installed vector the stack and the registers are those
\* the next instruction needs.
InStub ==
  at = "stub" =>
    /\ vector \in Exc!Idt /\ ip \in Nat
    /\ \/ /\ ip = 1 /\ Lead(vector) = 1
          /\ HoldsFrom(9, vector) /\ \A r \in Exc!Regs : reg[r] = r
       \/ ip - Lead(vector) \in 1 .. 18 /\ Running(ip - Lead(vector), vector)

InCode ==
  at = "code" => /\ resumed = Exc!CpuFrame /\ stack = <<"data">>
                 /\ \A r \in Kept \cup {"rax", "rcx", "rdx", "rdi", "rsi"} : reg[r] = r

StubInv ==
  /\ reg \in [Exc!Regs -> Words] /\ at \in {"code", "stub", "halted"}
  /\ InStub /\ InCode /\ Exc!FrameMatches

\* The registers by name.
LEMMA RegisterNames ==
  /\ Exc!Regs = {"rax", "rbx", "rcx", "rdx", "rdi", "rsi", "rbp",
                 "r8", "r9", "r10", "r11", "r12", "r13", "r14", "r15"}
  /\ Exc!Range(Exc!Saved) = {"rax", "rbx", "rcx", "rdx", "rdi", "rsi", "rbp"}
  /\ Exc!Regs \ Exc!CallerSaved = Kept \cup {}
<1>1. Exc!Range(Exc!Saved) = {"rax", "rbx", "rcx", "rdx", "rdi", "rsi", "rbp"}
  BY DEF Exc!Range, Exc!Saved
<1> QED BY <1>1 DEF Exc!Regs, Exc!CallerSaved, Kept

\* Short sequences.
LEMMA OneWord ==
  ASSUME NEW A, NEW a \in A
  PROVE  <<a>> \in Seq(A) /\ Len(<<a>>) = 1 /\ <<a>>[1] = a
  OBVIOUS

\* A sequence of two words.
LEMMA TwoWords ==
  ASSUME NEW A, NEW a \in A, NEW b \in A
  PROVE  <<a, b>> \in Seq(A) /\ Len(<<a, b>>) = 2 /\ <<a, b>>[1] = a /\ <<a, b>>[2] = b
  OBVIOUS

\* A function on 1 .. n is a sequence.
LEMMA FunctionIsSeq ==
  ASSUME NEW A, NEW n \in Nat, NEW f \in [1 .. n -> A]
  PROVE  f \in Seq(A) /\ Len(f) = n
  OBVIOUS

\* What the parts of a concatenation are.
LEMMA Joined ==
  ASSUME NEW A, NEW s \in Seq(A), NEW t \in Seq(A)
  PROVE  /\ s \o t \in Seq(A) /\ Len(s \o t) = Len(s) + Len(t)
         /\ \A j \in 1 .. Len(s) : (s \o t)[j] = s[j]
         /\ \A j \in 1 .. Len(t) : (s \o t)[Len(s) + j] = t[j]
  OBVIOUS

\* Places in the parts of a longer sequence.
LEMMA Within ==
  \A a, b \in Nat : /\ 1 .. a \subseteq 1 .. a + b
                    /\ \A j \in 1 .. b : a + j \in 1 .. a + b
                    /\ a + b \in Nat
  OBVIOUS

\* What the stub of vector v holds at each place.
LEMMA StubIs ==
  ASSUME NEW v
  PROVE  /\ Lead(v) \in {0, 1}
         /\ Lead(v) = 1 => Exc!Stub(v)[1] = [op |-> "push0"]
         /\ \A j \in 1 .. 7 : Exc!Stub(v)[Lead(v) + j] = [op |-> "push", r |-> FullFrame(v)[8 - j]]
         /\ Exc!Stub(v)[Lead(v) + 8] = [op |-> "mov"]
         /\ Exc!Stub(v)[Lead(v) + 9] = [op |-> "call"]
         /\ \A j \in 1 .. 7 : Exc!Stub(v)[Lead(v) + 9 + j] = [op |-> "pop", r |-> FullFrame(v)[j]]
         /\ Exc!Stub(v)[Lead(v) + 17] = [op |-> "skip"]
         /\ Exc!Stub(v)[Lead(v) + 18] = [op |-> "iretq"]
<1> DEFINE D == Exc!Dummy(v)
           S == Exc!SAVE_ALL_REGISTERS
           C == <<[op |-> "mov"], [op |-> "call"]>>
           R == Exc!RESTORE_ALL_REGISTERS
           K == Exc!SkipError
           I == <<[op |-> "iretq"]>>
           O(op) == [op |-> op]
           P(op, r) == [op |-> op, r |-> r]
           Any == {O("push0"), O("mov"), O("call"), O("skip"), O("iretq")}
                    \cup {P("push", FullFrame(v)[j]) : j \in 1 .. 7}
                    \cup {P("pop", FullFrame(v)[j]) : j \in 1 .. 7}
<1> HIDE DEF O, P
<1>0. /\ O("push0") \in Any /\ O("mov") \in Any /\ O("call") \in Any
      /\ O("skip") \in Any /\ O("iretq") \in Any
      /\ \A j \in 1 .. 7 : P("push", FullFrame(v)[j]) \in Any /\ P("pop", FullFrame(v)[j]) \in Any
  OBVIOUS
<1> USE DEF O, P
<1>d. D = (IF v \in Exc!NoErr THEN <<O("push0")>> ELSE <<>>)
  BY DEF Exc!Dummy
<1>s. S = [j \in 1 .. 7 |-> P("push", FullFrame(v)[8 - j])]
  <2>1. DOMAIN Exc!Saved = 1 .. 7
    BY DEF Exc!Saved
  <2>2. \A j \in 1 .. 7 : Exc!Saved[j] = FullFrame(v)[8 - j]
    BY DEF Exc!Saved, FullFrame
  <2> QED BY <2>1, <2>2 DEF Exc!SAVE_ALL_REGISTERS
<1>r. R = [j \in 1 .. 7 |-> P("pop", FullFrame(v)[j])]
  <2> DEFINE T == <<"rbp", "rsi", "rdi", "rdx", "rcx", "rbx", "rax">>
  <2>1. R = [j \in 1 .. 7 |-> P("pop", T[j])]
    BY DEF Exc!RESTORE_ALL_REGISTERS
  <2>2. \A j \in 1 .. 7 : T[j] = FullFrame(v)[j]
    BY DEF FullFrame
  <2> QED BY <2>1, <2>2
<1>k. C = <<O("mov"), O("call")>> /\ K = <<O("skip")>> /\ I = <<O("iretq")>>
  BY DEF Exc!SkipError
<1>7. Exc!Stub(v) = D \o S \o C \o R \o K \o I
  BY DEF Exc!Stub
<1> HIDE DEF D, S, C, R, K, I, Any, O, P
<1>1. /\ D \in Seq(Any) /\ Len(D) = Lead(v) /\ Lead(v) \in {0, 1}
      /\ Lead(v) = 1 => D[1] = O("push0")
  <2>1. CASE v \in Exc!NoErr
    <3>1. D = <<O("push0")>> /\ Lead(v) = 1
      BY <1>d, <2>1 DEF Lead
    <3>2. O("push0") \in Any
      BY <1>0
    <3> QED BY <3>1, <3>2, OneWord
  <2>2. CASE v \notin Exc!NoErr
    <3>1. D = <<>> /\ Lead(v) = 0
      BY <1>d, <2>2 DEF Lead
    <3> QED BY <3>1
  <2> QED BY <2>1, <2>2
<1>2. S \in Seq(Any) /\ Len(S) = 7 /\ \A j \in 1 .. 7 : S[j] = P("push", FullFrame(v)[8 - j])
  <2>1. S \in [1 .. 7 -> Any]
    BY <1>0, <1>s
  <2> QED BY <1>s, <2>1, FunctionIsSeq
<1>3. C \in Seq(Any) /\ Len(C) = 2 /\ C[1] = O("mov") /\ C[2] = O("call")
  <2>1. O("mov") \in Any /\ O("call") \in Any
    BY <1>0
  <2> QED BY <1>k, <2>1, TwoWords
<1>4. R \in Seq(Any) /\ Len(R) = 7 /\ \A j \in 1 .. 7 : R[j] = P("pop", FullFrame(v)[j])
  <2>1. R \in [1 .. 7 -> Any]
    BY <1>0, <1>r
  <2> QED BY <1>r, <2>1, FunctionIsSeq
<1>5. /\ K \in Seq(Any) /\ Len(K) = 1 /\ K[1] = O("skip")
      /\ I \in Seq(Any) /\ Len(I) = 1 /\ I[1] = O("iretq")
  <2>1. O("skip") \in Any /\ O("iretq") \in Any
    BY <1>0
  <2> QED BY <1>k, <2>1, OneWord
<1>l. PICK d \in Nat, n \in Nat, one \in Nat, two \in Nat :
         d = Lead(v) /\ n = 7 /\ one = 1 /\ two = 2
  BY <1>1
<1>m. D \in Seq(Any) /\ S \in Seq(Any) /\ C \in Seq(Any) /\ R \in Seq(Any)
      /\ K \in Seq(Any) /\ I \in Seq(Any)
  BY <1>1, <1>2, <1>3, <1>4, <1>5
<1>n. Len(D) = d /\ Len(S) = n /\ Len(C) = two /\ Len(R) = n /\ Len(K) = one /\ Len(I) = one
  BY <1>1, <1>2, <1>3, <1>4, <1>5, <1>l
<1>8. PICK DS \in Seq(Any) :
         /\ DS = D \o S /\ Len(DS) = d + n
         /\ \A j \in 1 .. d : DS[j] = D[j]
         /\ \A j \in 1 .. n : DS[d + j] = S[j]
  <2>1. PICK u : u = D \o S
    OBVIOUS
  <2>2. D \in Seq(Any) /\ S \in Seq(Any)
    BY <1>m
  <2>3. /\ u \in Seq(Any) /\ Len(u) = Len(D) + Len(S)
        /\ \A j \in 1 .. Len(D) : u[j] = D[j]
        /\ \A j \in 1 .. Len(S) : u[Len(D) + j] = S[j]
    BY ONLY <2>1, <2>2, Joined
  <2>4. Len(D) = d /\ Len(S) = n
    BY <1>n
  <2>5. /\ u \in Seq(Any) /\ Len(u) = d + n
        /\ \A j \in 1 .. d : u[j] = D[j]
        /\ \A j \in 1 .. n : u[d + j] = S[j]
    BY ONLY <2>3, <2>4, Zenon
  <2> QED BY <2>1, <2>5, Zenon
<1>9. PICK DSC \in Seq(Any) :
         /\ DSC = DS \o C /\ Len(DSC) = (d + n) + two
         /\ \A j \in 1 .. (d + n) : DSC[j] = DS[j]
         /\ \A j \in 1 .. two : DSC[(d + n) + j] = C[j]
  <2>1. PICK u : u = DS \o C
    OBVIOUS
  <2>2. DS \in Seq(Any) /\ C \in Seq(Any)
    BY <1>m
  <2>3. /\ u \in Seq(Any) /\ Len(u) = Len(DS) + Len(C)
        /\ \A j \in 1 .. Len(DS) : u[j] = DS[j]
        /\ \A j \in 1 .. Len(C) : u[Len(DS) + j] = C[j]
    BY ONLY <2>1, <2>2, Joined
  <2>4. Len(DS) = (d + n) /\ Len(C) = two
    BY <1>n, <1>8
  <2>5. /\ u \in Seq(Any) /\ Len(u) = (d + n) + two
        /\ \A j \in 1 .. (d + n) : u[j] = DS[j]
        /\ \A j \in 1 .. two : u[(d + n) + j] = C[j]
    BY ONLY <2>3, <2>4, Zenon
  <2> QED BY <2>1, <2>5, Zenon
<1>10. PICK DSCR \in Seq(Any) :
         /\ DSCR = DSC \o R /\ Len(DSCR) = (d + n + two) + n
         /\ \A j \in 1 .. (d + n + two) : DSCR[j] = DSC[j]
         /\ \A j \in 1 .. n : DSCR[(d + n + two) + j] = R[j]
  <2>1. PICK u : u = DSC \o R
    OBVIOUS
  <2>2. DSC \in Seq(Any) /\ R \in Seq(Any)
    BY <1>m
  <2>3. /\ u \in Seq(Any) /\ Len(u) = Len(DSC) + Len(R)
        /\ \A j \in 1 .. Len(DSC) : u[j] = DSC[j]
        /\ \A j \in 1 .. Len(R) : u[Len(DSC) + j] = R[j]
    BY ONLY <2>1, <2>2, Joined
  <2>4. Len(DSC) = (d + n + two) /\ Len(R) = n
    BY <1>n, <1>9
  <2>5. /\ u \in Seq(Any) /\ Len(u) = (d + n + two) + n
        /\ \A j \in 1 .. (d + n + two) : u[j] = DSC[j]
        /\ \A j \in 1 .. n : u[(d + n + two) + j] = R[j]
    BY ONLY <2>3, <2>4, Zenon
  <2> QED BY <2>1, <2>5, Zenon
<1>11. PICK DSCRK \in Seq(Any) :
         /\ DSCRK = DSCR \o K /\ Len(DSCRK) = (d + n + two + n) + one
         /\ \A j \in 1 .. (d + n + two + n) : DSCRK[j] = DSCR[j]
         /\ \A j \in 1 .. one : DSCRK[(d + n + two + n) + j] = K[j]
  <2>1. PICK u : u = DSCR \o K
    OBVIOUS
  <2>2. DSCR \in Seq(Any) /\ K \in Seq(Any)
    BY <1>m
  <2>3. /\ u \in Seq(Any) /\ Len(u) = Len(DSCR) + Len(K)
        /\ \A j \in 1 .. Len(DSCR) : u[j] = DSCR[j]
        /\ \A j \in 1 .. Len(K) : u[Len(DSCR) + j] = K[j]
    BY ONLY <2>1, <2>2, Joined
  <2>4. Len(DSCR) = (d + n + two + n) /\ Len(K) = one
    BY <1>n, <1>10
  <2>5. /\ u \in Seq(Any) /\ Len(u) = (d + n + two + n) + one
        /\ \A j \in 1 .. (d + n + two + n) : u[j] = DSCR[j]
        /\ \A j \in 1 .. one : u[(d + n + two + n) + j] = K[j]
    BY ONLY <2>3, <2>4, Zenon
  <2> QED BY <2>1, <2>5, Zenon
<1>12. PICK All \in Seq(Any) :
         /\ All = DSCRK \o I /\ Len(All) = (d + n + two + n + one) + one
         /\ \A j \in 1 .. (d + n + two + n + one) : All[j] = DSCRK[j]
         /\ \A j \in 1 .. one : All[(d + n + two + n + one) + j] = I[j]
  <2>1. PICK u : u = DSCRK \o I
    OBVIOUS
  <2>2. DSCRK \in Seq(Any) /\ I \in Seq(Any)
    BY <1>m
  <2>3. /\ u \in Seq(Any) /\ Len(u) = Len(DSCRK) + Len(I)
        /\ \A j \in 1 .. Len(DSCRK) : u[j] = DSCRK[j]
        /\ \A j \in 1 .. Len(I) : u[Len(DSCRK) + j] = I[j]
    BY ONLY <2>1, <2>2, Joined
  <2>4. Len(DSCRK) = (d + n + two + n + one) /\ Len(I) = one
    BY <1>n, <1>11
  <2>5. /\ u \in Seq(Any) /\ Len(u) = (d + n + two + n + one) + one
        /\ \A j \in 1 .. (d + n + two + n + one) : u[j] = DSCRK[j]
        /\ \A j \in 1 .. one : u[(d + n + two + n + one) + j] = I[j]
    BY ONLY <2>3, <2>4, Zenon
  <2> QED BY <2>1, <2>5, Zenon
<1>s0. All = Exc!Stub(v)
  BY <1>7, <1>8, <1>9, <1>10, <1>11, <1>12, Zenon
<1>13. /\ \A j \in 1 .. d : All[j] = D[j]
       /\ \A j \in 1 .. n : All[d + j] = S[j]
       /\ \A j \in 1 .. two : All[d + n + j] = C[j]
       /\ \A j \in 1 .. n : All[d + n + two + j] = R[j]
       /\ \A j \in 1 .. one : All[d + n + two + n + j] = K[j]
       /\ \A j \in 1 .. one : All[d + n + two + n + one + j] = I[j]
  <2>0. d \in Nat /\ n \in Nat /\ one \in Nat /\ two \in Nat
    OBVIOUS
  <2>a. \A j \in 1 .. d + n + two + n + one : All[j] = DSCRK[j]
    BY <1>12, Zenon
  <2>b. \A j \in 1 .. d + n + two + n : DSCRK[j] = DSCR[j]
    BY <1>11, Zenon
  <2>c. \A j \in 1 .. d + n + two : DSCR[j] = DSC[j]
    BY <1>10, Zenon
  <2>d. \A j \in 1 .. d + n : DSC[j] = DS[j]
    BY <1>9, Zenon
  <2>e. (\A j \in 1 .. d : DS[j] = D[j]) /\ \A j \in 1 .. n : DS[d + j] = S[j]
    BY <1>8, Zenon
  <2>f. \A j \in 1 .. two : DSC[d + n + j] = C[j]
    BY <1>9, Zenon
  <2>g. \A j \in 1 .. n : DSCR[d + n + two + j] = R[j]
    BY <1>10, Zenon
  <2>h. \A j \in 1 .. one : DSCRK[d + n + two + n + j] = K[j]
    BY <1>11, Zenon
  <2>i. \A j \in 1 .. one : All[d + n + two + n + one + j] = I[j]
    BY <1>12, Zenon
  <2>j. d + n \in Nat /\ d + n + two \in Nat /\ d + n + two + n \in Nat
    BY ONLY <2>0, Within, Zenon
  <2>1. \A j \in 1 .. d + n + two + n : All[j] = DSCR[j]
    BY ONLY <2>0, <2>j, <2>a, <2>b, Within, Zenon
  <2>2. \A j \in 1 .. d + n + two : All[j] = DSC[j]
    BY ONLY <2>0, <2>j, <2>1, <2>c, Within, Zenon
  <2>3. \A j \in 1 .. d + n : All[j] = DS[j]
    BY ONLY <2>0, <2>j, <2>2, <2>d, Within, Zenon
  <2>4. \A j \in 1 .. one : All[d + n + two + n + j] = K[j]
    BY ONLY <2>0, <2>j, <2>a, <2>h, Within, Zenon
  <2>5. \A j \in 1 .. n : All[d + n + two + j] = R[j]
    BY ONLY <2>0, <2>j, <2>1, <2>g, Within, Zenon
  <2>6. \A j \in 1 .. two : All[d + n + j] = C[j]
    BY ONLY <2>0, <2>j, <2>2, <2>f, Within, Zenon
  <2>7. \A j \in 1 .. d : All[j] = D[j]
    BY ONLY <2>0, <2>3, <2>e, Within, Zenon
  <2>8. \A j \in 1 .. n : All[d + j] = S[j]
    BY ONLY <2>0, <2>3, <2>e, Within, Zenon
  <2> QED BY ONLY <2>i, <2>4, <2>5, <2>6, <2>7, <2>8
<1>14. d = 1 => All[1] = D[1]
  BY ONLY <1>l, <1>13
<1>15. \A j \in 1 .. 7 : All[d + j] = S[j]
  BY ONLY <1>l, <1>13, Zenon
<1>16. All[d + 8] = C[1] /\ All[d + 9] = C[2]
  <2>1. 1 \in 1 .. two /\ 2 \in 1 .. two /\ d + n + 1 = d + 8 /\ d + n + 2 = d + 9
    BY <1>l
  <2>2. \A j \in 1 .. two : All[d + n + j] = C[j]
    BY <1>13
  <2> QED BY ONLY <2>1, <2>2, Zenon
<1>17. \A j \in 1 .. 7 : All[d + 9 + j] = R[j]
  <2>1. d + n + two = d + 9 /\ n = 7
    BY <1>l
  <2>2. \A j \in 1 .. n : All[d + n + two + j] = R[j]
    BY <1>13
  <2> QED BY ONLY <2>1, <2>2, Zenon
<1>18. All[d + 17] = K[1] /\ All[d + 18] = I[1]
  <2>1. 1 \in 1 .. one /\ d + n + two + n + 1 = d + 17 /\ d + n + two + n + one + 1 = d + 18
    BY <1>l
  <2>2. /\ \A j \in 1 .. one : All[d + n + two + n + j] = K[j]
        /\ \A j \in 1 .. one : All[d + n + two + n + one + j] = I[j]
    BY <1>13
  <2> QED BY ONLY <2>1, <2>2, Zenon
<1>19. /\ Lead(v) = 1 => All[1] = O("push0")
       /\ \A j \in 1 .. 7 : All[Lead(v) + j] = P("push", FullFrame(v)[8 - j])
       /\ All[Lead(v) + 8] = O("mov") /\ All[Lead(v) + 9] = O("call")
       /\ \A j \in 1 .. 7 : All[Lead(v) + 9 + j] = P("pop", FullFrame(v)[j])
       /\ All[Lead(v) + 17] = O("skip") /\ All[Lead(v) + 18] = O("iretq")
  BY <1>1, <1>2, <1>3, <1>4, <1>5, <1>14, <1>15, <1>16, <1>17, <1>18, <1>l, Zenon
<1> QED BY <1>1, <1>19, <1>s0, Zenon DEF O, P

\* The words of the full frame, and its registers.
LEMMA FrameWords ==
  ASSUME NEW v
  PROVE  /\ \A j \in 1 .. 14 : FullFrame(v)[j] \in Words
         /\ \A j \in 1 .. 7 : FullFrame(v)[j] \in Exc!Regs
         /\ \A r \in Exc!Range(Exc!Saved) : \E j \in 1 .. 7 : FullFrame(v)[j] = r
         /\ FullFrame(v)[8] = ErrorWord(v)
         /\ FullFrame(v)[9] = "rip" /\ FullFrame(v)[10] = "cs" /\ FullFrame(v)[11] = "rflags"
         /\ FullFrame(v)[12] = "rsp" /\ FullFrame(v)[13] = "ss" /\ FullFrame(v)[14] = "data"
<1>1. \A j \in 1 .. 14 : FullFrame(v)[j] \in Words
  BY DEF FullFrame, Words, ErrorWord
<1>2. \A j \in 1 .. 7 : FullFrame(v)[j] \in Exc!Regs
  BY RegisterNames DEF FullFrame
<1>3. \A r \in Exc!Range(Exc!Saved) : \E j \in 1 .. 7 : FullFrame(v)[j] = r
  <2>1. /\ FullFrame(v)[1] = "rbp" /\ FullFrame(v)[2] = "rsi" /\ FullFrame(v)[3] = "rdi"
        /\ FullFrame(v)[4] = "rdx" /\ FullFrame(v)[5] = "rcx" /\ FullFrame(v)[6] = "rbx"
        /\ FullFrame(v)[7] = "rax"
    BY DEF FullFrame
  <2>2. /\ 1 \in 1 .. 7 /\ 2 \in 1 .. 7 /\ 3 \in 1 .. 7 /\ 4 \in 1 .. 7
        /\ 5 \in 1 .. 7 /\ 6 \in 1 .. 7 /\ 7 \in 1 .. 7
    OBVIOUS
  <2> QED BY <2>1, <2>2, RegisterNames, Zenon
<1>4. /\ FullFrame(v)[8] = ErrorWord(v)
      /\ FullFrame(v)[9] = "rip" /\ FullFrame(v)[10] = "cs" /\ FullFrame(v)[11] = "rflags"
      /\ FullFrame(v)[12] = "rsp" /\ FullFrame(v)[13] = "ss" /\ FullFrame(v)[14] = "data"
  BY DEF FullFrame
<1> QED BY <1>1, <1>2, <1>3, <1>4

\* A push adds the word in front of what the stack holds, a pop takes it off.
LEMMA Pushed ==
  ASSUME NEW v, NEW n \in 2 .. 14, NEW s, Holds(s, n, v), NEW w, w = FullFrame(v)[n - 1]
  PROVE  Holds(<<w>> \o s, n - 1, v)
<1>1. w \in Words
  BY FrameWords
<1>2. PICK t : t = <<w>> \o s
  OBVIOUS
<1>3. /\ t \in Seq(Words) /\ Len(t) = 1 + Len(s) /\ t[1] = w
      /\ \A j \in 1 .. Len(s) : t[1 + j] = s[j]
  <2>1. <<w>> \in Seq(Words) /\ Len(<<w>>) = 1 /\ <<w>>[1] = w /\ s \in Seq(Words)
    BY <1>1, OneWord DEF Holds
  <2> QED BY <1>2, <2>1, Joined
<1>4. /\ Len(s) = 15 - n
      /\ \A j \in 1 .. 15 - n : s[j] = FullFrame(v)[n - 1 + j]
  BY DEF Holds
<1>5. Len(t) = 15 - (n - 1)
  BY ONLY <1>3, <1>4, n \in 2 .. 14
<1>6. ASSUME NEW j \in 1 .. 15 - (n - 1) PROVE t[j] = FullFrame(v)[(n - 1) - 1 + j]
  <2>1. CASE j = 1
    <3>1. (n - 1) - 1 + j = n - 1
      BY <2>1
    <3> QED BY ONLY <1>3, <2>1, <3>1, w = FullFrame(v)[n - 1]
  <2>2. CASE j # 1
    <3>1. PICK i \in 1 .. 15 - n : j = 1 + i /\ (n - 1) - 1 + j = n - 1 + i
      <4>1. j - 1 \in 1 .. 15 - n /\ j = 1 + (j - 1) /\ (n - 1) - 1 + j = n - 1 + (j - 1)
        BY <2>2
      <4> QED BY ONLY <4>1
    <3>2. s[i] = FullFrame(v)[n - 1 + i] /\ t[1 + i] = s[i]
      BY <1>3, <1>4
    <3> QED BY ONLY <3>1, <3>2
  <2> QED BY <2>1, <2>2
<1> QED BY <1>2, <1>3, <1>5, <1>6 DEF Holds

\* The word a pop takes and what it leaves.
LEMMA Popped ==
  ASSUME NEW v, NEW n \in 1 .. 13, NEW s, Holds(s, n, v)
  PROVE  Head(s) = FullFrame(v)[n] /\ Holds(Tail(s), n + 1, v)
<1>1. /\ s \in Seq(Words) /\ Len(s) = 15 - n
      /\ \A j \in 1 .. 15 - n : s[j] = FullFrame(v)[n - 1 + j]
  BY DEF Holds
<1>2. Head(s) = FullFrame(v)[n]
  <2>1. 1 \in 1 .. 15 - n /\ n - 1 + 1 = n /\ s # <<>>
    BY <1>1
  <2>2. Head(s) = s[1]
    BY <1>1, <2>1
  <2> QED BY <1>1, <2>1, <2>2
<1>3. PICK t : t = Tail(s)
  OBVIOUS
<1>4. t \in Seq(Words) /\ Len(t) = Len(s) - 1 /\ \A j \in 1 .. Len(s) - 1 : t[j] = s[j + 1]
  BY ONLY <1>1, <1>3, n \in 1 .. 13
<1>5. Len(t) = 15 - (n + 1)
  BY ONLY <1>1, <1>4, n \in 1 .. 13
<1>6. ASSUME NEW j \in 1 .. 15 - (n + 1) PROVE t[j] = FullFrame(v)[(n + 1) - 1 + j]
  <2>1. j \in 1 .. Len(s) - 1 /\ j + 1 \in 1 .. 15 - n /\ n - 1 + (j + 1) = (n + 1) - 1 + j
    BY <1>1
  <2>2. t[j] = s[j + 1] /\ s[j + 1] = FullFrame(v)[n - 1 + (j + 1)]
    BY <1>1, <1>4, <2>1
  <2> QED BY ONLY <2>1, <2>2
<1> QED BY <1>2, <1>3, <1>4, <1>5, <1>6 DEF Holds

\* A stub begins with at most one instruction more than the others.
LEMMA LeadIs == ASSUME NEW v PROVE Lead(v) \in {0, 1}
  BY DEF Lead

\* Which instruction of the common part of the stubs stands at place k.
LEMMA InstructionAt ==
  ASSUME NEW v, NEW k \in 1 .. 18, NEW o, o = Exc!Stub(v)[Lead(v) + k]
  PROVE  /\ o.op # "push0"
         /\ o.op = "push" => k \in 1 .. 7 /\ o.r = FullFrame(v)[8 - k]
         /\ o.op = "mov" => k = 8
         /\ o.op = "call" => k = 9
         /\ o.op = "pop" => k \in 10 .. 16 /\ o.r = FullFrame(v)[k - 9]
         /\ o.op = "skip" => k = 17
         /\ o.op = "iretq" => k = 18
<1>1. CASE k \in 1 .. 7
  <2>1. o = [op |-> "push", r |-> FullFrame(v)[8 - k]]
    BY <1>1, StubIs, Zenon
  <2> QED BY <1>1, <2>1
<1>2. CASE k = 8
  <2>1. o = [op |-> "mov"]
    BY <1>2, StubIs, Zenon
  <2> QED BY <1>2, <2>1
<1>3. CASE k = 9
  <2>1. o = [op |-> "call"]
    BY <1>3, StubIs, Zenon
  <2> QED BY <1>3, <2>1
<1>4. CASE k \in 10 .. 16
  <2>1. PICK j \in 1 .. 7 : k = 9 + j
    <3>1. k - 9 \in 1 .. 7 /\ k = 9 + (k - 9)
      BY <1>4
    <3> QED BY ONLY <3>1
  <2>2. Lead(v) + k = Lead(v) + 9 + j /\ k - 9 = j
    BY <2>1, LeadIs
  <2>3. Exc!Stub(v)[Lead(v) + 9 + j] = [op |-> "pop", r |-> FullFrame(v)[j]]
    BY <2>1, StubIs, Zenon
  <2>4. o = [op |-> "pop", r |-> FullFrame(v)[j]]
    BY <2>2, <2>3
  <2> QED BY <1>4, <2>2, <2>4
<1>5. CASE k = 17
  <2>1. o = [op |-> "skip"]
    BY <1>5, StubIs, Zenon
  <2> QED BY <1>5, <2>1
<1>6. CASE k = 18
  <2>1. o = [op |-> "iretq"]
    BY <1>6, StubIs, Zenon
  <2> QED BY <1>6, <2>1
<1> QED BY <1>1, <1>2, <1>3, <1>4, <1>5, <1>6

\* What holds when an instruction other than the dummy push is next.
LEMMA InCommonPart ==
  ASSUME StubInv, NEW op, Exc!Instruction(op), op # "push0"
  PROVE  /\ at = "stub" /\ vector \in Exc!Idt
         /\ \E k \in 1 .. 18 :
              /\ ip = Lead(vector) + k /\ Running(k, vector)
              /\ op = "push" => k \in 1 .. 7 /\ Exc!Operand = FullFrame(vector)[8 - k]
              /\ op = "mov" => k = 8
              /\ op = "call" => k = 9
              /\ op = "pop" => k \in 10 .. 16 /\ Exc!Operand = FullFrame(vector)[k - 9]
              /\ op = "skip" => k = 17
              /\ op = "iretq" => k = 18
<1>1. at = "stub" /\ Exc!Stub(vector)[ip].op = op
  BY DEF Exc!Instruction
<1>2. /\ vector \in Exc!Idt /\ ip \in Nat
      /\ \/ ip = 1 /\ Lead(vector) = 1
         \/ ip - Lead(vector) \in 1 .. 18 /\ Running(ip - Lead(vector), vector)
  BY <1>1 DEF StubInv, InStub
<1>3. ip - Lead(vector) \in 1 .. 18 /\ Running(ip - Lead(vector), vector)
  <2>1. CASE ip = 1 /\ Lead(vector) = 1
    <3>1. Exc!Stub(vector)[ip] = [op |-> "push0"]
      BY <2>1, StubIs, Zenon
    <3> QED BY <1>1, <3>1
  <2> QED BY <1>2, <2>1
<1>4. PICK k \in 1 .. 18 : k = ip - Lead(vector)
  BY <1>3
<1>5. ip = Lead(vector) + k
  BY <1>2, <1>4, LeadIs
<1>6. PICK o : o = Exc!Stub(vector)[Lead(vector) + k]
  OBVIOUS
<1>7. o.op = op /\ Exc!Operand = o.r
  BY <1>1, <1>5, <1>6 DEF Exc!Operand
<1>8. /\ o.op = "push" => k \in 1 .. 7 /\ o.r = FullFrame(vector)[8 - k]
      /\ o.op = "mov" => k = 8
      /\ o.op = "call" => k = 9
      /\ o.op = "pop" => k \in 10 .. 16 /\ o.r = FullFrame(vector)[k - 9]
      /\ o.op = "skip" => k = 17
      /\ o.op = "iretq" => k = 18
  BY ONLY <1>6, InstructionAt, k \in 1 .. 18
<1>9. Running(k, vector)
  BY <1>3, <1>4
<1> QED BY <1>1, <1>2, <1>5, <1>7, <1>8, <1>9, Zenon

\* The invariant of the stubs in the shape the steps below establish it.
LEMMA StubStays ==
  ASSUME NEW v \in Exc!Idt, vector' = v, at' = "stub",
         NEW k \in 1 .. 18, ip' = Lead(v) + k, Running(k, v)',
         reg' \in [Exc!Regs -> Words], Exc!FrameMatches'
  PROVE  StubInv'
<1>1. ip' \in Nat /\ ip' - Lead(v) = k
  BY LeadIs
<1> QED BY <1>1 DEF StubInv, InStub, InCode

\* The stack of the interrupted code with the CPU's frame and the error code e.
CpuStack(s, e) == s = e \o Exc!CpuFrame \o <<"data">>

\* The words the CPU pushes, after l words e of error code.
LEMMA CpuPushes ==
  ASSUME NEW e \in Seq(Words), NEW l \in Nat, Len(e) = l, NEW s, CpuStack(s, e)
  PROVE  /\ s \in Seq(Words) /\ Len(s) = l + 6
         /\ \A j \in 1 .. l : s[j] = e[j]
         /\ s[l + 1] = "rip" /\ s[l + 2] = "cs" /\ s[l + 3] = "rflags"
         /\ s[l + 4] = "rsp" /\ s[l + 5] = "ss" /\ s[l + 6] = "data"
<1> DEFINE F == Exc!CpuFrame
           D == <<"data">>
<1>1. /\ F \in Seq(Words) /\ Len(F) = 5
      /\ F[1] = "rip" /\ F[2] = "cs" /\ F[3] = "rflags" /\ F[4] = "rsp" /\ F[5] = "ss"
  BY DEF Exc!CpuFrame, Words
<1>2. D \in Seq(Words) /\ Len(D) = 1 /\ D[1] = "data"
  BY OneWord DEF Words
<1> HIDE DEF F, D
<1>3. PICK n \in Nat : n = 5
  OBVIOUS
<1>4. PICK u : u = e \o F
  OBVIOUS
<1>5. /\ u \in Seq(Words) /\ Len(u) = l + n
      /\ \A j \in 1 .. l : u[j] = e[j]
      /\ \A j \in 1 .. n : u[l + j] = F[j]
  <2>0. e \in Seq(Words) /\ F \in Seq(Words)
    BY <1>1
  <2>1. /\ u \in Seq(Words) /\ Len(u) = Len(e) + Len(F)
        /\ \A j \in 1 .. Len(e) : u[j] = e[j]
        /\ \A j \in 1 .. Len(F) : u[Len(e) + j] = F[j]
    BY ONLY <1>4, <2>0, Joined
  <2>2. Len(e) = l /\ Len(F) = n
    BY <1>1, <1>3
  <2> QED BY ONLY <2>1, <2>2, Zenon
<1>6. s = u \o D
  BY <1>4 DEF F, D, CpuStack
<1>7. /\ s \in Seq(Words) /\ Len(s) = Len(u) + Len(D)
      /\ \A j \in 1 .. Len(u) : s[j] = u[j]
      /\ \A j \in 1 .. Len(D) : s[Len(u) + j] = D[j]
  <2>1. u \in Seq(Words) /\ D \in Seq(Words)
    BY <1>2, <1>5
  <2> QED BY ONLY <1>6, <2>1, Joined
<1>8. /\ s \in Seq(Words) /\ Len(s) = (l + n) + 1
      /\ \A j \in 1 .. l + n : s[j] = u[j]
      /\ s[(l + n) + 1] = "data"
  <2>1. Len(u) = l + n /\ Len(D) = 1 /\ D[1] = "data" /\ 1 \in 1 .. 1
    BY <1>2, <1>5
  <2> QED BY ONLY <1>7, <2>1, Zenon
<1>9. (\A j \in 1 .. l : s[j] = e[j]) /\ \A j \in 1 .. n : s[l + j] = F[j]
  BY <1>5, <1>8, Within, Zenon
<1>10. 1 \in 1 .. n /\ 2 \in 1 .. n /\ 3 \in 1 .. n /\ 4 \in 1 .. n /\ 5 \in 1 .. n
  BY <1>3
<1>11. (l + n) + 1 = l + 6
  BY <1>3
<1> QED BY ONLY <1>1, <1>8, <1>9, <1>10, <1>11, Zenon

\* An exception: the CPU's frame, with or without its error code.
LEMMA RaiseStep ==
  ASSUME StubInv, NEW w, Exc!Raise(w)
  PROVE  StubInv'
<1>1. PICK v \in Exc!Idt : v = IF w \in Exc!Idt THEN w ELSE 8
  BY DEF Exc!Idt
<1>2. /\ at = "code" /\ vector' = v /\ at' = "stub" /\ ip' = 1
      /\ reg' = [r \in Exc!Regs |-> r] /\ seen' = seen
      /\ stack' = (IF v \in Exc!CpuError THEN <<"error">> ELSE <<>>) \o Exc!CpuFrame \o stack
  BY <1>1 DEF Exc!Raise
<1>3. stack = <<"data">>
  BY <1>2 DEF StubInv, InCode
<1>4. reg' \in [Exc!Regs -> Words] /\ \A r \in Exc!Regs : reg'[r] = r
  BY <1>2, RegisterNames DEF Words
<1>5. Kept \subseteq Exc!Regs
  BY RegisterNames DEF Kept
<1>6. Exc!FrameMatches'
  BY <1>2 DEF StubInv, Exc!FrameMatches
<1>7. CASE v \in Exc!CpuError
  <2>1. Lead(v) = 0 /\ ErrorWord(v) = "error"
    BY <1>7 DEF Lead, ErrorWord, Exc!NoErr, Exc!CpuError
  <2>a. PICK e : e = <<"error">>
    OBVIOUS
  <2>b. e \in Seq(Words) /\ Len(e) = 1 /\ e[1] = "error"
    BY <2>a, OneWord DEF Words
  <2>c. stack' = e \o Exc!CpuFrame \o <<"data">>
    BY <1>2, <1>3, <1>7, <2>a, Zenon
  <2>2. /\ stack' \in Seq(Words) /\ Len(stack') = 1 + 6
        /\ \A j \in 1 .. 1 : stack'[j] = e[j]
        /\ stack'[1 + 1] = "rip" /\ stack'[1 + 2] = "cs" /\ stack'[1 + 3] = "rflags"
        /\ stack'[1 + 4] = "rsp" /\ stack'[1 + 5] = "ss" /\ stack'[1 + 6] = "data"
    <3>0. PICK l \in Nat : l = 1
      OBVIOUS
    <3>1. PICK z : z = stack'
      OBVIOUS
    <3>2. CpuStack(z, e) /\ e \in Seq(Words) /\ Len(e) = l
      BY <2>b, <2>c, <3>0, <3>1, Zenon DEF CpuStack
    <3>3. /\ z \in Seq(Words) /\ Len(z) = l + 6
          /\ \A j \in 1 .. l : z[j] = e[j]
          /\ z[l + 1] = "rip" /\ z[l + 2] = "cs" /\ z[l + 3] = "rflags"
          /\ z[l + 4] = "rsp" /\ z[l + 5] = "ss" /\ z[l + 6] = "data"
      BY ONLY <3>2, CpuPushes, l \in Nat
    <3> QED BY ONLY <3>0, <3>1, <3>3, Zenon
  <2>3. stack' \in Seq(Words) /\ Len(stack') = 15 - 8
    BY <2>2
  <2>4. \A j \in 1 .. 15 - 8 : stack'[j] = FullFrame(v)[8 - 1 + j]
    <3>1. stack'[1] = "error" /\ stack'[2] = "rip" /\ stack'[3] = "cs" /\ stack'[4] = "rflags"
          /\ stack'[5] = "rsp" /\ stack'[6] = "ss" /\ stack'[7] = "data"
      BY <2>2, <2>b
    <3>2. FullFrame(v)[8] = "error"
      BY <2>1, FrameWords
    <3> QED BY <3>1, <3>2, FrameWords
  <2>5. Holds(stack', 8, v)
    BY <2>3, <2>4 DEF Holds
  <2>6. Running(1, v)'
    BY <1>4, <1>5, <2>5 DEF Running, HoldsFrom
  <2>7. ip' = Lead(v) + 1
    BY <1>2, <2>1
  <2> QED BY <1>2, <1>4, <1>6, <2>6, <2>7, StubStays
<1>8. CASE v \notin Exc!CpuError
  <2>1. Lead(v) = 1
    BY <1>8 DEF Lead, Exc!NoErr, Exc!CpuError, Exc!Idt
  <2>a. PICK e : e = <<>>
    OBVIOUS
  <2>b. e \in Seq(Words) /\ Len(e) = 0
    BY <2>a
  <2>c. stack' = e \o Exc!CpuFrame \o <<"data">>
    BY <1>2, <1>3, <1>8, <2>a, Zenon
  <2>2. /\ stack' \in Seq(Words) /\ Len(stack') = 0 + 6
        /\ stack'[0 + 1] = "rip" /\ stack'[0 + 2] = "cs" /\ stack'[0 + 3] = "rflags"
        /\ stack'[0 + 4] = "rsp" /\ stack'[0 + 5] = "ss" /\ stack'[0 + 6] = "data"
    <3>0. PICK l \in Nat : l = 0
      OBVIOUS
    <3>1. PICK z : z = stack'
      OBVIOUS
    <3>2. CpuStack(z, e) /\ e \in Seq(Words) /\ Len(e) = l
      BY <2>b, <2>c, <3>0, <3>1, Zenon DEF CpuStack
    <3>3. /\ z \in Seq(Words) /\ Len(z) = l + 6
          /\ \A j \in 1 .. l : z[j] = e[j]
          /\ z[l + 1] = "rip" /\ z[l + 2] = "cs" /\ z[l + 3] = "rflags"
          /\ z[l + 4] = "rsp" /\ z[l + 5] = "ss" /\ z[l + 6] = "data"
      BY ONLY <3>2, CpuPushes, l \in Nat
    <3> QED BY ONLY <3>0, <3>1, <3>3, Zenon
  <2>3. stack' \in Seq(Words) /\ Len(stack') = 15 - 9
    BY <2>2
  <2>4. \A j \in 1 .. 15 - 9 : stack'[j] = FullFrame(v)[9 - 1 + j]
    BY <2>2, FrameWords
  <2>5. Holds(stack', 9, v)
    BY <2>3, <2>4 DEF Holds
  <2> QED BY <1>2, <1>4, <1>6, <2>1, <2>5 DEF StubInv, InStub, InCode, HoldsFrom
<1> QED BY <1>7, <1>8

\* The dummy error code.
LEMMA Push0Step ==
  ASSUME StubInv, Exc!Push0
  PROVE  StubInv'
<1>1. /\ at = "stub" /\ Exc!Stub(vector)[ip].op = "push0" /\ stack' = <<"zero">> \o stack
      /\ ip' = ip + 1 /\ vector' = vector /\ reg' = reg /\ seen' = seen /\ at' = at
  BY DEF Exc!Push0, Exc!Instruction
<1>2. PICK v \in Exc!Idt : v = vector
  BY <1>1 DEF StubInv, InStub
<1>3. ip \in Nat /\ \/ /\ ip = 1 /\ Lead(v) = 1
                       /\ HoldsFrom(9, v) /\ \A r \in Exc!Regs : reg[r] = r
                    \/ ip - Lead(v) \in 1 .. 18
  BY <1>1, <1>2 DEF StubInv, InStub
<1>4. ip = 1 /\ Lead(v) = 1 /\ HoldsFrom(9, v) /\ \A r \in Exc!Regs : reg[r] = r
  <2>1. CASE ip - Lead(v) \in 1 .. 18
    <3>1. PICK k \in 1 .. 18 : k = ip - Lead(v)
      BY <2>1
    <3>2. ip = Lead(v) + k
      BY <1>3, <3>1, LeadIs
    <3>3. PICK o : o = Exc!Stub(v)[Lead(v) + k]
      OBVIOUS
    <3>4. o.op # "push0"
      BY ONLY <3>3, InstructionAt, k \in 1 .. 18
    <3> QED BY <1>1, <1>2, <3>2, <3>3, <3>4
  <2> QED BY <1>3, <2>1
<1>5. FullFrame(v)[9 - 1] = "zero"
  <2>1. v \notin Exc!CpuError
    BY <1>4 DEF Lead, Exc!NoErr, Exc!CpuError
  <2>2. FullFrame(v)[8] = "zero"
    BY <2>1, FrameWords DEF ErrorWord
  <2> QED BY <2>2
<1>6. Holds(stack', 8, v)
  <2>1. Holds(<<"zero">> \o stack, 9 - 1, v)
    BY <1>4, <1>5, Pushed DEF HoldsFrom
  <2> QED BY <1>1, <2>1
<1>7. Kept \subseteq Exc!Regs
  BY RegisterNames DEF Kept
<1>8. Running(1, v)'
  BY <1>1, <1>4, <1>6, <1>7 DEF Running, HoldsFrom
<1>9. ip' = Lead(v) + 1
  BY <1>1, <1>4
<1>10. reg' \in [Exc!Regs -> Words] /\ Exc!FrameMatches'
  BY <1>1 DEF StubInv, Exc!FrameMatches
<1> QED BY <1>1, <1>2, <1>8, <1>9, <1>10, StubStays

\* SAVE_ALL_REGISTERS, an instruction at a time.
LEMMA PushStep ==
  ASSUME StubInv, Exc!Push
  PROVE  StubInv'
<1>1. /\ Exc!Instruction("push") /\ stack' = <<reg[Exc!Operand]>> \o stack
      /\ ip' = ip + 1 /\ vector' = vector /\ reg' = reg /\ seen' = seen /\ at' = at
  BY DEF Exc!Push
<1>2. PICK v \in Exc!Idt, k \in 1 .. 7 :
         /\ v = vector /\ at = "stub" /\ ip = Lead(v) + k /\ Running(k, v)
         /\ Exc!Operand = FullFrame(v)[8 - k]
  BY <1>1, InCommonPart
<1>3. HoldsFrom(9 - k, v) /\ \A r \in Exc!Regs : reg[r] = r
  BY <1>2 DEF Running
<1>4. reg[Exc!Operand] = FullFrame(v)[8 - k]
  <2>1. 8 - k \in 1 .. 7
    OBVIOUS
  <2> QED BY <1>2, <1>3, <2>1, FrameWords
<1>5. Holds(stack', 8 - k, v)
  <2>1. 9 - k \in 2 .. 14 /\ (9 - k) - 1 = 8 - k
    OBVIOUS
  <2>2. Holds(stack, 9 - k, v) /\ reg[Exc!Operand] = FullFrame(v)[(9 - k) - 1]
    BY <1>3, <1>4, <2>1 DEF HoldsFrom
  <2>3. Holds(<<reg[Exc!Operand]>> \o stack, (9 - k) - 1, v)
    BY <2>1, <2>2, Pushed
  <2> QED BY <1>1, <2>1, <2>3
<1>6. Kept \subseteq Exc!Regs
  BY RegisterNames DEF Kept
<1>7. PICK i \in 1 .. 18 : i = k + 1 /\ i <= 8 /\ 8 - k = 9 - i
  <2>1. k + 1 \in 1 .. 18 /\ k + 1 <= 8 /\ 8 - k = 9 - (k + 1)
    OBVIOUS
  <2> QED BY ONLY <2>1
<1>8. Running(i, v)'
  BY <1>1, <1>3, <1>5, <1>6, <1>7 DEF Running, HoldsFrom
<1>9. ip' = Lead(v) + i
  BY <1>1, <1>2, <1>7, LeadIs
<1>10. reg' \in [Exc!Regs -> Words] /\ Exc!FrameMatches'
  BY <1>1 DEF StubInv, Exc!FrameMatches
<1> QED BY <1>1, <1>2, <1>8, <1>9, <1>10, StubStays

\* The handler's argument: the address of the frame.
LEMMA MovStep ==
  ASSUME StubInv, Exc!MovRspRdi
  PROVE  StubInv'
<1>1. /\ Exc!Instruction("mov") /\ reg' = [reg EXCEPT !["rdi"] = "frame"]
      /\ ip' = ip + 1 /\ vector' = vector /\ stack' = stack /\ seen' = seen /\ at' = at
  BY DEF Exc!MovRspRdi
<1>2. PICK v \in Exc!Idt :
         v = vector /\ at = "stub" /\ ip = Lead(v) + 8 /\ Running(8, v)
  BY <1>1, InCommonPart
<1>3. HoldsFrom(9 - 8, v) /\ \A r \in Kept : reg[r] = r
  BY <1>2 DEF Running
<1>4. reg' \in [Exc!Regs -> Words] /\ \A r \in Kept : reg'[r] = r
  <2>1. "frame" \in Words /\ "rdi" \notin Kept /\ Kept \subseteq Exc!Regs
    BY RegisterNames DEF Words, Kept
  <2> QED BY <1>1, <1>3, <2>1 DEF StubInv
<1>5. HoldsFrom(1, v)'
  BY <1>1, <1>3 DEF HoldsFrom
<1>6. Running(9, v)'
  BY <1>4, <1>5 DEF Running
<1>7. ip' = Lead(v) + 9
  BY <1>1, <1>2, LeadIs
<1>8. Exc!FrameMatches'
  BY <1>1 DEF StubInv, Exc!FrameMatches
<1> QED BY <1>1, <1>2, <1>4, <1>6, <1>7, <1>8, StubStays

\* The C handler finds its frame and keeps the registers it has to keep.
LEMMA CallStep ==
  ASSUME StubInv, Exc!CallHandler
  PROVE  StubInv'
<1>1. /\ Exc!Instruction("call") /\ vector' = vector /\ stack' = stack /\ resumed' = resumed
      /\ seen' = [v |-> vector, error |-> stack[Exc!Frame.error], rip |-> stack[Exc!Frame.rip]]
      /\ \/ at' = at /\ ip' = ip + 1
         \/ at' = "halted"
  BY DEF Exc!CallHandler
<1>2. PICK v \in Exc!Idt :
         v = vector /\ at = "stub" /\ ip = Lead(v) + 9 /\ Running(9, v)
  BY <1>1, InCommonPart
<1>3. HoldsFrom(1, v) /\ \A r \in Kept : reg[r] = r
  BY <1>2 DEF Running
<1>4. reg' \in [Exc!Regs -> Words] /\ \A r \in Kept : reg'[r] = r
  <2>1. PICK changed \in SUBSET Exc!CallerSaved :
           reg' = [r \in Exc!Regs |-> IF r \in changed THEN "junk" ELSE reg[r]]
    BY DEF Exc!CallHandler
  <2>2. "junk" \in Words
    BY DEF Words
  <2>3. Kept \subseteq Exc!Regs /\ \A r \in Kept : r \notin Exc!CallerSaved
    BY RegisterNames DEF Kept, Exc!CallerSaved
  <2> QED BY <1>3, <2>1, <2>2, <2>3 DEF StubInv
<1>5. stack[8] = ErrorWord(v) /\ stack[9] = "rip"
  <2>1. \A j \in 1 .. 15 - 1 : stack[j] = FullFrame(v)[1 - 1 + j]
    BY <1>3 DEF HoldsFrom, Holds
  <2>2. stack[8] = FullFrame(v)[8] /\ stack[9] = FullFrame(v)[9]
    BY ONLY <2>1
  <2> QED BY <2>2, FrameWords
<1>6. Exc!FrameMatches'
  <2>1. seen' = [v |-> v, error |-> ErrorWord(v), rip |-> "rip"]
    BY <1>1, <1>2, <1>5 DEF Exc!Frame
  <2> QED BY <2>1 DEF Exc!FrameMatches, ErrorWord
<1>7. CASE at' = at /\ ip' = ip + 1
  <2>1. \A j \in 1 .. 10 - 10 : j <= 7 => reg'[FullFrame(v)[j]] = FullFrame(v)[j]
    OBVIOUS
  <2>2. HoldsFrom(10 - 9, v)'
    BY <1>1, <1>3 DEF HoldsFrom
  <2>3. Running(10, v)'
    BY <1>4, <2>1, <2>2 DEF Running
  <2>4. ip' = Lead(v) + 10
    BY <1>2, <1>7, LeadIs
  <2> QED BY <1>1, <1>2, <1>4, <1>6, <1>7, <2>3, <2>4, StubStays
<1>8. CASE at' = "halted"
  BY <1>4, <1>6, <1>8 DEF StubInv, InStub, InCode
<1> QED BY <1>1, <1>7, <1>8

\* RESTORE_ALL_REGISTERS, an instruction at a time.
LEMMA PopStep ==
  ASSUME StubInv, Exc!Pop
  PROVE  StubInv'
<1>1. /\ Exc!Instruction("pop") /\ reg' = [reg EXCEPT ![Exc!Operand] = Head(stack)]
      /\ stack' = Tail(stack)
      /\ ip' = ip + 1 /\ vector' = vector /\ seen' = seen /\ at' = at
  BY DEF Exc!Pop
<1>2. PICK v \in Exc!Idt, k \in 10 .. 16 :
         /\ v = vector /\ at = "stub" /\ ip = Lead(v) + k /\ Running(k, v)
         /\ Exc!Operand = FullFrame(v)[k - 9]
  BY <1>1, InCommonPart
<1>3. PICK n \in 1 .. 7 : n = k - 9
  BY <1>2
<1>4. /\ Holds(stack, n, v) /\ \A r \in Kept : reg[r] = r
      /\ \A j \in 1 .. n - 1 : j <= 7 => reg[FullFrame(v)[j]] = FullFrame(v)[j]
  <2>1. k >= 10 /\ k - 9 = n /\ k - 10 = n - 1
    BY <1>3
  <2> QED BY <1>2, <2>1 DEF Running, HoldsFrom
<1>5. Head(stack) = FullFrame(v)[n] /\ Holds(stack', n + 1, v)
  BY <1>1, <1>4, Popped
<1>6. FullFrame(v)[n] \in Exc!Regs /\ FullFrame(v)[n] \in Words
  BY FrameWords
<1>7. reg' = [reg EXCEPT ![FullFrame(v)[n]] = FullFrame(v)[n]]
  BY <1>1, <1>2, <1>3, <1>5
<1>8. /\ reg' \in [Exc!Regs -> Words] /\ reg'[FullFrame(v)[n]] = FullFrame(v)[n]
      /\ \A r \in Exc!Regs : reg[r] = r => reg'[r] = r
  BY <1>6, <1>7 DEF StubInv
<1>9. \A r \in Kept : reg'[r] = r
  <2>1. Kept \subseteq Exc!Regs
    BY RegisterNames DEF Kept
  <2> QED BY <1>4, <1>8, <2>1
<1>10. \A j \in 1 .. n : j <= 7 => reg'[FullFrame(v)[j]] = FullFrame(v)[j]
  <2> SUFFICES ASSUME NEW j \in 1 .. n PROVE reg'[FullFrame(v)[j]] = FullFrame(v)[j]
    OBVIOUS
  <2>1. CASE j = n
    BY <1>8, <2>1
  <2>2. CASE j # n
    <3>1. j \in 1 .. n - 1 /\ j <= 7 /\ j \in 1 .. 7
      BY <2>2
    <3>2. FullFrame(v)[j] \in Exc!Regs
      BY <3>1, FrameWords
    <3> QED BY <1>4, <1>8, <3>1, <3>2
  <2> QED BY <2>1, <2>2
<1>11. PICK i \in 1 .. 18 : i = k + 1 /\ i >= 10 /\ ~ (i <= 8) /\ i # 9 /\ i - 9 = n + 1 /\ i - 10 = n
  <2>1. /\ k + 1 \in 1 .. 18 /\ k + 1 >= 10 /\ ~ (k + 1 <= 8) /\ k + 1 # 9
        /\ (k + 1) - 9 = n + 1 /\ (k + 1) - 10 = n
    BY <1>3
  <2> QED BY ONLY <2>1
<1>12. Running(i, v)'
  BY <1>5, <1>9, <1>10, <1>11 DEF Running, HoldsFrom
<1>13. ip' = Lead(v) + i
  BY <1>1, <1>2, <1>11, LeadIs
<1>14. Exc!FrameMatches'
  BY <1>1 DEF StubInv, Exc!FrameMatches
<1> QED BY <1>1, <1>2, <1>8, <1>12, <1>13, <1>14, StubStays

\* The error code is taken off.
LEMMA SkipStep ==
  ASSUME StubInv, Exc!Skip
  PROVE  StubInv'
<1>1. /\ Exc!Instruction("skip") /\ stack' = Tail(stack)
      /\ ip' = ip + 1 /\ vector' = vector /\ reg' = reg /\ seen' = seen /\ at' = at
  BY DEF Exc!Skip
<1>2. PICK v \in Exc!Idt :
         v = vector /\ at = "stub" /\ ip = Lead(v) + 17 /\ Running(17, v)
  BY <1>1, InCommonPart
<1>3. /\ Holds(stack, 17 - 9, v) /\ \A r \in Kept : reg[r] = r
      /\ \A j \in 1 .. 17 - 10 : j <= 7 => reg[FullFrame(v)[j]] = FullFrame(v)[j]
  BY <1>2 DEF Running, HoldsFrom
<1>4. Holds(stack', 9, v)
  <2>1. 17 - 9 \in 1 .. 13 /\ (17 - 9) + 1 = 9
    OBVIOUS
  <2>2. Holds(Tail(stack), (17 - 9) + 1, v)
    BY <1>3, <2>1, Popped
  <2> QED BY <1>1, <2>1, <2>2
<1>5. Running(18, v)'
  <2>1. \A j \in 1 .. 18 - 10 : j <= 7 => reg'[FullFrame(v)[j]] = FullFrame(v)[j]
    BY <1>1, <1>3
  <2>2. HoldsFrom(18 - 9, v)'
    BY <1>4 DEF HoldsFrom
  <2> QED BY <1>1, <1>3, <2>1, <2>2 DEF Running
<1>6. ip' = Lead(v) + 18
  BY <1>1, <1>2, LeadIs
<1>7. reg' \in [Exc!Regs -> Words] /\ Exc!FrameMatches'
  BY <1>1 DEF StubInv, Exc!FrameMatches
<1> QED BY <1>1, <1>2, <1>5, <1>6, <1>7, StubStays

\* What a part of a sequence is.
LEMMA PartOf ==
  ASSUME NEW A, NEW s \in Seq(A), NEW m \in 1 .. Len(s), NEW n \in m .. Len(s)
  PROVE  /\ SubSeq(s, m, n) \in Seq(A) /\ Len(SubSeq(s, m, n)) = n - m + 1
         /\ \A j \in 1 .. n - m + 1 : SubSeq(s, m, n)[j] = s[m + j - 1]
<1>1. \A i \in m .. n : s[i] \in A
  OBVIOUS
<1>2. m \in Int /\ n \in Int /\ m <= n
  OBVIOUS
<1> QED BY ONLY <1>1, <1>2, SubSeqProperties

\* Two sequences with the same words are equal.
LEMMA SameWords ==
  ASSUME NEW A, NEW s \in Seq(A), NEW t \in Seq(A), Len(s) = Len(t),
         \A j \in 1 .. Len(s) : s[j] = t[j]
  PROVE  s = t
  OBVIOUS

\* The interrupted code goes on.
LEMMA IretqStep ==
  ASSUME StubInv, Exc!Iretq
  PROVE  StubInv'
<1>1. /\ Exc!Instruction("iretq") /\ resumed' = SubSeq(stack, 1, 5)
      /\ stack' = SubSeq(stack, 6, Len(stack)) /\ at' = "code"
      /\ reg' = reg /\ seen' = seen
  BY DEF Exc!Iretq
<1>2. PICK v : v = vector /\ Running(18, v)
  BY <1>1, InCommonPart
<1>3. /\ Holds(stack, 9, v) /\ \A r \in Kept : reg[r] = r
      /\ \A j \in 1 .. 7 : reg[FullFrame(v)[j]] = FullFrame(v)[j]
  <2>1. /\ HoldsFrom(18 - 9, v) /\ \A r \in Kept : reg[r] = r
        /\ \A j \in 1 .. 18 - 10 : j <= 7 => reg[FullFrame(v)[j]] = FullFrame(v)[j]
    BY <1>2 DEF Running
  <2> QED BY <2>1 DEF HoldsFrom
<1>4. /\ stack \in Seq(Words) /\ Len(stack) = 6
      /\ stack[1] = "rip" /\ stack[2] = "cs" /\ stack[3] = "rflags"
      /\ stack[4] = "rsp" /\ stack[5] = "ss" /\ stack[6] = "data"
  <2>1. /\ stack \in Seq(Words) /\ Len(stack) = 6
        /\ \A j \in 1 .. 6 : stack[j] = FullFrame(v)[8 + j]
    BY <1>3 DEF Holds
  <2>2. /\ stack[1] = FullFrame(v)[9] /\ stack[2] = FullFrame(v)[10]
        /\ stack[3] = FullFrame(v)[11] /\ stack[4] = FullFrame(v)[12]
        /\ stack[5] = FullFrame(v)[13] /\ stack[6] = FullFrame(v)[14]
    BY ONLY <2>1
  <2> QED BY <2>1, <2>2, FrameWords
<1>5. resumed' = Exc!CpuFrame
  <2>1. PICK u : u = SubSeq(stack, 1, 5)
    OBVIOUS
  <2>2. u \in Seq(Words) /\ Len(u) = 5 /\ \A j \in 1 .. 5 : u[j] = stack[j]
    <3>1. PICK one \in Nat, five \in Nat : one = 1 /\ five = 5
      OBVIOUS
    <3>2. one \in 1 .. Len(stack) /\ five \in one .. Len(stack) /\ stack \in Seq(Words)
      BY <1>4, <3>1
    <3>3. /\ SubSeq(stack, one, five) \in Seq(Words) /\ Len(SubSeq(stack, one, five)) = five - one + 1
          /\ \A j \in 1 .. five - one + 1 : SubSeq(stack, one, five)[j] = stack[one + j - 1]
      BY ONLY <3>2, PartOf
    <3>4. SubSeq(stack, one, five) = u
      BY <2>1, <3>1
    <3>5. five - one + 1 = 5 /\ \A j \in 1 .. 5 : one + j - 1 = j
      BY <3>1
    <3> QED BY ONLY <3>3, <3>4, <3>5, Zenon
  <2>3. /\ Exc!CpuFrame \in Seq(Words) /\ Len(Exc!CpuFrame) = 5
        /\ \A j \in 1 .. 5 : Exc!CpuFrame[j] = stack[j]
    BY <1>4 DEF Exc!CpuFrame, Words
  <2>4. u = Exc!CpuFrame
    BY ONLY <2>2, <2>3, SameWords
  <2> QED BY <1>1, <2>1, <2>4
<1>6. stack' = <<"data">>
  <2>1. PICK u : u = SubSeq(stack, 6, 6)
    OBVIOUS
  <2>2. u \in Seq(Words) /\ Len(u) = 1 /\ u[1] = stack[6]
    <3>1. PICK six \in 1 .. Len(stack) : six = 6
      BY <1>4
    <3>2. six \in six .. Len(stack) /\ stack \in Seq(Words)
      BY <1>4, <3>1
    <3>3. /\ SubSeq(stack, six, six) \in Seq(Words) /\ Len(SubSeq(stack, six, six)) = six - six + 1
          /\ \A j \in 1 .. six - six + 1 : SubSeq(stack, six, six)[j] = stack[six + j - 1]
      BY <3>2, PartOf
    <3>4. SubSeq(stack, six, six) = u
      BY <2>1, <3>1
    <3>5. six - six + 1 = 1 /\ six + 1 - 1 = 6 /\ 1 \in 1 .. 1
      BY <3>1
    <3> QED BY ONLY <3>3, <3>4, <3>5, Zenon
  <2>3. <<"data">> \in Seq(Words) /\ Len(<<"data">>) = 1 /\ <<"data">>[1] = "data"
    BY OneWord DEF Words
  <2>4. u = <<"data">>
    BY ONLY <1>4, <2>2, <2>3, SameWords
  <2> QED BY <1>1, <1>4, <2>1, <2>4
<1>7. \A r \in Kept \cup Exc!Range(Exc!Saved) : reg'[r] = r
  <2>1. \A r \in Exc!Range(Exc!Saved) : reg[r] = r
    <3> TAKE r \in Exc!Range(Exc!Saved)
    <3>1. PICK j \in 1 .. 7 : FullFrame(v)[j] = r
      BY FrameWords
    <3> QED BY <1>3, <3>1
  <2>2. \A r \in Kept \cup Exc!Range(Exc!Saved) : reg[r] = r
    BY <1>3, <2>1
  <2> QED BY <1>1, <2>2
<1>8. Exc!FrameMatches' /\ reg' \in [Exc!Regs -> Words]
  BY <1>1 DEF StubInv, Exc!FrameMatches
<1>9. \A r \in Kept \cup {"rax", "rcx", "rdx", "rdi", "rsi"} : reg'[r] = r
  BY <1>7, RegisterNames
<1> QED BY <1>1, <1>5, <1>6, <1>8, <1>9 DEF StubInv, InStub, InCode

\* StubInv is inductive.
LEMMA StubInvHolds == Exc!Spec => []StubInv
<1>1. Exc!Init => StubInv
  <2> SUFFICES ASSUME Exc!Init PROVE StubInv
    OBVIOUS
  <2>1. /\ at = "code" /\ reg = [r \in Exc!Regs |-> r] /\ stack = <<"data">>
        /\ resumed = Exc!CpuFrame /\ seen = Exc!NoFrame
    BY DEF Exc!Init
  <2>2. /\ reg \in [Exc!Regs -> Words] /\ \A r \in Exc!Regs : reg[r] = r
        /\ Kept \cup {"rax", "rcx", "rdx", "rdi", "rsi"} \subseteq Exc!Regs
    BY <2>1, RegisterNames DEF Words, Kept
  <2> QED BY <2>1, <2>2 DEF StubInv, InStub, InCode, Exc!FrameMatches
<1>2. StubInv /\ [Exc!Next]_Exc!vars => StubInv'
  <2> SUFFICES ASSUME StubInv, [Exc!Next]_Exc!vars PROVE StubInv'
    OBVIOUS
  <2>1. CASE \E w \in Vectors : Exc!Raise(w)
    BY <2>1, RaiseStep
  <2>2. CASE Exc!Push0
    BY <2>2, Push0Step
  <2>3. CASE Exc!Push
    BY <2>3, PushStep
  <2>4. CASE Exc!MovRspRdi
    BY <2>4, MovStep
  <2>5. CASE Exc!CallHandler
    BY <2>5, CallStep
  <2>6. CASE Exc!Pop
    BY <2>6, PopStep
  <2>7. CASE Exc!Skip
    BY <2>7, SkipStep
  <2>8. CASE Exc!Iretq
    BY <2>8, IretqStep
  <2>9. CASE UNCHANGED Exc!vars \/ Exc!Halted
    <3>1. /\ vector' = vector /\ ip' = ip /\ reg' = reg /\ stack' = stack
          /\ resumed' = resumed /\ seen' = seen /\ at' = at
      BY <2>9 DEF Exc!vars, Exc!Halted
    <3> QED BY <3>1 DEF StubInv, InStub, InCode, Running, HoldsFrom, Exc!FrameMatches
  <2> QED BY <2>1, <2>2, <2>3, <2>4, <2>5, <2>6, <2>7, <2>8, <2>9 DEF Exc!Next
<1> QED BY <1>1, <1>2, PTL DEF Exc!Spec

\* The stubs of asm.S are transparent: every handler finds its error code and
\* the interrupted address in its frame, and the interrupted code goes on in
\* its place with its stack, its flags and every register but r8 to r11.
THEOREM StubsHold == Exc!Spec => []StubsTransparent
<1>1. StubInv => StubsTransparent
  <2> SUFFICES ASSUME StubInv PROVE StubsTransparent
    OBVIOUS
  <2>1. Exc!FrameMatches
    BY DEF StubInv
  <2>2. Exc!ResumesInPlace
    BY DEF StubInv, InCode, Exc!ResumesInPlace
  <2>3. Exc!SavedRegistersKept
    <3>1. Exc!Range(Exc!Saved) \cup (Exc!Regs \ Exc!CallerSaved)
            \subseteq Kept \cup {"rax", "rcx", "rdx", "rdi", "rsi"}
      BY RegisterNames DEF Kept
    <3> QED BY <3>1 DEF StubInv, InCode, Exc!SavedRegistersKept
  <2> QED BY <2>1, <2>2, <2>3 DEF StubsTransparent, Exc!StubsTransparent
<1> QED BY <1>1, StubInvHolds, PTL

----------------------------------------------------------------------------
(* Demand paging.                                                          *)

\* The pages that one entry leads to.
LEMMA SpanIs ==
  \A l \in 0 .. Levels : Pg!Span[l] \in Nat \ {0}
<1> DEFINE T == {l \in 0 .. Levels : Pg!Span[l] \in Nat \ {0}}
<1>0. Levels \in Nat /\ Fan \in Nat \ {0}
  BY PagingShape DEF Pg!ShapeAssumption
<1>1. \E h : h = [l \in 0 .. Levels |-> IF l = 0 THEN 1 ELSE Fan * h[l - 1]]
  <2> DEFINE F == [z \in (1 .. Levels) \X Nat |-> Fan * z[2]]
  <2>1. F \in [(1 .. Levels) \X Nat -> Nat] /\ \A l \in 1 .. Levels, s \in Nat : F[<<l, s>>] = Fan * s
    BY <1>0
  <2> HIDE DEF F
  <2>a. RecursionStep(F, Levels, Nat)
    BY <2>1 DEF RecursionStep
  <2>b. PICK h : Follows(h, F, 1, Levels, Nat)
    BY <1>0, <2>a, Recur
  <2>2. h \in [0 .. Levels -> Nat] /\ h[0] = 1 /\ \A l \in 1 .. Levels : h[l] = F[<<l, h[l - 1]>>]
    BY <2>b DEF Follows
  <2>3. \A l \in 1 .. Levels : h[l] = Fan * h[l - 1]
    <3> TAKE l \in 1 .. Levels
    <3>1. h[l - 1] \in Nat
      BY <1>0, <2>2
    <3> QED BY ONLY <2>1, <2>2, <3>1, Zenon
  <2>4. h = [l \in 0 .. Levels |-> IF l = 0 THEN 1 ELSE Fan * h[l - 1]]
    BY <1>0, <2>2, <2>3
  <2> QED BY <2>4
<1>2. Pg!Span = [l \in 0 .. Levels |-> IF l = 0 THEN 1 ELSE Fan * Pg!Span[l - 1]]
  BY <1>1 DEF Pg!Span
<1>3. 0 \in T
  BY <1>0, <1>2
<1>4. ASSUME NEW l \in 0 .. Levels - 1, l \in T PROVE l + 1 \in T
  <2>1. Pg!Span[l + 1] = Fan * Pg!Span[l]
    BY <1>0, <1>2
  <2> QED BY <1>0, <1>4, <2>1
<1> HIDE DEF T
<1>5. \A l \in 0 .. Levels : l \in T
  BY <1>0, <1>3, <1>4, Induct
<1> QED BY <1>5 DEF T

\* What part takes of an address is an index of a map.
LEMMA PartIs ==
  ASSUME NEW page \in Nat, NEW l \in 1 .. Levels
  PROVE  Pg!part(page, l) \in Pg!Index
<1>1. Levels \in Nat /\ Fan \in Nat \ {0} /\ l - 1 \in 0 .. Levels
  BY PagingShape DEF Pg!ShapeAssumption
<1>2. Pg!Span[l - 1] \in Nat \ {0}
  BY <1>1, SpanIs
<1> QED BY <1>1, <1>2 DEF Pg!part, Pg!Index

\* An entry of a page map, and what a page walk knows.
Entries == [p : BOOLEAN, to : Pg!Frames, rw : BOOLEAN]
Walks == [ok : BOOLEAN, rw : BOOLEAN, frame : Pg!Frames]

\* d says how deep in the page maps each frame lies, Levels + 1 for a frame that
\* is in none of them.  All entries lead one level down, no two to the same
\* frame; only frames that alloc_mem has handed out lie in the maps; the pages
\* at the bottom are zero; without a read-only mapping all entries are writable.
Tree(d) ==
  /\ d \in [Pg!Frames -> 0 .. Levels + 1]
  /\ d[Pg!Root] = 0 /\ d[Pg!KernelMap] = 1
  /\ \A f \in Pg!Frames : d[f] <= Levels => f \in {Pg!Root, Pg!KernelMap} \cup 1 .. used
  /\ \A f \in Pg!Frames, i \in Pg!Index :
       d[f] < Levels /\ mem[f][i].p => d[mem[f][i].to] = d[f] + 1
  /\ \A f \in Pg!Frames, i \in Pg!Index :
       d[f] < Levels /\ mem[f][i].p => readonly \/ mem[f][i].rw
  /\ \A f, g \in Pg!Frames, i, j \in Pg!Index :
       /\ d[f] < Levels /\ mem[f][i].p
       /\ d[g] < Levels /\ mem[g][j].p
       /\ mem[f][i].to = mem[g][j].to
       => f = g /\ i = j
  /\ \A f \in Pg!Frames : d[f] = Levels => mem[f] = Pg!Zero

\* The shape of the page maps.
LEMMA Shape ==
  /\ Fan \in Nat /\ Fan >= 2 /\ Levels \in Nat /\ Levels >= 2 /\ NumFrames \in Nat
  /\ Pg!Index = 0 .. Fan - 1 /\ Pg!Frames = 0 .. NumFrames + 1
  /\ Pg!Root = 0 /\ Pg!KernelMap = NumFrames + 1
  /\ Pg!Root \in Pg!Frames /\ Pg!KernelMap \in Pg!Frames
  BY PagingShape DEF Pg!ShapeAssumption, Pg!Index, Pg!Frames, Pg!Root, Pg!KernelMap

\* A page walk that succeeds ends at depth Levels, and allows writing unless
\* there is a read-only mapping.
LEMMA WalkEnds ==
  ASSUME NEW d, Tree(d), mem \in [Pg!Frames -> [Pg!Index -> Entries]], NEW page \in Nat
  PROVE  /\ Pg!Walk(page).frame \in Pg!Frames
         /\ Pg!Walk(page).ok => d[Pg!Walk(page).frame] = Levels
         /\ Pg!Walk(page).ok => readonly \/ Pg!Walk(page).rw
<1> DEFINE walk[k \in 0 .. Levels] ==
             IF k = 0 THEN [ok |-> TRUE, rw |-> TRUE, frame |-> Pg!Root]
             ELSE LET w == walk[k - 1]
                      e == mem[w.frame][Pg!part(page, Levels + 1 - k)]
                  IN  IF w.ok /\ e.p THEN [ok |-> TRUE, rw |-> w.rw /\ e.rw, frame |-> e.to]
                      ELSE [w EXCEPT !.ok = FALSE]
           Down(k, w) ==
             LET e == mem[w.frame][Pg!part(page, Levels + 1 - k)]
             IN  IF w.ok /\ e.p THEN [ok |-> TRUE, rw |-> w.rw /\ e.rw, frame |-> e.to]
                 ELSE [w EXCEPT !.ok = FALSE]
           Start == [ok |-> TRUE, rw |-> TRUE, frame |-> Pg!Root]
<1>1. Pg!Walk(page) = walk[Levels]
  BY DEF Pg!Walk
<1>2. Levels \in Nat /\ Start \in Walks
  BY Shape DEF Walks
<1>3. \A k \in 1 .. Levels : Pg!part(page, Levels + 1 - k) \in Pg!Index
  <2> TAKE k \in 1 .. Levels
  <2>1. Levels + 1 - k \in 1 .. Levels
    BY <1>2
  <2> QED BY <2>1, PartIs
<1>4. ASSUME NEW k \in 1 .. Levels, NEW w \in Walks
      PROVE  /\ Down(k, w) \in Walks
             /\ Down(k, w).ok => /\ w.ok /\ mem[w.frame][Pg!part(page, Levels + 1 - k)].p
                                 /\ Down(k, w).frame = mem[w.frame][Pg!part(page, Levels + 1 - k)].to
             /\ Down(k, w).ok => (Down(k, w).rw <=> w.rw /\ mem[w.frame][Pg!part(page, Levels + 1 - k)].rw)
  <2>1. PICK e \in Entries : e = mem[w.frame][Pg!part(page, Levels + 1 - k)]
    BY <1>3 DEF Walks
  <2>2. Down(k, w) = IF w.ok /\ e.p THEN [ok |-> TRUE, rw |-> w.rw /\ e.rw, frame |-> e.to]
                     ELSE [w EXCEPT !.ok = FALSE]
    BY <2>1
  <2>3. CASE w.ok /\ e.p
    BY <2>1, <2>2, <2>3 DEF Entries, Walks
  <2>4. CASE ~ (w.ok /\ e.p)
    <3>1. Down(k, w) = [w EXCEPT !.ok = FALSE]
      BY <2>2, <2>4
    <3> HIDE DEF Down
    <3> QED BY <3>1 DEF Walks
  <2> QED BY <2>3, <2>4
<1> HIDE DEF Start
<1>5. \E h : h = [k \in 0 .. Levels |-> IF k = 0 THEN Start ELSE Down(k, h[k - 1])]
  <2> DEFINE F == [z \in (1 .. Levels) \X Walks |-> Down(z[1], z[2])]
  <2>1. \A k \in 1 .. Levels, w \in Walks : Down(k, w) \in Walks
    BY <1>4
  <2> HIDE DEF Down
  <2>2. RecursionStep(F, Levels, Walks) /\ \A k \in 1 .. Levels, w \in Walks : F[<<k, w>>] = Down(k, w)
    BY <2>1 DEF RecursionStep
  <2> HIDE DEF F
  <2>3. PICK h : Follows(h, F, Start, Levels, Walks)
    BY <1>2, <2>2, Recur
  <2>4. /\ h \in [0 .. Levels -> Walks] /\ h[0] = Start
        /\ \A k \in 1 .. Levels : h[k] = F[<<k, h[k - 1]>>]
    BY <2>3 DEF Follows
  <2>5. \A k \in 1 .. Levels : h[k] = Down(k, h[k - 1])
    <3> TAKE k \in 1 .. Levels
    <3>1. h[k - 1] \in Walks
      BY <1>2, <2>4
    <3> QED BY ONLY <2>2, <2>4, <3>1, Zenon
  <2>6. h = [k \in 0 .. Levels |-> IF k = 0 THEN Start ELSE Down(k, h[k - 1])]
    BY <1>2, <2>4, <2>5
  <2> QED BY <2>6
<1>6. walk = [k \in 0 .. Levels |-> IF k = 0 THEN Start ELSE Down(k, walk[k - 1])]
  BY <1>5 DEF Start
<1> HIDE DEF walk, Down
<1> DEFINE T == {k \in 0 .. Levels : /\ walk[k] \in Walks
                                     /\ walk[k].ok => d[walk[k].frame] = k
                                     /\ walk[k].ok => readonly \/ walk[k].rw}
<1>7. 0 \in T
  <2>1. walk[0] = Start
    BY <1>2, <1>6
  <2> QED BY <1>2, <2>1 DEF Start, Tree
<1>8. ASSUME NEW k \in 0 .. Levels - 1, k \in T PROVE k + 1 \in T
  <2>1. /\ walk[k] \in Walks
        /\ walk[k].ok => d[walk[k].frame] = k
        /\ walk[k].ok => readonly \/ walk[k].rw
    BY <1>8
  <2>2. PICK i \in 1 .. Levels : i = k + 1
    BY <1>2
  <2>3. walk[i] = Down(i, walk[k])
    <3>1. i \in 0 .. Levels /\ i # 0 /\ i - 1 = k
      BY <1>2, <2>2
    <3> QED BY <1>6, <3>1
  <2>4. PICK x1 \in Pg!Index : x1 = Pg!part(page, Levels + 1 - i)
    BY <1>3
  <2>5. /\ walk[i] \in Walks
        /\ walk[i].ok => /\ walk[k].ok /\ mem[walk[k].frame][x1].p
                         /\ walk[i].frame = mem[walk[k].frame][x1].to
        /\ walk[i].ok => (walk[i].rw <=> walk[k].rw /\ mem[walk[k].frame][x1].rw)
    BY <1>4, <2>1, <2>3, <2>4
  <2>6. CASE walk[i].ok
    <3>1. walk[k].frame \in Pg!Frames /\ d[walk[k].frame] = k /\ k < Levels
      BY <1>2, <2>1, <2>5, <2>6 DEF Walks
    <3>2. mem[walk[k].frame][x1].p
      BY <2>5, <2>6
    <3>3. d[mem[walk[k].frame][x1].to] = k + 1
      BY <3>1, <3>2 DEF Tree
    <3>4. readonly \/ mem[walk[k].frame][x1].rw
      BY <3>1, <3>2 DEF Tree
    <3>5. readonly \/ walk[i].rw
      BY <2>1, <2>5, <2>6, <3>4
    <3>6. i \in 0 .. Levels /\ d[walk[i].frame] = i
      BY <2>2, <2>5, <2>6, <3>3
    <3> QED BY <2>2, <2>5, <3>5, <3>6
  <2>7. CASE ~ walk[i].ok
    BY <1>2, <2>2, <2>5, <2>7
  <2> QED BY <2>6, <2>7
<1>9. Levels \in T
  <2> HIDE DEF T
  <2>1. Levels \in 0 .. Levels
    BY <1>2
  <2> QED BY <1>2, <1>7, <1>8, <2>1, Induct
<1>10. /\ walk[Levels] \in Walks
       /\ walk[Levels].ok => d[walk[Levels].frame] = Levels
       /\ walk[Levels].ok => readonly \/ walk[Levels].rw
  BY <1>9
<1> QED BY <1>1, <1>10 DEF Walks

\* The frames reached in k steps lie at depth k, so the maps form a tree.
LEMMA TreeFormed ==
  ASSUME NEW d, Tree(d), mem \in [Pg!Frames -> [Pg!Index -> Entries]], used \in 0 .. NumFrames
  PROVE  Pg!TablesFormTree
<1> DEFINE maps[k \in 0 .. Levels] ==
             IF k = 0 THEN {Pg!Root}
             ELSE {mem[l[1]][l[2]].to : l \in {z \in maps[k - 1] \X Pg!Index : mem[z[1]][z[2]].p}}
           Below(M) == {mem[l[1]][l[2]].to : l \in {z \in M \X Pg!Index : mem[z[1]][z[2]].p}}
           links == {z \in (UNION {maps[k] : k \in 0 .. Levels - 1}) \X Pg!Index : mem[z[1]][z[2]].p}
           to(l) == mem[l[1]][l[2]].to
<1>1. SUFFICES /\ \A l \in links : to(l) \in {Pg!KernelMap} \cup 1 .. used
               /\ \A l, m \in links : to(l) = to(m) => l = m
  BY DEF Pg!TablesFormTree
<1>2. Levels \in Nat /\ Pg!Root \in Pg!Frames
  BY Shape
<1>3. \A f \in Pg!Frames, i \in Pg!Index : mem[f][i].to \in Pg!Frames
  BY DEF Entries
<1>4. \A M \in SUBSET Pg!Frames : Below(M) \in SUBSET Pg!Frames
  BY <1>3
<1>5. \E h : h = [k \in 0 .. Levels |-> IF k = 0 THEN {Pg!Root} ELSE Below(h[k - 1])]
  <2> DEFINE F == [z \in (1 .. Levels) \X SUBSET Pg!Frames |-> Below(z[2])]
  <2> HIDE DEF Below
  <2>2. /\ RecursionStep(F, Levels, SUBSET Pg!Frames)
        /\ \A k \in 1 .. Levels, M \in SUBSET Pg!Frames : F[<<k, M>>] = Below(M)
    BY <1>4 DEF RecursionStep
  <2> HIDE DEF F
  <2>3. PICK h : Follows(h, F, {Pg!Root}, Levels, SUBSET Pg!Frames)
    <3>1. {Pg!Root} \in SUBSET Pg!Frames
      BY <1>2
    <3> QED BY <1>2, <2>2, <3>1, Recur
  <2>4. /\ h \in [0 .. Levels -> SUBSET Pg!Frames] /\ h[0] = {Pg!Root}
        /\ \A k \in 1 .. Levels : h[k] = F[<<k, h[k - 1]>>]
    BY <2>3 DEF Follows
  <2>5. \A k \in 1 .. Levels : h[k] = Below(h[k - 1])
    <3> TAKE k \in 1 .. Levels
    <3>1. h[k - 1] \in SUBSET Pg!Frames
      BY <1>2, <2>4
    <3> QED BY ONLY <2>2, <2>4, <3>1, Zenon
  <2>6. h = [k \in 0 .. Levels |-> IF k = 0 THEN {Pg!Root} ELSE Below(h[k - 1])]
    BY <1>2, <2>4, <2>5
  <2> QED BY <2>6
<1>6. maps = [k \in 0 .. Levels |-> IF k = 0 THEN {Pg!Root} ELSE Below(maps[k - 1])]
  BY <1>5
<1> HIDE DEF maps
<1> DEFINE T == {k \in 0 .. Levels : \A f \in maps[k] : f \in Pg!Frames /\ d[f] = k}
<1>7. 0 \in T
  <2>1. maps[0] = {Pg!Root}
    BY <1>2, <1>6
  <2> QED BY <1>2, <2>1 DEF Tree
<1>8. ASSUME NEW k \in 0 .. Levels - 1, k \in T PROVE k + 1 \in T
  <2>1. maps[k + 1] = Below(maps[k]) /\ k + 1 \in 0 .. Levels /\ k < Levels
    <3>1. k + 1 \in 0 .. Levels /\ k + 1 # 0 /\ (k + 1) - 1 = k /\ k < Levels
      BY <1>2
    <3> HIDE DEF Below
    <3> QED BY <1>6, <3>1
  <2>2. ASSUME NEW f \in maps[k + 1] PROVE f \in Pg!Frames /\ d[f] = k + 1
    <3>1. PICK g \in maps[k], i \in Pg!Index : mem[g][i].p /\ f = mem[g][i].to
      BY <2>1
    <3>2. g \in Pg!Frames /\ d[g] = k
      BY <1>8
    <3> QED BY <1>3, <2>1, <3>1, <3>2 DEF Tree
  <2> QED BY <2>1, <2>2
<1>9. \A k \in 0 .. Levels : k \in T
  <2> HIDE DEF T
  <2> QED BY <1>2, <1>7, <1>8, Induct
<1>10. ASSUME NEW l \in links
       PROVE  \E f \in Pg!Frames, i \in Pg!Index :
                l = <<f, i>> /\ d[f] < Levels /\ mem[f][i].p /\ to(l) = mem[f][i].to
  <2>1. PICK k \in 0 .. Levels - 1 : l[1] \in maps[k]
    OBVIOUS
  <2>2. l[2] \in Pg!Index /\ l = <<l[1], l[2]>> /\ mem[l[1]][l[2]].p
    OBVIOUS
  <2>3. k \in 0 .. Levels /\ k < Levels
    BY <1>2
  <2>4. k \in T
    BY <1>9, <2>3
  <2>5. l[1] \in Pg!Frames /\ d[l[1]] = k
    BY <2>1, <2>4
  <2> QED BY <2>2, <2>3, <2>5
<1> HIDE DEF links
<1>11. ASSUME NEW l \in links PROVE to(l) \in {Pg!KernelMap} \cup 1 .. used
  <2>1. PICK f \in Pg!Frames, i \in Pg!Index : d[f] < Levels /\ mem[f][i].p /\ to(l) = mem[f][i].to
    BY <1>10
  <2> HIDE DEF to
  <2>2. to(l) \in Pg!Frames /\ d[to(l)] = d[f] + 1 /\ d[f] \in 0 .. Levels + 1
    BY <1>3, <2>1 DEF Tree
  <2>3. d[to(l)] <= Levels /\ to(l) # Pg!Root
    BY <1>2, <2>1, <2>2 DEF Tree
  <2> QED BY <2>2, <2>3 DEF Tree
<1>12. ASSUME NEW l \in links, NEW m \in links, to(l) = to(m) PROVE l = m
  <2>1. PICK f \in Pg!Frames, i \in Pg!Index :
           l = <<f, i>> /\ d[f] < Levels /\ mem[f][i].p /\ to(l) = mem[f][i].to
    BY <1>10
  <2>2. PICK g \in Pg!Frames, j \in Pg!Index :
           m = <<g, j>> /\ d[g] < Levels /\ mem[g][j].p /\ to(m) = mem[g][j].to
    BY <1>10
  <2>3. f = g /\ i = j
    BY <1>12, <2>1, <2>2 DEF Tree
  <2> QED BY <2>1, <2>2, <2>3
<1> QED BY <1>11, <1>12

\* The pages the processor reaches are zero.
LEMMA FreshZero ==
  ASSUME NEW d, Tree(d), mem \in [Pg!Frames -> [Pg!Index -> Entries]]
  PROVE  Pg!FreshPagesZero
<1>1. Levels \in Nat /\ Pg!NumPages \in Nat
  <2>1. Levels \in 0 .. Levels
    BY Shape
  <2> QED BY <2>1, Shape, SpanIs DEF Pg!NumPages
<1>2. ASSUME NEW v \in 0 .. Pg!NumPages - 1, Pg!Walk(v).ok PROVE mem[Pg!Walk(v).frame] = Pg!Zero
  <2>1. v \in Nat
    BY <1>1
  <2>2. Pg!Walk(v).frame \in Pg!Frames /\ d[Pg!Walk(v).frame] = Levels
    BY <1>2, <2>1, WalkEnds
  <2> QED BY <2>2 DEF Tree
<1> QED BY <1>2 DEF Pg!FreshPagesZero

\* An activation of setupPageMap.
Activation == [map : Pg!Frames, index : Pg!Index]

PagingTypes ==
  /\ mem \in [Pg!Frames -> [Pg!Index -> Entries]]
  /\ used \in 0 .. NumFrames
  /\ access.page \in Nat
  /\ addr \in [1 .. Levels -> Pg!Index]
  /\ activations \in Seq(Activation) /\ Len(activations) <= Levels

\* The activation at each place of the recursion works on a map at its depth.
AtTheirDepth(d) == \A k \in 1 .. Len(activations) : d[activations[k].map] = k - 1

\* While setupPageMap runs there is an activation, and its flag is known.
Mapping ==
  handler \in {"loop", "advance"} =>
    Len(activations) >= 1 /\ req.rw \in BOOLEAN /\ (readonly \/ req.rw)

\* A fault is handled while the access is still not allowed.
Handling == (handler = "fault" => ~ Pg!Allowed) /\ (handler = "halt" => readonly)

PagingInv ==
  /\ PagingTypes /\ Mapping /\ Handling
  /\ \E d : Tree(d) /\ AtTheirDepth(d)

\* The activation that runs and the entry it is about to use.
LEMMA TopIs ==
  ASSUME PagingInv, handler \in {"loop", "advance"}, NEW d, Tree(d), AtTheirDepth(d)
  PROVE  /\ Len(activations) \in 1 .. Levels /\ Pg!Level \in 1 .. Levels
         /\ Pg!Level = Levels + 1 - Len(activations)
         /\ Pg!Top \in Activation /\ Pg!Top = activations[Len(activations)]
         /\ d[Pg!Top.map] = Len(activations) - 1 /\ d[Pg!Top.map] < Levels
         /\ addr[Pg!Level] \in Pg!Index
         /\ Pg!Entry = mem[Pg!Top.map][addr[Pg!Level]] /\ Pg!Entry \in Entries
<1>1. Len(activations) \in 1 .. Levels /\ activations \in Seq(Activation)
  BY Shape DEF PagingInv, PagingTypes, Mapping
<1>2. Pg!Level = Levels + 1 - Len(activations) /\ Pg!Level \in 1 .. Levels
  BY <1>1, Shape DEF Pg!Level
<1>3. Pg!Top \in Activation /\ Pg!Top = activations[Len(activations)]
  BY <1>1 DEF Pg!Top
<1>4. d[Pg!Top.map] = Len(activations) - 1 /\ d[Pg!Top.map] < Levels
  BY <1>1, <1>3, Shape DEF AtTheirDepth
<1>5. addr[Pg!Level] \in Pg!Index
  BY <1>2 DEF PagingInv, PagingTypes
<1>6. Pg!Entry = mem[Pg!Top.map][addr[Pg!Level]]
  BY DEF Pg!Entry
<1>7. Pg!Entry \in Entries
  BY <1>3, <1>5, <1>6 DEF PagingInv, PagingTypes, Activation
<1> QED BY <1>1, <1>2, <1>3, <1>4, <1>5, <1>6, <1>7

\* The step into the next map, or behind the page.
LEMMA IntoStep ==
  ASSUME PagingInv, handler = "loop", NEW d, Tree(d), AtTheirDepth(d),
         NEW e, AtTheirDepth(e), NEW child \in Pg!Frames, e[child] = Len(activations),
         Pg!Into(child)
  PROVE  /\ activations' \in Seq(Activation) /\ Len(activations') \in 1 .. Levels
         /\ handler' \in {"loop", "advance"}
         /\ \A k \in 1 .. Len(activations') : e[activations'[k].map] = k - 1
<1> DEFINE top == [Pg!Top EXCEPT !.index = addr[Pg!Level]]
           s == [activations EXCEPT ![Len(activations)] = top]
           n == Len(activations)
<1>1. /\ n \in 1 .. Levels /\ Pg!Level = Levels + 1 - n
      /\ Pg!Top \in Activation /\ Pg!Top = activations[n] /\ addr[Pg!Level] \in Pg!Index
      /\ activations \in Seq(Activation)
  BY TopIs DEF PagingInv, PagingTypes
<1>2. top \in Activation /\ top.map = activations[n].map
  BY <1>1 DEF Activation
<1> HIDE DEF top
<1>3. s \in Seq(Activation) /\ Len(s) = n /\ \A k \in 1 .. n : s[k].map = activations[k].map
  <2>1. s \in Seq(Activation) /\ Len(s) = n
    BY <1>1, <1>2
  <2>2. \A k \in 1 .. n : s[k] = IF k = n THEN top ELSE activations[k]
    BY <1>1
  <2> HIDE DEF s
  <2>3. ASSUME NEW k \in 1 .. n PROVE s[k].map = activations[k].map
    <3>1. CASE k = n
      BY <1>2, <2>2, <3>1
    <3>2. CASE k # n
      BY <2>2, <3>2
    <3> QED BY <3>1, <3>2
  <2> QED BY <2>1, <2>3
<1>4. \A k \in 1 .. n : e[s[k].map] = k - 1
  BY <1>3 DEF AtTheirDepth
<1>5. CASE Pg!Level = 1
  <2>1. handler' = "advance" /\ activations' = s
    BY <1>5 DEF Pg!Into, top
  <2> QED BY <1>1, <1>3, <1>4, <2>1
<1>6. CASE Pg!Level # 1
  <2> DEFINE c == [map |-> child, index |-> 0]
  <2>1. handler' = handler /\ activations' = Append(s, c)
    BY <1>6 DEF Pg!Into, top
  <2>2. c \in Activation /\ c.map = child
    BY Shape DEF Activation
  <2> HIDE DEF s, c
  <2>3. /\ Append(s, c) \in Seq(Activation) /\ Len(Append(s, c)) = n + 1
        /\ \A k \in 1 .. n : Append(s, c)[k] = s[k]
        /\ Append(s, c)[n + 1] = c
    BY <1>3, <2>2
  <2>4. n + 1 \in 1 .. Levels
    BY <1>1, <1>6, Shape
  <2>5. ASSUME NEW k \in 1 .. n + 1 PROVE e[Append(s, c)[k].map] = k - 1
    <3>1. CASE k \in 1 .. n
      BY <1>4, <2>3, <3>1
    <3>2. CASE k = n + 1
      BY <1>1, <2>2, <2>3, <3>2
    <3>3. n \in Nat
      BY <1>1, Shape
    <3>4. \A m \in Nat : \A i \in 1 .. m + 1 : i \in 1 .. m \/ i = m + 1
      OBVIOUS
    <3>5. k \in 1 .. n \/ k = n + 1
      BY <3>3, <3>4
    <3> QED BY <3>1, <3>2, <3>5, Zenon
  <2> QED BY <2>1, <2>3, <2>4, <2>5
<1> QED BY <1>5, <1>6

\* What is left to show after a step of setupPageMap's loop.
LEMMA MappingStays ==
  ASSUME PagingInv, handler \in {"loop", "advance"}, handler' \in {"loop", "advance"},
         mem' \in [Pg!Frames -> [Pg!Index -> Entries]], used' \in 0 .. NumFrames,
         access' = access, addr' \in [1 .. Levels -> Pg!Index], req' = req, readonly' = readonly,
         activations' \in Seq(Activation), Len(activations') \in 1 .. Levels,
         NEW e, Tree(e)', AtTheirDepth(e)'
  PROVE  PagingInv'
<1>1. PagingTypes'
  BY Shape DEF PagingInv, PagingTypes
<1>2. Mapping'
  BY Shape DEF PagingInv, Mapping
<1>3. Handling'
  BY DEF Handling
<1> QED BY <1>1, <1>2, <1>3 DEF PagingInv

\* An entry that is present gets its flags again.
LEMMA UseEntryStep ==
  ASSUME PagingInv, Pg!UseEntry
  PROVE  PagingInv'
<1>1. PICK d : Tree(d) /\ AtTheirDepth(d)
  BY DEF PagingInv
<1>2. /\ handler = "loop" /\ Pg!Entry.p /\ Pg!Into(Pg!Entry.to)
      /\ mem' = [mem EXCEPT ![Pg!Top.map][addr[Pg!Level]] = Pg!EntryFor(Pg!Entry.to)]
      /\ used' = used /\ access' = access /\ addr' = addr /\ req' = req /\ readonly' = readonly
  BY DEF Pg!UseEntry
<1>3. PICK f \in Pg!Frames, i \in Pg!Index :
         /\ f = Pg!Top.map /\ i = addr[Pg!Level] /\ d[f] = Len(activations) - 1 /\ d[f] < Levels
         /\ Pg!Entry = mem[f][i] /\ mem[f][i] \in Entries
         /\ Len(activations) \in 1 .. Levels
  BY <1>1, <1>2, TopIs DEF Activation
<1>4. PICK new \in Entries : new = Pg!EntryFor(Pg!Entry.to)
  BY <1>2, <1>3 DEF Pg!EntryFor, Pg!Present, Entries, PagingInv, Mapping
<1>5. new.p /\ new.to = mem[f][i].to /\ (readonly \/ new.rw)
  BY <1>2, <1>3, <1>4 DEF Pg!EntryFor, Pg!Present, PagingInv, Mapping
<1>6. mem' = [mem EXCEPT ![f][i] = new] /\ mem \in [Pg!Frames -> [Pg!Index -> Entries]]
  BY <1>2, <1>3, <1>4 DEF PagingInv, PagingTypes
<1>7. mem' \in [Pg!Frames -> [Pg!Index -> Entries]]
  BY <1>6
<1>8. /\ \A g \in Pg!Frames, j \in Pg!Index :
           mem'[g][j] = IF g = f /\ j = i THEN new ELSE mem[g][j]
      /\ \A g \in Pg!Frames : g # f => mem'[g] = mem[g]
  BY <1>6
<1>9. \A g \in Pg!Frames, j \in Pg!Index :
        /\ mem'[g][j].p <=> mem[g][j].p
        /\ mem'[g][j].to = mem[g][j].to
  BY <1>2, <1>3, <1>5, <1>8
<1>10. Tree(d)'
  <2>1. /\ d \in [Pg!Frames -> 0 .. Levels + 1]
        /\ d[Pg!Root] = 0 /\ d[Pg!KernelMap] = 1
        /\ \A g \in Pg!Frames : d[g] <= Levels => g \in {Pg!Root, Pg!KernelMap} \cup 1 .. used'
    BY <1>1, <1>2 DEF Tree
  <2>2. \A g \in Pg!Frames, j \in Pg!Index :
          d[g] < Levels /\ mem'[g][j].p => d[mem'[g][j].to] = d[g] + 1
    BY <1>1, <1>9 DEF Tree
  <2>3. ASSUME NEW g \in Pg!Frames, NEW j \in Pg!Index, d[g] < Levels, mem'[g][j].p
        PROVE  readonly' \/ mem'[g][j].rw
    <3>1. CASE g = f /\ j = i
      BY <1>2, <1>5, <1>8, <3>1
    <3>2. CASE ~ (g = f /\ j = i)
      <4>1. mem'[g][j] = mem[g][j]
        BY <1>8, <3>2
      <4>2. mem[g][j].p
        BY <2>3, <4>1
      <4>3. readonly \/ mem[g][j].rw
        BY <1>1, <2>3, <4>2 DEF Tree
      <4> QED BY <1>2, <4>1, <4>3
    <3> QED BY <3>1, <3>2
  <2>4. \A g, h \in Pg!Frames, j, k \in Pg!Index :
          /\ d[g] < Levels /\ mem'[g][j].p
          /\ d[h] < Levels /\ mem'[h][k].p
          /\ mem'[g][j].to = mem'[h][k].to
          => g = h /\ j = k
    BY <1>1, <1>9 DEF Tree
  <2>5. ASSUME NEW g \in Pg!Frames, d[g] = Levels PROVE mem'[g] = Pg!Zero
    <3>1. mem[g] = Pg!Zero
      BY <1>1, <2>5 DEF Tree
    <3>2. g # f
      BY <1>3, <2>5, Shape
    <3> QED BY <1>8, <3>1, <3>2
  <2> QED BY <2>1, <2>2, <2>3, <2>4, <2>5 DEF Tree
<1>11. d[Pg!Entry.to] = Len(activations) /\ Pg!Entry.to \in Pg!Frames
  <2>1. d[Pg!Entry.to] = d[f] + 1
    BY <1>1, <1>2, <1>3 DEF Tree
  <2> QED BY <1>3, <2>1, Shape DEF Entries
<1>12. /\ activations' \in Seq(Activation) /\ Len(activations') \in 1 .. Levels
       /\ handler' \in {"loop", "advance"} /\ AtTheirDepth(d)'
  <2>1. /\ activations' \in Seq(Activation) /\ Len(activations') \in 1 .. Levels
        /\ handler' \in {"loop", "advance"}
        /\ \A k \in 1 .. Len(activations') : d[activations'[k].map] = k - 1
    BY <1>1, <1>2, <1>11, IntoStep
  <2> QED BY <2>1 DEF AtTheirDepth
<1>13. used' \in 0 .. NumFrames /\ addr' \in [1 .. Levels -> Pg!Index]
  BY <1>2 DEF PagingInv, PagingTypes
<1> QED BY <1>2, <1>7, <1>10, <1>12, <1>13, MappingStays

\* An entry that is not present gets a new frame, cleared.
LEMMA NewMapStep ==
  ASSUME PagingInv, Pg!setNewPageMapIfNotPresent
  PROVE  PagingInv'
<1>1. PICK d : Tree(d) /\ AtTheirDepth(d)
  BY DEF PagingInv
<1>2. /\ handler = "loop" /\ used < NumFrames /\ Pg!Into(Pg!NewFrame)
      /\ mem' = [[mem EXCEPT ![Pg!NewFrame] = Pg!Zero]
                   EXCEPT ![Pg!Top.map][addr[Pg!Level]] = Pg!EntryFor(Pg!NewFrame)]
      /\ used' = Pg!NewFrame
      /\ access' = access /\ addr' = addr /\ req' = req /\ readonly' = readonly
  BY DEF Pg!setNewPageMapIfNotPresent, Pg!newPageMap
<1>3. PICK f \in Pg!Frames, i \in Pg!Index :
         /\ f = Pg!Top.map /\ i = addr[Pg!Level] /\ d[f] = Len(activations) - 1 /\ d[f] < Levels
         /\ Len(activations) \in 1 .. Levels
  BY <1>1, <1>2, TopIs DEF Activation
<1>4. PICK n \in 1 .. NumFrames : n = Pg!NewFrame /\ n = used + 1
  BY <1>2, Shape DEF Pg!NewFrame, PagingInv, PagingTypes
<1>5. n \in Pg!Frames /\ n # Pg!Root /\ n # Pg!KernelMap /\ ~ (d[n] <= Levels) /\ f # n
  <2>1. n \in Pg!Frames /\ n # Pg!Root /\ n # Pg!KernelMap
    BY Shape
  <2>2. n \notin {Pg!Root, Pg!KernelMap} \cup 1 .. used
    BY <1>4, <2>1 DEF PagingInv, PagingTypes
  <2>3. ~ (d[n] <= Levels)
    BY <1>1, <2>1, <2>2 DEF Tree
  <2>4. d[f] <= Levels
    BY <1>3, Shape
  <2> QED BY <2>1, <2>3, <2>4
<1>6. PICK new \in Entries : new = Pg!EntryFor(n)
  BY <1>2, <1>5 DEF Pg!EntryFor, Pg!Present, Entries, PagingInv, Mapping
<1>7. new.p /\ new.to = n /\ (readonly \/ new.rw)
  BY <1>2, <1>6 DEF Pg!EntryFor, Pg!Present, PagingInv, Mapping
<1>8. Pg!Zero \in [Pg!Index -> Entries] /\ \A j \in Pg!Index : ~ Pg!Zero[j].p
  BY Shape DEF Pg!Zero, Pg!Absent, Entries
<1>9. PICK m1 : m1 = [mem EXCEPT ![n] = Pg!Zero]
  OBVIOUS
<1>10. /\ m1 \in [Pg!Frames -> [Pg!Index -> Entries]] /\ m1[n] = Pg!Zero
       /\ \A g \in Pg!Frames : g # n => m1[g] = mem[g]
  BY <1>5, <1>8, <1>9 DEF PagingInv, PagingTypes
<1>11. mem' = [m1 EXCEPT ![f][i] = new]
  BY <1>2, <1>3, <1>4, <1>6, <1>9
<1>12. mem' \in [Pg!Frames -> [Pg!Index -> Entries]]
  BY <1>10, <1>11
<1>13. /\ \A g \in Pg!Frames, j \in Pg!Index :
            mem'[g][j] = IF g = f /\ j = i THEN new ELSE m1[g][j]
       /\ \A g \in Pg!Frames : g # f => mem'[g] = m1[g]
  BY <1>10, <1>11
<1>14. \A g \in Pg!Frames, j \in Pg!Index : g # n /\ ~ (g = f /\ j = i) => mem'[g][j] = mem[g][j]
  BY <1>10, <1>13
<1>15. mem'[n] = Pg!Zero /\ mem'[f][i] = new
  BY <1>5, <1>10, <1>13
<1>16. PICK e : e = [d EXCEPT ![n] = Len(activations)]
  OBVIOUS
<1>17. /\ e \in [Pg!Frames -> 0 .. Levels + 1] /\ e[n] = Len(activations) /\ e[f] = d[f]
       /\ \A g \in Pg!Frames : g # n => e[g] = d[g]
  <2>1. d \in [Pg!Frames -> 0 .. Levels + 1] /\ Len(activations) \in 0 .. Levels + 1
    BY <1>1, <1>3, Shape DEF Tree
  <2> QED BY <1>5, <1>16, <2>1
\* The present entries of the maps: those there were, and the new one.
<1>18. ASSUME NEW g \in Pg!Frames, NEW j \in Pg!Index, e[g] < Levels, mem'[g][j].p
       PROVE  /\ g # n /\ d[g] < Levels
              /\ ~ (g = f /\ j = i) => mem'[g][j] = mem[g][j] /\ mem[g][j].p
              /\ ~ (g = f /\ j = i) => mem[g][j].to \in Pg!Frames /\ mem[g][j].to # n
                                       /\ d[mem[g][j].to] = d[g] + 1
  <2>1. g # n
    BY <1>8, <1>15, <1>18
  <2>2. d[g] < Levels
    BY <1>17, <1>18, <2>1
  <2>3. ASSUME ~ (g = f /\ j = i)
        PROVE  /\ mem'[g][j] = mem[g][j] /\ mem[g][j].p
               /\ mem[g][j].to \in Pg!Frames /\ mem[g][j].to # n /\ d[mem[g][j].to] = d[g] + 1
    <3>1. mem'[g][j] = mem[g][j]
      BY <1>14, <2>1, <2>3
    <3>2. mem[g][j].p
      BY <1>18, <3>1
    <3>3. mem[g][j].to \in Pg!Frames
      BY DEF PagingInv, PagingTypes, Entries
    <3>4. d[mem[g][j].to] = d[g] + 1 /\ d[g] \in 0 .. Levels + 1
      BY <1>1, <2>2, <3>2 DEF Tree
    <3>5. d[mem[g][j].to] <= Levels
      BY <2>2, <3>4, Shape
    <3> QED BY <1>5, <3>1, <3>2, <3>3, <3>4, <3>5
  <2> QED BY <2>1, <2>2, <2>3
<1>19. Tree(e)'
  <2>1. /\ e[Pg!Root] = 0 /\ e[Pg!KernelMap] = 1
    BY <1>1, <1>5, <1>17, Shape DEF Tree
  <2>2. \A g \in Pg!Frames : e[g] <= Levels => g \in {Pg!Root, Pg!KernelMap} \cup 1 .. used'
    <3> SUFFICES ASSUME NEW g \in Pg!Frames, e[g] <= Levels
                 PROVE  g \in {Pg!Root, Pg!KernelMap} \cup 1 .. used'
      OBVIOUS
    <3>1. CASE g = n
      BY <1>2, <1>4, <3>1
    <3>2. CASE g # n
      <4>1. g \in {Pg!Root, Pg!KernelMap} \cup 1 .. used
        BY <1>1, <1>17, <3>2 DEF Tree
      <4>2. used \in Nat /\ used' = used + 1
        BY <1>2, <1>4, Shape DEF PagingInv, PagingTypes
      <4> QED BY <4>1, <4>2
    <3> QED BY <3>1, <3>2
  <2>3. ASSUME NEW g \in Pg!Frames, NEW j \in Pg!Index, e[g] < Levels, mem'[g][j].p
        PROVE  e[mem'[g][j].to] = e[g] + 1
    <3>1. CASE g = f /\ j = i
      <4>1. mem'[g][j].to = n /\ e[g] = Len(activations) - 1
        BY <1>3, <1>7, <1>15, <1>17, <3>1
      <4> QED BY <1>3, <1>17, <4>1, Shape
    <3>2. CASE ~ (g = f /\ j = i)
      BY <1>17, <1>18, <2>3, <3>2
    <3> QED BY <3>1, <3>2
  <2>4. ASSUME NEW g \in Pg!Frames, NEW j \in Pg!Index, e[g] < Levels, mem'[g][j].p
        PROVE  readonly' \/ mem'[g][j].rw
    <3>1. CASE g = f /\ j = i
      BY <1>2, <1>7, <1>15, <3>1
    <3>2. CASE ~ (g = f /\ j = i)
      <4>1. d[g] < Levels /\ mem'[g][j] = mem[g][j] /\ mem[g][j].p
        BY <1>18, <2>4, <3>2
      <4>2. readonly \/ mem[g][j].rw
        BY <1>1, <4>1 DEF Tree
      <4> QED BY <1>2, <4>1, <4>2
    <3> QED BY <3>1, <3>2
  <2>5. ASSUME NEW g \in Pg!Frames, NEW h \in Pg!Frames, NEW j \in Pg!Index, NEW k \in Pg!Index,
               e[g] < Levels, mem'[g][j].p, e[h] < Levels, mem'[h][k].p,
               mem'[g][j].to = mem'[h][k].to
        PROVE  g = h /\ j = k
    <3>1. CASE (g = f /\ j = i) /\ ~ (h = f /\ k = i)
      <4>1. mem'[g][j].to = n
        BY <1>7, <1>15, <3>1
      <4>2. mem'[h][k].to # n
        BY <1>18, <2>5, <3>1
      <4> QED BY <2>5, <4>1, <4>2
    <3>2. CASE ~ (g = f /\ j = i) /\ (h = f /\ k = i)
      <4>1. mem'[h][k].to = n
        BY <1>7, <1>15, <3>2
      <4>2. mem'[g][j].to # n
        BY <1>18, <2>5, <3>2
      <4> QED BY <2>5, <4>1, <4>2
    <3>3. CASE ~ (g = f /\ j = i) /\ ~ (h = f /\ k = i)
      <4>1. d[g] < Levels /\ mem'[g][j] = mem[g][j] /\ mem[g][j].p
        BY <1>18, <2>5, <3>3
      <4>2. d[h] < Levels /\ mem'[h][k] = mem[h][k] /\ mem[h][k].p
        BY <1>18, <2>5, <3>3
      <4> QED BY <1>1, <2>5, <4>1, <4>2 DEF Tree
    <3> QED BY <3>1, <3>2, <3>3
  <2>6. ASSUME NEW g \in Pg!Frames, e[g] = Levels PROVE mem'[g] = Pg!Zero
    <3>1. CASE g = n
      BY <1>15, <3>1
    <3>2. CASE g # n
      <4>1. d[g] = Levels /\ g # f
        BY <1>3, <1>17, <2>6, <3>2, Shape
      <4>2. mem'[g] = mem[g]
        BY <1>10, <1>13, <3>2, <4>1
      <4> QED BY <1>1, <4>1, <4>2 DEF Tree
    <3> QED BY <3>1, <3>2
  <2> QED BY <1>17, <2>1, <2>2, <2>3, <2>4, <2>5, <2>6 DEF Tree
<1>20. AtTheirDepth(e)
  <2> SUFFICES ASSUME NEW k \in 1 .. Len(activations) PROVE e[activations[k].map] = k - 1
    BY DEF AtTheirDepth
  <2>1. d[activations[k].map] = k - 1 /\ activations[k].map \in Pg!Frames
    <3>1. activations[k] \in Activation
      BY DEF PagingInv, PagingTypes
    <3>2. activations[k].map \in Pg!Frames
      BY <3>1 DEF Activation
    <3> QED BY <1>1, <3>2 DEF AtTheirDepth
  <2>2. k - 1 <= Levels
    BY <1>3, Shape
  <2> QED BY <1>5, <1>17, <2>1, <2>2
<1>21. /\ activations' \in Seq(Activation) /\ Len(activations') \in 1 .. Levels
       /\ handler' \in {"loop", "advance"} /\ AtTheirDepth(e)'
  <2>1. n \in Pg!Frames /\ e[n] = Len(activations) /\ Pg!Into(n)
    BY <1>2, <1>4, <1>5, <1>17
  <2>2. /\ activations' \in Seq(Activation) /\ Len(activations') \in 1 .. Levels
        /\ handler' \in {"loop", "advance"}
        /\ \A k \in 1 .. Len(activations') : e[activations'[k].map] = k - 1
    <3>1. PagingInv /\ handler = "loop" /\ Tree(d) /\ AtTheirDepth(d)
      BY <1>1, <1>2
    <3> QED BY ONLY <1>20, <2>1, <3>1, IntoStep
  <2> QED BY <2>2 DEF AtTheirDepth
<1>22. used' \in 0 .. NumFrames /\ addr' \in [1 .. Levels -> Pg!Index]
  BY <1>2, <1>4, Shape DEF PagingInv, PagingTypes
<1> QED BY <1>2, <1>12, <1>19, <1>21, <1>22, MappingStays

\* setupPageMaps begins with the PML4 and returns without a trace; in between,
\* an activation ends or goes on with the next entry.
LEMMA SetupStep ==
  ASSUME PagingInv, NEW r, r.first \in Nat, r.rw \in BOOLEAN, Pg!setupPageMaps(r)
  PROVE  PagingInv'
<1>1. PICK d : Tree(d) /\ AtTheirDepth(d)
  BY DEF PagingInv
<1>2. /\ req' = r /\ readonly' = (readonly \/ ~ r.rw) /\ addr' = Pg!parts(r.first)
      /\ activations' = <<[map |-> Pg!Root, index |-> 0]>> /\ handler' = "loop"
      /\ mem' = mem /\ used' = used /\ access' = access
  BY DEF Pg!setupPageMaps
<1>0. (readonly => readonly') /\ (readonly' \/ r.rw)
  <2>1. readonly' = (readonly \/ ~ r.rw)
    BY <1>2
  <2> QED BY ONLY <2>1, Zenon
<1>3. /\ activations' \in Seq(Activation) /\ Len(activations') = 1 /\ activations'[1].map = Pg!Root
  BY <1>2, Shape DEF Activation
<1>4. PagingTypes'
  <2>1. addr' \in [1 .. Levels -> Pg!Index]
    BY <1>2, PartIs DEF Pg!parts
  <2> QED BY <1>2, <1>3, <2>1, Shape DEF PagingInv, PagingTypes
<1>5. Mapping' /\ Handling'
  <2>1. Len(activations') >= 1 /\ req'.rw \in BOOLEAN
    BY <1>2, <1>3
  <2>2. readonly' \/ req'.rw
    BY <1>0, <1>2, Zenon
  <2> QED BY <1>2, <2>1, <2>2, Zenon DEF Mapping, Handling
<1>6. Tree(d)' /\ AtTheirDepth(d)'
  <2>1. Tree(d)'
    <3>1. \A f \in Pg!Frames, i \in Pg!Index :
            d[f] < Levels /\ mem'[f][i].p => readonly' \/ mem'[f][i].rw
      <4>1. \A f \in Pg!Frames, i \in Pg!Index :
              d[f] < Levels /\ mem[f][i].p => readonly \/ mem[f][i].rw
        BY <1>1 DEF Tree
      <4>2. mem' = mem
        BY <1>2
      <4> QED BY ONLY <1>0, <4>1, <4>2, Zenon
    <3>2. mem' = mem /\ used' = used
      BY <1>2
    <3>3. Tree(d)
      BY <1>1
    <3> QED BY ONLY <3>1, <3>2, <3>3 DEF Tree
  <2>2. d[Pg!Root] = 0
    BY <1>1 DEF Tree
  <2> QED BY <1>3, <2>1, <2>2 DEF AtTheirDepth
<1> QED BY <1>4, <1>5, <1>6 DEF PagingInv

\* setupPageMap returns to do_page_fault, and the access is tried again.
LEMMA LeaveStep ==
  ASSUME PagingInv, Pg!Leave
  PROVE  PagingInv'
<1>1. PICK d : Tree(d) /\ AtTheirDepth(d)
  BY DEF PagingInv
<1>2. /\ addr' = Pg!parts(0) /\ activations' = <<>> /\ handler' = "run"
      /\ mem' = mem /\ used' = used /\ access' = access /\ readonly' = readonly
  BY DEF Pg!Leave
<1>3. activations' \in Seq(Activation) /\ Len(activations') = 0
  BY <1>2
<1>4. PagingTypes'
  <2>1. addr' \in [1 .. Levels -> Pg!Index]
    BY <1>2, PartIs DEF Pg!parts
  <2> QED BY <1>2, <1>3, <2>1, Shape DEF PagingInv, PagingTypes
<1>5. Mapping' /\ Handling'
  BY <1>2 DEF Mapping, Handling
<1>6. Tree(d)' /\ AtTheirDepth(d)'
  <2>1. Tree(d)'
    BY <1>1, <1>2 DEF Tree
  <2> QED BY <1>3, <2>1 DEF AtTheirDepth
<1> QED BY <1>4, <1>5, <1>6 DEF PagingInv

\* An activation of setupPageMap returns to the one that called it.
LEMMA ReturnStep ==
  ASSUME PagingInv, handler \in {"loop", "advance"}, Pg!Return
  PROVE  PagingInv'
<1>1. CASE Pg!Leave
  BY <1>1, LeaveStep
<1>2. CASE /\ Len(activations) > 1 /\ activations' = SubSeq(activations, 1, Len(activations) - 1)
           /\ handler' = "advance" /\ mem' = mem /\ used' = used /\ access' = access
           /\ addr' = addr /\ req' = req /\ readonly' = readonly
  <2>1. PICK d : Tree(d) /\ AtTheirDepth(d)
    BY DEF PagingInv
  <2>2. PICK n \in Nat : n = Len(activations)
    BY DEF PagingInv, PagingTypes
  <2>3. activations \in Seq(Activation) /\ n > 1 /\ n <= Levels
    BY <1>2, <2>2 DEF PagingInv, PagingTypes
  <2>4. /\ activations' \in Seq(Activation) /\ Len(activations') = n - 1
        /\ \A k \in 1 .. n - 1 : activations'[k] = activations[k]
    BY <1>2, <2>2, <2>3
  <2>5. AtTheirDepth(d)'
    <3>1. \A k \in 1 .. n : d[activations[k].map] = k - 1
      BY <2>1, <2>2 DEF AtTheirDepth
    <3>2. \A k \in 1 .. n - 1 : d[activations'[k].map] = k - 1
      <4>1. \A k \in 1 .. n - 1 : k \in 1 .. n
        BY <2>3
      <4> QED BY ONLY <2>4, <3>1, <4>1, Zenon
    <3> QED BY <2>4, <3>2 DEF AtTheirDepth
  <2>6. Tree(d)'
    BY <1>2, <2>1 DEF Tree
  <2>7. /\ Len(activations') \in 1 .. Levels
    BY <2>3, <2>4, Shape
  <2>8. /\ mem' \in [Pg!Frames -> [Pg!Index -> Entries]] /\ used' \in 0 .. NumFrames
        /\ addr' \in [1 .. Levels -> Pg!Index]
    BY <1>2 DEF PagingInv, PagingTypes
  <2> QED BY <1>2, <2>4, <2>5, <2>6, <2>7, <2>8, MappingStays
<1> QED BY <1>1, <1>2 DEF Pg!Return

\* The loop goes on with the entry after the one just done.
LEMMA AdvanceStep ==
  ASSUME PagingInv, Pg!Advance
  PROVE  PagingInv'
<1>1. handler = "advance"
  BY DEF Pg!Advance
<1>2. CASE Pg!AtEnd
  BY <1>1, <1>2, ReturnStep DEF Pg!Advance
<1>3. CASE ~ Pg!AtEnd
  <2>1. PICK d : Tree(d) /\ AtTheirDepth(d)
    BY DEF PagingInv
  <2>2. /\ addr' = Pg!NextPart /\ handler' = "loop" /\ mem' = mem /\ used' = used
        /\ access' = access /\ activations' = activations /\ req' = req /\ readonly' = readonly
    BY <1>3 DEF Pg!Advance
  <2>3. Pg!Top \in Activation /\ Len(activations) \in 1 .. Levels
    BY <1>1, <2>1, TopIs
  <2>4. Pg!Top.index + 1 \in Pg!Index /\ 0 \in Pg!Index
    BY <1>3, <2>3, Shape DEF Pg!AtEnd, Activation
  <2>5. addr' \in [1 .. Levels -> Pg!Index]
    BY <2>2, <2>4 DEF Pg!NextPart, PagingInv, PagingTypes
  <2>6. Tree(d)' /\ AtTheirDepth(d)'
    BY <2>1, <2>2 DEF Tree, AtTheirDepth
  <2>7. /\ mem' \in [Pg!Frames -> [Pg!Index -> Entries]] /\ used' \in 0 .. NumFrames
        /\ activations' \in Seq(Activation) /\ Len(activations') \in 1 .. Levels
    BY <2>2, <2>3 DEF PagingInv, PagingTypes
  <2> QED BY <1>1, <2>2, <2>5, <2>6, <2>7, MappingStays
<1> QED BY <1>2, <1>3

\* The steps that leave the page maps and setupPageMap alone.
LEMMA OtherPagingStep ==
  ASSUME PagingInv, mem' = mem, addr' = addr, activations' = activations, req' = req,
         readonly' = readonly, used' \in used .. NumFrames, access'.page \in Nat,
         handler' \in {"loop", "advance"} => handler' = handler, Handling'
  PROVE  PagingInv'
<1>1. PICK d : Tree(d) /\ AtTheirDepth(d)
  BY DEF PagingInv
<1>2. used \in 0 .. NumFrames
  BY DEF PagingInv, PagingTypes
<1>3. PagingTypes'
  BY <1>2, Shape DEF PagingInv, PagingTypes
<1>4. Mapping'
  BY DEF PagingInv, Mapping
<1>5. Tree(d)'
  <2>1. \A f \in Pg!Frames : d[f] <= Levels => f \in {Pg!Root, Pg!KernelMap} \cup 1 .. used'
    <3>1. 1 .. used \subseteq 1 .. used'
      BY <1>2, Shape
    <3> QED BY <1>1, <3>1 DEF Tree
  <2> QED BY <1>1, <2>1 DEF Tree
<1>6. AtTheirDepth(d)'
  BY <1>1 DEF AtTheirDepth
<1> QED BY <1>3, <1>4, <1>5, <1>6 DEF PagingInv

\* Whether an access is allowed depends on the page maps and the access only.
WalkIn(m, page) ==
  LET walk[k \in 0 .. Levels] ==
        IF k = 0 THEN [ok |-> TRUE, rw |-> TRUE, frame |-> Pg!Root]
        ELSE LET w == walk[k - 1]
                 e == m[w.frame][Pg!part(page, Levels + 1 - k)]
             IN  IF w.ok /\ e.p THEN [ok |-> TRUE, rw |-> w.rw /\ e.rw, frame |-> e.to]
                 ELSE [w EXCEPT !.ok = FALSE]
  IN  walk[Levels]
AllowedIn(m, a) == WalkIn(m, a.page).ok /\ (a.write => WalkIn(m, a.page).rw)

\* Whether an access goes through depends on the maps and the access only.
LEMMA AllowedStays == mem' = mem /\ access' = access => (Pg!Allowed' <=> Pg!Allowed)
<1>1. Pg!Allowed <=> AllowedIn(mem, access)
  BY Zenon DEF Pg!Allowed, Pg!Walk, AllowedIn, WalkIn
<1>2. Pg!Allowed' <=> AllowedIn(mem', access')
  BY Zenon DEF Pg!Allowed, Pg!Walk, AllowedIn, WalkIn
<1> QED BY <1>1, <1>2

\* The accesses and the requests the kernel makes.
LEMMA PagesAre ==
  /\ Pg!NumPages \in Nat
  /\ \A a \in Accesses : a.page \in Nat
  /\ \A r \in Requests : r.first \in Nat /\ r.rw \in BOOLEAN
<1>1. Pg!NumPages \in Nat
  <2>1. Levels \in 0 .. Levels
    BY Shape
  <2> QED BY <2>1, SpanIs DEF Pg!NumPages
<1> QED BY <1>1, PagingUse DEF Pg!UseAssumption

\* The maps at the start: the PML4 with the loader's half, nothing else.
LEMMA PagingInit == Pg!Init => PagingInv
<1> SUFFICES ASSUME Pg!Init PROVE PagingInv
  OBVIOUS
<1>1. /\ mem = [f \in Pg!Frames |->
                  IF f = Pg!Root THEN [Pg!Zero EXCEPT ![Fan - 1] = Pg!Present(Pg!KernelMap, TRUE)]
                  ELSE IF f = Pg!KernelMap THEN Pg!Zero ELSE Pg!Junk]
      /\ used = 0 /\ handler = "run" /\ access = Pg!NoAccess
      /\ addr = Pg!parts(0) /\ activations = <<>>
  BY DEF Pg!Init
<1>2. PICK root : root = [Pg!Zero EXCEPT ![Fan - 1] = Pg!Present(Pg!KernelMap, TRUE)]
  OBVIOUS
<1>3. /\ Pg!Zero \in [Pg!Index -> Entries] /\ Pg!Junk \in [Pg!Index -> Entries]
      /\ \A i \in Pg!Index : ~ Pg!Zero[i].p
  BY Shape DEF Pg!Zero, Pg!Junk, Pg!Absent, Pg!Present, Entries
<1>4. PICK k \in Entries : k = Pg!Present(Pg!KernelMap, TRUE) /\ k.to = Pg!KernelMap /\ k.rw
  <2>1. PICK e : e = Pg!Present(Pg!KernelMap, TRUE)
    OBVIOUS
  <2>2. e = [p |-> TRUE, to |-> Pg!KernelMap, rw |-> TRUE] /\ Pg!KernelMap \in Pg!Frames
    BY <2>1, Shape DEF Pg!Present
  <2>3. e \in Entries /\ e.to = Pg!KernelMap /\ e.rw
    BY ONLY <2>2 DEF Entries
  <2> QED BY <2>1, <2>3
<1>5. /\ root \in [Pg!Index -> Entries]
      /\ \A i \in Pg!Index : root[i] = IF i = Fan - 1 THEN k ELSE Pg!Zero[i]
  BY <1>2, <1>3, <1>4, Shape
<1>6. /\ mem \in [Pg!Frames -> [Pg!Index -> Entries]]
      /\ mem[Pg!Root] = root /\ mem[Pg!KernelMap] = Pg!Zero
  <2>1. mem = [f \in Pg!Frames |-> IF f = Pg!Root THEN root
                                   ELSE IF f = Pg!KernelMap THEN Pg!Zero ELSE Pg!Junk]
    BY <1>1, <1>2
  <2>2. Pg!KernelMap # Pg!Root /\ Pg!Root \in Pg!Frames /\ Pg!KernelMap \in Pg!Frames
    BY Shape
  <2> QED BY ONLY <1>3, <1>5, <2>1, <2>2
<1>7. PagingTypes
  <2>1. addr \in [1 .. Levels -> Pg!Index]
    BY <1>1, PartIs DEF Pg!parts
  <2>2. activations \in Seq(Activation) /\ Len(activations) <= Levels
    BY <1>1, Shape
  <2>3. access.page \in Nat /\ used \in 0 .. NumFrames
    BY <1>1, Shape DEF Pg!NoAccess
  <2> QED BY <1>6, <2>1, <2>2, <2>3 DEF PagingTypes
<1>8. Mapping /\ Handling
  BY <1>1 DEF Mapping, Handling
<1> DEFINE d == [f \in Pg!Frames |-> IF f = Pg!Root THEN 0
                                     ELSE IF f = Pg!KernelMap THEN 1 ELSE Levels + 1]
<1>9. /\ d \in [Pg!Frames -> 0 .. Levels + 1] /\ d[Pg!Root] = 0 /\ d[Pg!KernelMap] = 1
      /\ \A f \in Pg!Frames : d[f] <= Levels => f \in {Pg!Root, Pg!KernelMap}
  BY Shape
<1> HIDE DEF d
<1>10. ASSUME NEW f \in Pg!Frames, NEW i \in Pg!Index, d[f] < Levels, mem[f][i].p
       PROVE  f = Pg!Root /\ i = Fan - 1 /\ mem[f][i] = k
  <2>1. f \in {Pg!Root, Pg!KernelMap}
    BY <1>9, <1>10, Shape
  <2>2. f = Pg!Root
    BY <1>3, <1>6, <1>10, <2>1
  <2>3. i = Fan - 1 /\ root[i] = k
    BY <1>3, <1>5, <1>6, <1>10, <2>2
  <2> QED BY <1>6, <2>2, <2>3
<1>11. Tree(d)
  <2>1. \A f \in Pg!Frames : d[f] <= Levels => f \in {Pg!Root, Pg!KernelMap} \cup 1 .. used
    BY <1>9
  <2>2. \A f \in Pg!Frames, i \in Pg!Index :
          d[f] < Levels /\ mem[f][i].p => d[mem[f][i].to] = d[f] + 1
    <3> SUFFICES ASSUME NEW f \in Pg!Frames, NEW i \in Pg!Index, d[f] < Levels, mem[f][i].p
                 PROVE  d[mem[f][i].to] = d[f] + 1
      OBVIOUS
    <3>1. d[f] = 0 /\ mem[f][i].to = Pg!KernelMap
      BY <1>4, <1>9, <1>10
    <3> QED BY <1>9, <3>1
  <2>3. \A f \in Pg!Frames, i \in Pg!Index :
          d[f] < Levels /\ mem[f][i].p => readonly \/ mem[f][i].rw
    BY <1>4, <1>10
  <2>4. \A f, g \in Pg!Frames, i, j \in Pg!Index :
          /\ d[f] < Levels /\ mem[f][i].p
          /\ d[g] < Levels /\ mem[g][j].p
          /\ mem[f][i].to = mem[g][j].to
          => f = g /\ i = j
    BY <1>10
  <2>5. \A f \in Pg!Frames : d[f] # Levels
    BY <1>9, Shape
  <2> QED BY <1>9, <2>1, <2>2, <2>3, <2>4, <2>5 DEF Tree
<1>12. AtTheirDepth(d)
  BY <1>1 DEF AtTheirDepth
<1> QED BY <1>7, <1>8, <1>11, <1>12 DEF PagingInv

\* Every step keeps PagingInv.
LEMMA PagingNext == PagingInv /\ [Pg!Next]_Pg!vars => PagingInv'
<1> SUFFICES ASSUME PagingInv, [Pg!Next]_Pg!vars PROVE PagingInv'
  OBVIOUS
<1>0. used \in 0 .. NumFrames /\ used \in used .. NumFrames /\ access.page \in Nat /\ Handling
  BY Shape DEF PagingInv, PagingTypes
<1>1. CASE Pg!UseEntry
  BY <1>1, UseEntryStep
<1>2. CASE Pg!setNewPageMapIfNotPresent
  BY <1>2, NewMapStep
<1>3. CASE Pg!AllocFails
  BY <1>3, LeaveStep DEF Pg!AllocFails
<1>4. CASE Pg!LoopEnds
  BY <1>4, ReturnStep DEF Pg!LoopEnds
<1>5. CASE Pg!Advance
  BY <1>5, AdvanceStep
<1>6. CASE Pg!PageFault
  <2>1. /\ handler' = "fault" /\ ~ Pg!Allowed /\ mem' = mem /\ used' = used /\ access' = access
        /\ addr' = addr /\ activations' = activations /\ req' = req /\ readonly' = readonly
    BY <1>6 DEF Pg!PageFault
  <2>2. ~ Pg!Allowed'
    BY <2>1, AllowedStays
  <2>3. Handling'
    BY <2>1, <2>2 DEF Handling
  <2> QED BY <1>0, <2>1, <2>3, OtherPagingStep
<1>7. CASE Pg!do_page_fault
  <2>1. CASE /\ Pg!Walk(access.page).ok /\ handler = "fault" /\ handler' = "halt"
             /\ mem' = mem /\ used' = used /\ access' = access
             /\ addr' = addr /\ activations' = activations /\ req' = req /\ readonly' = readonly
    <3>1. PICK d : Tree(d) /\ AtTheirDepth(d)
      BY DEF PagingInv
    <3>2. readonly \/ Pg!Walk(access.page).rw
      BY <1>0, <2>1, <3>1, WalkEnds DEF PagingInv, PagingTypes
    <3>3. ~ Pg!Allowed
      BY <1>0, <2>1 DEF Handling
    <3>4. readonly
      BY <2>1, <3>2, <3>3 DEF Pg!Allowed
    <3>5. Handling'
      BY <2>1, <3>4 DEF Handling
    <3> QED BY <1>0, <2>1, <3>5, OtherPagingStep
  <2>2. CASE Pg!setupPageMaps([first |-> access.page, n |-> 1, rw |-> TRUE])
    <3>1. PICK r : r = [first |-> access.page, n |-> 1, rw |-> TRUE]
      OBVIOUS
    <3>2. r.first \in Nat /\ r.rw \in BOOLEAN /\ Pg!setupPageMaps(r)
      BY <1>0, <2>2, <3>1
    <3> QED BY <3>2, SetupStep
  <2>3. CASE /\ handler' = "run" /\ mem' = mem /\ used' = used /\ access' = access
             /\ addr' = addr /\ activations' = activations /\ req' = req /\ readonly' = readonly
    <3>1. Handling'
      BY <2>3 DEF Handling
    <3> QED BY <1>0, <2>3, <3>1, OtherPagingStep
  <2> QED BY <1>7, <2>1, <2>2, <2>3 DEF Pg!do_page_fault
<1>8. CASE Pg!Succeed
  <2>1. /\ handler' = "run" /\ mem' = mem /\ used' = used /\ access' = access
        /\ addr' = addr /\ activations' = activations /\ req' = req /\ readonly' = readonly
    BY <1>8 DEF Pg!Succeed
  <2>2. Handling'
    BY <2>1 DEF Handling
  <2> QED BY <1>0, <2>1, <2>2, OtherPagingStep
<1>9. CASE Pg!Touch
  <2>1. /\ handler' = "run" /\ mem' = mem /\ used' = used /\ access' \in Accesses
        /\ addr' = addr /\ activations' = activations /\ req' = req /\ readonly' = readonly
    BY <1>9 DEF Pg!Touch
  <2>2. Handling' /\ access'.page \in Nat
    BY <2>1, PagesAre DEF Handling
  <2> QED BY <1>0, <2>1, <2>2, OtherPagingStep
<1>10. CASE Pg!OtherAlloc
  <2>1. /\ handler' = "run" /\ mem' = mem /\ used' = used + 1 /\ used < NumFrames /\ access' = access
        /\ addr' = addr /\ activations' = activations /\ req' = req /\ readonly' = readonly
    BY <1>10 DEF Pg!OtherAlloc
  <2>2. Handling' /\ used' \in used .. NumFrames
    BY <1>0, <2>1, Shape DEF Handling
  <2> QED BY <1>0, <2>1, <2>2, OtherPagingStep
<1>11. CASE Pg!Call
  <2>1. PICK r \in Requests : Pg!setupPageMaps(r)
    BY <1>11 DEF Pg!Call
  <2> QED BY <2>1, PagesAre, SetupStep
<1>12. CASE Pg!Spin \/ UNCHANGED Pg!vars
  <2>1. /\ handler' = handler /\ mem' = mem /\ used' = used /\ access' = access
        /\ addr' = addr /\ activations' = activations /\ req' = req /\ readonly' = readonly
    BY <1>12 DEF Pg!Spin, Pg!vars
  <2>2. Handling'
    BY <1>0, <2>1, AllowedStays DEF Handling
  <2> QED BY <1>0, <2>1, <2>2, OtherPagingStep
<1> QED BY <1>1, <1>2, <1>3, <1>4, <1>5, <1>6, <1>7, <1>8, <1>9, <1>10, <1>11, <1>12
        DEF Pg!Next, Pg!KernelStep, Pg!setupPageMap

\* setupPageMap keeps the page maps a tree of frames that alloc_mem has handed
\* out, the pages it maps are zero, and do_page_fault never halts on a mapping of
\* its own; for page maps of any size and depth, any memory and any requests.
THEOREM PageMapsHold == Pg!Spec => []PageMapsSound
<1>1. PagingInv => PageMapsSound
  <2> SUFFICES ASSUME PagingInv PROVE PageMapsSound
    OBVIOUS
  <2>1. PICK d : Tree(d)
    BY DEF PagingInv
  <2>2. mem \in [Pg!Frames -> [Pg!Index -> Entries]] /\ used \in 0 .. NumFrames
    BY DEF PagingInv, PagingTypes
  <2>3. Pg!TablesFormTree /\ Pg!FreshPagesZero
    BY <2>1, <2>2, TreeFormed, FreshZero
  <2>4. Pg!HaltsOnlyReadonly
    BY DEF PagingInv, Handling, Pg!HaltsOnlyReadonly
  <2> QED BY <2>3, <2>4 DEF PageMapsSound, Pg!PageMapsSound
<1> QED BY <1>1, PagingInit, PagingNext, PTL DEF Pg!Spec


----------------------------------------------------------------------------
(* vsprintf.                                                               *)

\* A format and what is read of it.
LEMMA FormatIs ==
  ASSUME fmt \in Formats, pos \in 1 .. Len(fmt) + 1
  PROVE  /\ fmt \in Seq(STRING) /\ Len(fmt) \in Nat
         /\ Fmt!Cur = "NUL" <=> pos = Len(fmt) + 1
         /\ pos <= Len(fmt) => Fmt!Cur = fmt[pos]
<1>1. fmt \in Seq(STRING) /\ \A i \in DOMAIN fmt : fmt[i] # "NUL"
  BY PrintfArguments DEF Fmt!ArgumentsAssumption, Fmt!NUL
<1>2. Len(fmt) \in Nat /\ DOMAIN fmt = 1 .. Len(fmt)
  BY <1>1
<1>3. Fmt!Cur = IF pos <= Len(fmt) THEN fmt[pos] ELSE "NUL"
  BY DEF Fmt!Cur, Fmt!NUL
<1>4. CASE pos <= Len(fmt)
  <2>1. pos \in DOMAIN fmt
    BY <1>2, <1>4
  <2> QED BY <1>1, <1>2, <1>3, <1>4, <2>1
<1>5. CASE ~ (pos <= Len(fmt))
  BY <1>1, <1>2, <1>3, <1>5
<1> QED BY <1>4, <1>5

\* skip_atoi stops at the end of the format at the latest.
LEMMA DigitsEndInside ==
  ASSUME fmt \in Seq(STRING), NEW p \in 1 .. Len(fmt) + 1
  PROVE  Fmt!DigitsEnd(p) \in p .. Len(fmt) + 1
<1> DEFINE S == {i \in p .. Len(fmt) + 1 : i > Len(fmt) \/ ~ Fmt!is_digit(fmt[i])}
<1>1. Len(fmt) \in Nat
  OBVIOUS
<1>2. S \subseteq Nat /\ Len(fmt) + 1 \in S
  BY <1>1
<1>3. Fmt!DigitsEnd(p) = CHOOSE n \in S : \A k \in S : n <= k
  BY DEF Fmt!DigitsEnd, Fmt!Min
<1>4. \E n \in S : \A k \in S : n <= k
  <2> HIDE DEF S
  <2> QED BY <1>2, Least
<1>5. Fmt!DigitsEnd(p) \in S
  <2> HIDE DEF S
  <2> QED BY <1>3, <1>4
<1> QED BY <1>5

\* Where the scanner is with a format of one character.
OneKey ==
  Len(fmt) = 1 =>
    \/ scanner = "scan" /\ pos = 1 /\ out = <<>>
    \/ scanner \in {"scan", "done"} /\ pos = 2 /\ out = fmt
    \/ /\ scanner \in {"flags", "width", "precision", "qualifier", "convert"}
       /\ pos = 2 /\ out = <<>> /\ fmt = <<"%">>

FormatInv == fmt \in Formats /\ pos \in 1 .. Len(fmt) + 1 /\ OneKey

\* A part of a conversion that keeps what a one-character format has come to.
LEMMA NextPart ==
  ASSUME FormatInv, scanner \in {"flags", "width", "precision", "qualifier"},
         scanner' \in {"flags", "width", "precision", "qualifier", "convert"},
         fmt' = fmt, out' = out, pos' \in pos .. Len(fmt) + 1
  PROVE  FormatInv'
<1>1. fmt \in Seq(STRING) /\ Len(fmt) \in Nat
  BY FormatIs DEF FormatInv
<1>2. pos' \in 1 .. Len(fmt) + 1
  BY <1>1 DEF FormatInv
<1>3. OneKey'
  <2> SUFFICES ASSUME Len(fmt) = 1
               PROVE  pos' = 2 /\ out' = <<>> /\ fmt' = <<"%">>
    BY DEF OneKey
  <2>1. pos = 2 /\ out = <<>> /\ fmt = <<"%">>
    BY DEF FormatInv, OneKey
  <2> QED BY <1>1, <2>1
<1> QED BY <1>2, <1>3 DEF FormatInv

\* What Scan does with the next character.
LEMMA ScanStep ==
  ASSUME FormatInv, Fmt!Scan
  PROVE  FormatInv'
<1>1. fmt \in Seq(STRING) /\ Len(fmt) \in Nat /\ pos \in 1 .. Len(fmt) + 1
  BY FormatIs DEF FormatInv
<1>2. (Fmt!Cur = "NUL" <=> pos = Len(fmt) + 1) /\ (pos <= Len(fmt) => Fmt!Cur = fmt[pos])
  BY FormatIs DEF FormatInv
<1>3. scanner = "scan" /\ fmt' = fmt
  BY DEF Fmt!Scan
<1>4. Len(fmt) = 1 => (pos = 1 /\ out = <<>>) \/ (pos = 2 /\ out = fmt)
  BY <1>3 DEF FormatInv, OneKey
<1>5. CASE Fmt!Cur = "NUL" /\ scanner' = "done" /\ pos' = pos /\ out' = out
  BY <1>1, <1>2, <1>3, <1>4, <1>5 DEF FormatInv, OneKey
<1>6. CASE Fmt!Cur \notin {"NUL", "%"} /\ out' = Append(out, Fmt!Cur) /\ pos' = pos + 1 /\ scanner' = scanner
  <2>1. pos <= Len(fmt) /\ Fmt!Cur = fmt[pos]
    BY <1>1, <1>2, <1>6
  <2>2. Len(fmt) = 1 => pos' = 2 /\ out' = fmt
    <3> SUFFICES ASSUME Len(fmt) = 1 PROVE pos' = 2 /\ out' = fmt
      OBVIOUS
    <3>1. pos = 1 /\ out = <<>> /\ Fmt!Cur = fmt[1]
      BY <1>1, <1>4, <2>1
    <3>2. fmt = <<fmt[1]>>
      BY <1>1
    <3> QED BY <1>6, <3>1, <3>2
  <2> QED BY <1>1, <1>3, <1>6, <2>1, <2>2 DEF FormatInv, OneKey
<1>7. CASE Fmt!Cur = "%" /\ pos' = pos + 1 /\ scanner' = "flags" /\ out' = out
  <2>1. pos <= Len(fmt) /\ Fmt!Cur = fmt[pos]
    BY <1>1, <1>2, <1>7
  <2>2. Len(fmt) = 1 => pos' = 2 /\ out' = <<>> /\ fmt = <<"%">>
    <3> SUFFICES ASSUME Len(fmt) = 1 PROVE pos' = 2 /\ out' = <<>> /\ fmt = <<"%">>
      OBVIOUS
    <3>1. pos = 1 /\ out = <<>> /\ fmt[1] = "%"
      BY <1>1, <1>4, <1>7, <2>1
    <3>2. fmt = <<fmt[1]>>
      BY <1>1
    <3> QED BY <1>7, <3>1, <3>2
  <2> QED BY <1>1, <1>3, <1>7, <2>1, <2>2 DEF FormatInv, OneKey
<1> QED BY <1>5, <1>6, <1>7 DEF Fmt!Scan, Fmt!NUL

\* A conversion is done: the scan goes on behind its character.
LEMMA ConvertStep ==
  ASSUME FormatInv, Fmt!Convert
  PROVE  FormatInv'
<1>1. fmt \in Seq(STRING) /\ Len(fmt) \in Nat /\ pos \in 1 .. Len(fmt) + 1
  BY FormatIs DEF FormatInv
<1>2. (Fmt!Cur = "NUL" <=> pos = Len(fmt) + 1)
  BY FormatIs DEF FormatInv
<1>3. scanner = "convert" /\ scanner' = "scan" /\ fmt' = fmt /\ pos' = Fmt!Behind
  BY DEF Fmt!Convert
<1>4. pos' = IF Fmt!Cur = "NUL" THEN pos ELSE pos + 1
  BY <1>3 DEF Fmt!Behind, Fmt!NUL
<1>5. pos' \in 1 .. Len(fmt) + 1
  BY <1>1, <1>2, <1>4
<1>6. ASSUME Len(fmt) = 1 PROVE pos' = 2 /\ out' = fmt
  <2>1. pos = 2 /\ out = <<>> /\ fmt = <<"%">>
    BY <1>3, <1>6 DEF FormatInv, OneKey
  <2>2. Fmt!Cur = "NUL"
    BY <1>2, <1>6, <2>1
  <2>3. out' = out \o Fmt!Unknown
    BY <2>2 DEF Fmt!Convert, Fmt!Emit, Fmt!Base
  <2>4. Fmt!Unknown = <<"%">>
    BY <2>2 DEF Fmt!Unknown, Fmt!NUL
  <2>5. out' = <<"%">>
    BY <2>1, <2>3, <2>4
  <2> QED BY <1>4, <2>1, <2>2, <2>5
<1> QED BY <1>3, <1>5, <1>6 DEF FormatInv, OneKey

\* Every step of vsprintf keeps FormatInv.
LEMMA FormatNext == FormatInv /\ [Fmt!Next]_Fmt!vars => FormatInv'
<1> SUFFICES ASSUME FormatInv, [Fmt!Next]_Fmt!vars PROVE FormatInv'
  OBVIOUS
<1>0. fmt \in Seq(STRING) /\ Len(fmt) \in Nat /\ pos \in 1 .. Len(fmt) + 1
  BY FormatIs DEF FormatInv
<1>a. Fmt!Cur = "NUL" <=> pos = Len(fmt) + 1
  BY FormatIs DEF FormatInv
<1>1. CASE Fmt!Scan
  BY <1>1, ScanStep
<1>2. CASE Fmt!Flag
  <2>1. /\ scanner = "flags" /\ scanner' \in {"flags", "width"} /\ fmt' = fmt /\ out' = out
        /\ pos' = pos \/ (Fmt!Cur \in DOMAIN Fmt!FlagOf /\ pos' = pos + 1)
    BY <1>2 DEF Fmt!Flag
  <2>2. pos' \in pos .. Len(fmt) + 1
    <3>1. CASE Fmt!Cur \in DOMAIN Fmt!FlagOf /\ pos' = pos + 1
      <4>1. Fmt!Cur # "NUL"
        BY <3>1 DEF Fmt!FlagOf
      <4> QED BY <1>0, <1>a, <3>1, <4>1
    <3> QED BY <1>0, <2>1, <3>1
  <2> QED BY <2>1, <2>2, NextPart
<1>3. CASE Fmt!Width
  <2>1. /\ scanner = "width" /\ scanner' = "precision" /\ fmt' = fmt /\ out' = out
        /\ pos' = pos \/ pos' = Fmt!DigitsEnd(pos)
    BY <1>3 DEF Fmt!Width
  <2>2. pos' \in pos .. Len(fmt) + 1
    BY <1>0, <2>1, DigitsEndInside
  <2> QED BY <2>1, <2>2, NextPart
<1>4. CASE Fmt!Precision
  <2>1. /\ scanner = "precision" /\ scanner' = "qualifier" /\ fmt' = fmt /\ out' = out
        /\ \/ pos' = pos
           \/ Fmt!Cur = "." /\ pos' = Fmt!DigitsEnd(pos + 1)
           \/ Fmt!Cur = "." /\ pos' = pos + 1
    BY <1>4 DEF Fmt!Precision
  <2>2. pos' \in pos .. Len(fmt) + 1
    <3>1. CASE pos' = pos
      BY <1>0, <3>1
    <3>2. CASE Fmt!Cur = "." /\ (pos' = Fmt!DigitsEnd(pos + 1) \/ pos' = pos + 1)
      <4>1. pos + 1 \in 1 .. Len(fmt) + 1
        BY <1>0, <1>a, <3>2
      <4>2. Fmt!DigitsEnd(pos + 1) \in pos + 1 .. Len(fmt) + 1
        BY <1>0, <4>1, DigitsEndInside
      <4> QED BY <1>0, <3>2, <4>1, <4>2
    <3> QED BY <2>1, <3>1, <3>2
  <2> QED BY <2>1, <2>2, NextPart
<1>5. CASE Fmt!Qualifier
  <2>1. /\ scanner = "qualifier" /\ scanner' = "convert" /\ fmt' = fmt /\ out' = out
        /\ pos' = pos \/ (Fmt!Cur \in {"h", "l", "L"} /\ pos' = pos + 1)
    BY <1>5 DEF Fmt!Qualifier
  <2>2. pos' \in pos .. Len(fmt) + 1
    BY <1>0, <1>a, <2>1
  <2> QED BY <2>1, <2>2, NextPart
<1>6. CASE Fmt!Convert
  BY <1>6, ConvertStep
<1>7. CASE Fmt!Done \/ UNCHANGED Fmt!vars
  BY <1>7 DEF Fmt!Done, Fmt!vars, FormatInv, OneKey
<1> QED BY <1>1, <1>2, <1>3, <1>4, <1>5, <1>6, <1>7 DEF Fmt!Next, Fmt!vsprintf

\* vsprintf never reads past the NUL of its format, whatever part of a conversion
\* the format ends in, and a format of one character prints as itself.
THEOREM FormatEnds == Fmt!Spec => []EndsAtNul
<1>1. Fmt!Init => FormatInv
  <2> SUFFICES ASSUME Fmt!Init PROVE FormatInv
    OBVIOUS
  <2>1. fmt \in Formats /\ pos = 1 /\ scanner = "scan" /\ out = <<>>
    BY DEF Fmt!Init
  <2>2. Len(fmt) \in Nat
    BY <2>1, PrintfArguments DEF Fmt!ArgumentsAssumption
  <2> QED BY <2>1, <2>2 DEF FormatInv, OneKey
<1>2. FormatInv => EndsAtNul
  <2> SUFFICES ASSUME FormatInv PROVE EndsAtNul
    OBVIOUS
  <2>1. Len(fmt) \in Nat /\ pos \in 1 .. Len(fmt) + 1
    BY FormatIs DEF FormatInv
  <2>2. Fmt!StaysInside
    BY <2>1 DEF Fmt!StaysInside
  <2>3. Fmt!EchoesKey
    BY DEF FormatInv, OneKey, Fmt!EchoesKey
  <2> QED BY <2>2, <2>3 DEF EndsAtNul, Fmt!EndsAtNul
<1> QED BY <1>1, <1>2, FormatNext, PTL DEF Fmt!Spec


----------------------------------------------------------------------------
(* The console.                                                            *)

\* The cells of a text: characters with their colours, and what a tab skips.
Cells(m) == {Con!Blank} \cup m.chars \X Con!Colours
\* A pixel row by its line and the row of the glyph; the pixel rows of a screen.
LineOf(r) == r \div CellH
RowOf(r) == r % CellH
PixelRows(m) == m.h * CellH + m.rest

\* Shown, by line and row and as an operator of the text.
ShownIn(rs, l, t, c) ==
  IF l < Len(rs) /\ c < Len(rs[l + 1]) /\ rs[l + 1][c + 1] # Con!Blank /\ t \in Lit[rs[l + 1][c + 1][1]]
  THEN {rs[l + 1][c + 1]} ELSE {}

\* A place in row t of its cell has what the text says and nothing else, but for
\* the row scroll_screen leaves behind.
Matches(m, t, has, want) == want \subseteq has /\ (t # m.rest => has = want)

Shows(m, scr, rs) ==
  \A r \in 0 .. PixelRows(m) - 1, c \in 0 .. m.scroll - 1 :
     Matches(m, RowOf(r), scr[r][c], ShownIn(rs, LineOf(r), RowOf(r), c))

\* The text with the cursor at its end.
TextAt(m, rs, a, b) ==
  /\ rs \in Seq(Seq(Cells(m)))
  /\ Len(rs) = b + 1 /\ Len(rs[b + 1]) = a

\* The cursor can leave the screen only after a movement has saved its line.
CursorInv ==
  /\ mode \in Modes /\ x \in Nat /\ y \in Nat
  /\ tmpy = -1 \/ tmpy \in 0 .. mode.h - 1
  /\ tmpy = -1 => y \in 0 .. mode.h - 1

TextInv ==
  /\ colour \in Con!Colours
  /\ mode.digits = {} => tmpy = -1 /\ TextAt(mode, rows, x, y) /\ Shows(mode, screen, rows)

\* A mode and its sizes.
LEMMA ModeIs ==
  ASSUME NEW m \in Modes
  PROVE  /\ CellH \in Nat \ {0} /\ m.w \in Nat \ {0} /\ m.h \in Nat \ {0}
         /\ m.scroll \in 0 .. m.w /\ m.rest \in 0 .. CellH - 1
         /\ m.digits \subseteq 0 .. 9 /\ "blank" \notin m.chars
         /\ m.h * CellH \in Nat /\ m.h * CellH >= CellH
<1>1. /\ CellH \in Nat \ {0} /\ m.w \in Nat \ {0} /\ m.h \in Nat \ {0}
      /\ m.scroll \in 0 .. m.w /\ m.rest \in 0 .. CellH - 1
      /\ m.digits \subseteq 0 .. 9 /\ "blank" \notin m.chars
  BY ConsoleModes DEF Con!ModesAssumption
<1>2. \A a \in Nat \ {0}, b \in Nat \ {0} : a * b \in Nat /\ a * b >= b
  OBVIOUS
<1> QED BY <1>1, <1>2

\* put_console keeps CursorInv, and so does a scroll under it.
LEMMA CursorNext == CursorInv /\ [Con!Next]_Con!vars => CursorInv'
<1> SUFFICES ASSUME CursorInv, [Con!Next]_Con!vars PROVE CursorInv'
  OBVIOUS
<1>1. /\ mode \in Modes /\ mode.w \in Nat \ {0} /\ mode.h \in Nat \ {0} /\ mode.digits \subseteq 0 .. 9
      /\ x \in Nat /\ y \in Nat
  BY ModeIs DEF CursorInv
<1>2. ASSUME NEW line \in Int, NEW scr, Con!NextLine(line, scr)
      PROVE  y' = IF line + 1 = mode.h THEN line ELSE line + 1
  BY <1>2 DEF Con!NextLine, Con!H
<1>3. ASSUME NEW ch, Con!Character(ch) PROVE CursorInv'
  <2>1. /\ mode' = mode /\ tmpy' = tmpy
        /\ \/ x' = 0 /\ y' = IF y + 1 = mode.h THEN y ELSE y + 1
           \/ x' = x + 1 /\ y' = y
    BY <1>1, <1>2, <1>3 DEF Con!Character
  <2> QED BY <1>1, <2>1 DEF CursorInv
<1>4. CASE Con!Tab
  <2>1. x' = x + 1 \/ x' = x + 2
    BY <1>4 DEF Con!Tab
  <2>2. mode' = mode /\ tmpy' = tmpy /\ y' = y
    BY <1>4 DEF Con!Tab
  <2> QED BY <1>1, <2>1, <2>2 DEF CursorInv
<1>5. CASE Con!Backspace
  BY <1>1, <1>5 DEF Con!Backspace, CursorInv
<1>6. CASE Con!Newline
  <2>1. Con!SavedLine \in -1 .. mode.h - 1
    BY <1>1 DEF CursorInv, Con!SavedLine
  <2>2. y' = IF Con!SavedLine + 1 = mode.h THEN Con!SavedLine ELSE Con!SavedLine + 1
    BY <1>2, <1>6, <2>1 DEF Con!Newline
  <2>3. x' = 0 /\ tmpy' = -1 /\ mode' = mode
    BY <1>6 DEF Con!Newline
  <2> QED BY <1>1, <2>1, <2>2, <2>3 DEF CursorInv
<1>7. CASE Con!SetColour
  BY <1>7 DEF Con!SetColour, Con!cursor, CursorInv
<1>8. CASE Con!Move
  <2>1. PICK n \in mode.digits : Con!Up(n) \/ Con!Down(n) \/ Con!Right(n) \/ Con!Left(n)
    BY <1>8 DEF Con!Move, Con!Digits
  <2>2. n \in Nat
    BY <1>1
  <2>3. CASE Con!Up(n)
    BY <1>1, <2>2, <2>3 DEF CursorInv, Con!Up, Con!Save
  <2>4. CASE Con!Down(n)
    BY <1>1, <2>2, <2>4 DEF CursorInv, Con!Down, Con!Save, Con!H
  <2>5. CASE Con!Right(n)
    BY <1>1, <2>2, <2>5 DEF CursorInv, Con!Right, Con!W
  <2>6. CASE Con!Left(n)
    BY <1>1, <2>2, <2>6 DEF CursorInv, Con!Left
  <2> QED BY <2>1, <2>3, <2>4, <2>5, <2>6
<1>9. CASE Con!ScrollUnder
  BY <1>9 DEF Con!ScrollUnder, Con!cursor, CursorInv
<1>10. CASE UNCHANGED Con!vars
  BY <1>10 DEF Con!vars, CursorInv
<1> QED BY <1>3, <1>4, <1>5, <1>6, <1>7, <1>8, <1>9, <1>10 DEF Con!Next, Con!put_console

\* CursorInv is inductive.
LEMMA CursorHolds == Con!Spec => []CursorInv
<1>1. Con!Init => CursorInv
  BY ModeIs DEF Con!Init, CursorInv
<1> QED BY <1>1, CursorNext, PTL DEF Con!Spec

\* A newline brings the cursor of put_console back onto the screen, wherever the
\* movements, tabs and characters before it have left it: on a screen of any
\* size and for every text.
THEOREM NewlineHolds == Con!Spec => NewlineRecovers
<1>1. CursorInv /\ [Con!Next]_Con!vars => [Con!Newline => x' = 0 /\ y' \in 0 .. Con!H - 1]_Con!vars
  <2> SUFFICES ASSUME CursorInv, Con!Newline PROVE x' = 0 /\ y' \in 0 .. Con!H - 1
    OBVIOUS
  <2>0. mode.h \in Nat \ {0}
    BY ModeIs DEF CursorInv
  <2>1. Con!SavedLine \in -1 .. mode.h - 1
    BY <2>0 DEF CursorInv, Con!SavedLine
  <2>2. y' = IF Con!SavedLine + 1 = mode.h THEN Con!SavedLine ELSE Con!SavedLine + 1
    BY <2>1 DEF Con!Newline, Con!NextLine, Con!H
  <2> QED BY <2>0, <2>1, <2>2 DEF Con!Newline, Con!H
<1> QED BY <1>1, CursorHolds, PTL DEF Con!Spec, NewlineRecovers, Con!NewlineRecovers

\* Division by the height of a cell.
LEMMA DivideOnce ==
  ASSUME NEW C \in Nat \ {0}, NEW q \in Int, NEW u \in Int,
         NEW t \in 0 .. C - 1, NEW s \in 0 .. C - 1, C * q + t = C * u + s
  PROVE  q = u /\ t = s
<1>1. C * (q - u) = s - t
  OBVIOUS
<1>2. PICK k \in Int : k = q - u
  OBVIOUS
<1>3. s - t < C /\ t - s < C
  OBVIOUS
<1>4. ~ (k >= 1)
  <2> SUFFICES ASSUME k >= 1 PROVE FALSE
    OBVIOUS
  <2>1. C * k >= C
    OBVIOUS
  <2> QED BY <1>1, <1>2, <1>3, <2>1
<1>5. ~ (k <= -1)
  <2> SUFFICES ASSUME k <= -1 PROVE FALSE
    OBVIOUS
  <2>1. C * k <= -C
    OBVIOUS
  <2> QED BY <1>1, <1>2, <1>3, <2>1
<1>6. q = u
  BY <1>2, <1>4, <1>5
<1> QED BY <1>6

\* Pixel rows by line and row of the glyph.
LEMMA RowIs ==
  ASSUME NEW C \in Nat \ {0}, NEW r \in Nat
  PROVE  r = C * (r \div C) + (r % C) /\ r % C \in 0 .. C - 1 /\ r \div C \in Nat
  OBVIOUS

\* Rows on h cells of C rows and a rest of t rows: the same row of the next line,
\* the rows of the last line, and the one scroll_screen leaves alone.
CellFacts(C, h, t, r, ht) ==
  /\ r \div C \in Nat
  /\ (r + C) \div C = (r \div C) + 1 /\ (r + C) % C = r % C
  /\ r >= ht - C => r \div C >= h - 1
  /\ r = ht - C => r % C = t

\* The facts about the rows of cells hold.
LEMMA CellRows ==
  ASSUME NEW C \in Nat \ {0}, NEW h \in Nat \ {0}, NEW t \in 0 .. C - 1, NEW r \in Nat,
         NEW ht \in Nat, ht = h * C + t
  PROVE  CellFacts(C, h, t, r, ht)
<1>c. h * C - C = C * (h - 1)
  OBVIOUS
<1>1. PICK q \in Nat, w \in 0 .. C - 1 : q = r \div C /\ w = r % C /\ r = C * q + w
  BY RowIs
<1>2. PICK u \in Nat, s \in 0 .. C - 1 :
        u = (r + C) \div C /\ s = (r + C) % C /\ r + C = C * u + s
  <2>1. r + C \in Nat
    OBVIOUS
  <2> QED BY <2>1, RowIs
<1>3. C * (q + 1) = C * q + C
  OBVIOUS
<1>4. q + 1 = u /\ w = s
  <2>1. C * (q + 1) + w = C * u + s
    BY <1>1, <1>2, <1>3
  <2>2. q + 1 \in Int /\ u \in Int
    OBVIOUS
  <2> QED BY <2>1, <2>2, DivideOnce
<1>5. ASSUME r >= ht - C PROVE q >= h - 1
  <2> SUFFICES ASSUME q + 1 <= h - 1 PROVE FALSE
    OBVIOUS
  <2>1. C * (q + 1) <= C * (h - 1)
    OBVIOUS
  <2> QED BY <1>1, <1>c, <1>5, <1>3, <2>1
<1>6. ASSUME r = ht - C PROVE w = t
  <2>1. C * q + w = C * (h - 1) + t
    BY <1>1, <1>c, <1>6
  <2>2. h - 1 \in Int /\ q \in Int
    OBVIOUS
  <2> QED BY <2>1, <2>2, DivideOnce
<1> QED BY <1>1, <1>2, <1>4, <1>5, <1>6 DEF CellFacts

\* The same of the screen.
LEMMA LinesOf ==
  ASSUME NEW m \in Modes, NEW r \in Nat
  PROVE  /\ PixelRows(m) \in Nat /\ PixelRows(m) >= CellH /\ CellH \in Nat \ {0}
         /\ LineOf(r) \in Nat
         /\ LineOf(r + CellH) = LineOf(r) + 1 /\ RowOf(r + CellH) = RowOf(r)
         /\ r >= PixelRows(m) - CellH => LineOf(r) >= m.h - 1
         /\ r = PixelRows(m) - CellH => RowOf(r) = m.rest
<1>0. /\ CellH \in Nat \ {0} /\ m.h \in Nat \ {0} /\ m.rest \in 0 .. CellH - 1
      /\ m.h * CellH \in Nat /\ m.h * CellH >= CellH
  BY ModeIs
<1>1. PixelRows(m) \in Nat /\ PixelRows(m) >= CellH
  BY <1>0 DEF PixelRows
<1>2. CellFacts(CellH, m.h, m.rest, r, PixelRows(m))
  <2>1. PixelRows(m) = m.h * CellH + m.rest
    BY DEF PixelRows
  <2> QED BY <1>0, <1>1, <2>1, CellRows
<1>3. LineOf(r) \in Nat /\ LineOf(r + CellH) = LineOf(r) + 1 /\ RowOf(r + CellH) = RowOf(r)
  BY <1>2, Zenon DEF CellFacts, LineOf, RowOf
<1>4. r >= PixelRows(m) - CellH => LineOf(r) >= m.h - 1
  BY <1>2, Zenon DEF CellFacts, LineOf
<1>5. r = PixelRows(m) - CellH => RowOf(r) = m.rest
  BY <1>2, Zenon DEF CellFacts, RowOf
<1> QED BY <1>0, <1>1, <1>3, <1>4, <1>5

\* A line added below shows nothing.
LEMMA ShownAppend ==
  ASSUME NEW S, NEW rs \in Seq(Seq(S)), NEW l \in Nat, NEW t, NEW c \in Nat
  PROVE  ShownIn(Append(rs, <<>>), l, t, c) = ShownIn(rs, l, t, c)
<1>1. /\ Len(rs) \in Nat /\ Len(Append(rs, <<>>)) = Len(rs) + 1 /\ Append(rs, <<>>)[Len(rs) + 1] = <<>>
      /\ \A k \in 1 .. Len(rs) : Append(rs, <<>>)[k] = rs[k]
  OBVIOUS
<1>2. CASE l < Len(rs)
  <2>1. l < Len(rs) + 1 /\ Append(rs, <<>>)[l + 1] = rs[l + 1]
    BY <1>1, <1>2
  <2> QED BY <1>1, <1>2, <2>1 DEF ShownIn
<1>3. CASE l = Len(rs)
  <2>1. ~ (c < Len(<<>>)) /\ ~ (l < Len(rs))
    BY <1>1, <1>3
  <2> QED BY <1>1, <1>3, <2>1 DEF ShownIn
<1>4. CASE l > Len(rs)
  <2>1. ~ (l < Len(rs) + 1) /\ ~ (l < Len(rs))
    BY <1>1, <1>4
  <2> QED BY <1>1, <2>1 DEF ShownIn
<1> QED BY <1>1, <1>2, <1>3, <1>4

\* The text without its first line shows everything a line higher.
LEMMA ShownTail ==
  ASSUME NEW S, NEW rs \in Seq(Seq(S)), rs # <<>>, NEW l \in Nat, NEW t, NEW c
  PROVE  ShownIn(Tail(rs), l, t, c) = ShownIn(rs, l + 1, t, c)
<1>1. /\ Len(rs) \in Nat /\ Len(Tail(rs)) = Len(rs) - 1
      /\ \A k \in 1 .. Len(rs) - 1 : Tail(rs)[k] = rs[k + 1]
  OBVIOUS
<1>2. l < Len(Tail(rs)) <=> l + 1 < Len(rs)
  BY <1>1
<1>3. CASE l < Len(Tail(rs))
  <2>1. Tail(rs)[l + 1] = rs[(l + 1) + 1]
    BY <1>1, <1>3
  <2> QED BY <1>2, <1>3, <2>1 DEF ShownIn
<1> QED BY <1>2, <1>3 DEF ShownIn

\* scroll_screen shows the text without its first line, when the last one is
\* empty: the rows it clears and the one it leaves alone belong to lines that are
\* empty or not there.
LEMMA Scrolled ==
  ASSUME NEW scr, NEW rs \in Seq(Seq(Cells(mode))), mode \in Modes,
         rs # <<>>, Len(rs) <= mode.h + 1, rs[Len(rs)] = <<>>, Shows(mode, scr, rs)
  PROVE  Shows(mode, Con!scroll_screen(scr), Tail(rs))
<1>1. mode.w \in Nat \ {0} /\ mode.h \in Nat \ {0} /\ mode.scroll \in 0 .. mode.w
  BY ModeIs
<1>2. PICK ht \in Nat : ht = PixelRows(mode) /\ ht >= CellH /\ CellH \in Nat \ {0}
  <2>1. 0 \in Nat
    OBVIOUS
  <2> QED BY <2>1, LinesOf
<1>3. /\ Len(rs) \in Nat \ {0} /\ Len(Tail(rs)) = Len(rs) - 1 /\ Tail(rs) \in Seq(Seq(Cells(mode)))
      /\ \A k \in 1 .. Len(rs) - 1 : Tail(rs)[k] = rs[k + 1]
  OBVIOUS
<1> SUFFICES ASSUME NEW r \in 0 .. ht - 1, NEW c \in 0 .. mode.scroll - 1
             PROVE  Matches(mode, RowOf(r), Con!scroll_screen(scr)[r][c],
                            ShownIn(Tail(rs), LineOf(r), RowOf(r), c))
  BY <1>2 DEF Shows
<1>4. r \in Nat /\ c \in Nat /\ c \in 0 .. mode.w - 1
  BY <1>1
<1>5. /\ LineOf(r) \in Nat /\ LineOf(r + CellH) = LineOf(r) + 1 /\ RowOf(r + CellH) = RowOf(r)
      /\ r >= ht - CellH => LineOf(r) >= mode.h - 1
      /\ r = ht - CellH => RowOf(r) = mode.rest
  BY <1>2, <1>4, LinesOf
<1>6. Con!scroll_screen(scr)[r][c] =
        IF r > ht - CellH THEN {} ELSE IF r < ht - CellH THEN scr[r + CellH][c] ELSE scr[r][c]
  <2>1. ht = Con!Height
    BY <1>2 DEF PixelRows, Con!Height, Con!H, Con!Rest
  <2>2. r \in 0 .. Con!Height - 1 /\ c \in Con!Columns /\ c < Con!ScrollCols
    BY <1>1, <1>4, <2>1 DEF Con!Columns, Con!W, Con!ScrollCols
  <2> QED BY <2>1, <2>2 DEF Con!scroll_screen, Con!Cleared
<1>7. ASSUME r >= ht - CellH PROVE ShownIn(Tail(rs), LineOf(r), RowOf(r), c) = {}
  <2>1. CASE LineOf(r) < Len(Tail(rs))
    <3>1. LineOf(r) + 1 = Len(rs) - 1
      BY <1>1, <1>3, <1>5, <1>7, <2>1
    <3>2. Tail(rs)[LineOf(r) + 1] = <<>>
      BY <1>3, <1>5, <2>1, <3>1
    <3>3. ~ (c < Len(<<>>))
      BY <1>4
    <3> QED BY <3>2, <3>3 DEF ShownIn
  <2> QED BY <2>1 DEF ShownIn
<1>8. CASE r < ht - CellH
  <2>1. r + CellH \in 0 .. ht - 1
    BY <1>2, <1>8
  <2>2. Matches(mode, RowOf(r + CellH), scr[r + CellH][c],
                ShownIn(rs, LineOf(r + CellH), RowOf(r + CellH), c))
    BY <1>2, <2>1 DEF Shows
  <2>3. ShownIn(Tail(rs), LineOf(r), RowOf(r), c) = ShownIn(rs, LineOf(r) + 1, RowOf(r), c)
    BY <1>5, ShownTail
  <2>4. Con!scroll_screen(scr)[r][c] = scr[r + CellH][c]
    BY <1>2, <1>4, <1>6, <1>8
  <2> QED BY <1>5, <2>2, <2>3, <2>4
<1>9. CASE r = ht - CellH
  <2>1. RowOf(r) = mode.rest
    BY <1>5, <1>9
  <2>2. ShownIn(Tail(rs), LineOf(r), RowOf(r), c) = {}
    BY <1>2, <1>4, <1>7, <1>9
  <2> QED BY <2>1, <2>2 DEF Matches
<1>10. CASE r > ht - CellH
  <2>1. Con!scroll_screen(scr)[r][c] = {}
    BY <1>6, <1>10
  <2>2. ShownIn(Tail(rs), LineOf(r), RowOf(r), c) = {}
    BY <1>2, <1>4, <1>7, <1>10
  <2> QED BY <2>1, <2>2 DEF Matches
<1>. CellH \in Nat /\ r \in Nat
  BY <1>2, <1>4
<1>11. r > ht - CellH \/ r < ht - CellH \/ r = ht - CellH
  BY ONLY ht \in Nat, CellH \in Nat, r \in Nat
<1> QED BY <1>8, <1>9, <1>10, <1>11

\* A line of the text.
ShownCell(q, t, c) ==
  IF c < Len(q) /\ q[c + 1] # Con!Blank /\ t \in Lit[q[c + 1][1]] THEN {q[c + 1]} ELSE {}

\* qs is the text rs with the last line q.
ReplacesLast(m, rs, qs, b, q) ==
  /\ TextAt(m, qs, Len(q), b)
  /\ \A l \in Nat : l # b => \A t, c : ShownIn(qs, l, t, c) = ShownIn(rs, l, t, c)
  /\ \A t, c : ShownIn(qs, b, t, c) = ShownCell(q, t, c)
  /\ \A t, c : ShownIn(rs, b, t, c) = ShownCell(rs[b + 1], t, c)

\* The text with another last line.
LEMMA LastRow ==
  ASSUME NEW m, NEW rs, NEW a, NEW b \in Nat, TextAt(m, rs, a, b),
         NEW q \in Seq(Cells(m)), NEW qs, qs = [rs EXCEPT ![Len(rs)] = q]
  PROVE  ReplacesLast(m, rs, qs, b, q)
<1>1. rs \in Seq(Seq(Cells(m))) /\ Len(rs) = b + 1 /\ b + 1 \in 1 .. Len(rs)
  BY DEF TextAt
<1>2. /\ qs \in Seq(Seq(Cells(m))) /\ Len(qs) = b + 1 /\ qs[b + 1] = q
      /\ \A k \in 1 .. b + 1 : k # b + 1 => qs[k] = rs[k]
  BY <1>1
<1>3. TextAt(m, qs, Len(q), b)
  BY <1>2 DEF TextAt
<1>4. ASSUME NEW l \in Nat, l # b, NEW t, NEW c PROVE ShownIn(qs, l, t, c) = ShownIn(rs, l, t, c)
  <2>1. CASE l < b + 1
    <3>1. l + 1 \in 1 .. b + 1 /\ l + 1 # b + 1
      BY <1>4, <2>1
    <3>2. qs[l + 1] = rs[l + 1]
      BY <1>2, <3>1
    <3> QED BY <1>1, <1>2, <3>2 DEF ShownIn
  <2> QED BY <1>1, <1>2, <2>1 DEF ShownIn
<1>5. b < b + 1
  OBVIOUS
<1>6. \A t, c : ShownIn(qs, b, t, c) = ShownCell(q, t, c)
  BY <1>2, <1>5 DEF ShownIn, ShownCell
<1>7. \A t, c : ShownIn(rs, b, t, c) = ShownCell(rs[b + 1], t, c)
  BY <1>1, <1>5 DEF ShownIn, ShownCell
<1> QED BY <1>3, <1>4, <1>6, <1>7 DEF ReplacesLast

\* A line with a cell more.
Longer(q, g) == Append(q, g)

\* What a line with a cell more shows.
LEMMA CellAdded ==
  ASSUME NEW m, NEW q \in Seq(Cells(m)), NEW g \in Cells(m), g # Con!Blank, NEW t, NEW c \in Nat,
         NEW n \in Nat, n = Len(q), NEW p, p = Longer(q, g)
  PROVE  /\ c # n => ShownCell(p, t, c) = ShownCell(q, t, c)
         /\ c = n /\ t \in Lit[g[1]] => ShownCell(p, t, c) = {g}
         /\ c = n /\ t \notin Lit[g[1]] => ShownCell(p, t, c) = {}
<1>1. n = Len(q)
  OBVIOUS
<1>2. p = Append(q, g)
  BY DEF Longer
<1>3. Len(p) = n + 1 /\ p[n + 1] = g /\ \A k \in 1 .. n : p[k] = q[k]
  BY <1>1, <1>2
<1>4. CASE c = n
  <2>1. c < Len(p) /\ p[c + 1] = g
    BY <1>3, <1>4
  <2> QED BY <1>1, <1>2, <1>4, <2>1 DEF ShownCell
<1>5. CASE c < n
  <2>1. c < Len(p) /\ p[c + 1] = q[c + 1] /\ c < Len(q) /\ c # Len(q)
    BY <1>1, <1>3, <1>5
  <2> QED BY <1>2, <2>1 DEF ShownCell
<1>6. CASE c > n
  <2>1. ~ (c < Len(p)) /\ ~ (c < Len(q)) /\ c # Len(q)
    BY <1>1, <1>3, <1>6
  <2> QED BY <1>2, <2>1 DEF ShownCell
<1> QED BY <1>1, <1>4, <1>5, <1>6

\* A line without its last cell.
LEMMA CellRemoved ==
  ASSUME NEW S, NEW q \in Seq(S), q # <<>>, NEW t, NEW c \in Nat
  PROVE  /\ Con!Front(q) \in Seq(S) /\ Len(Con!Front(q)) = Len(q) - 1
         /\ c = Len(q) - 1 => ShownCell(Con!Front(q), t, c) = {}
         /\ c # Len(q) - 1 => ShownCell(Con!Front(q), t, c) = ShownCell(q, t, c)
<1>1. PICK n \in Nat : n = Len(q) - 1 /\ n + 1 = Len(q)
  OBVIOUS
<1>2. PICK p : p = Con!Front(q)
  OBVIOUS
<1>3. p \in Seq(S) /\ Len(p) = n /\ \A k \in 1 .. n : p[k] = q[k]
  BY <1>1, <1>2 DEF Con!Front
<1>4. CASE c >= n
  <2>1. ~ (c < Len(p))
    BY <1>3, <1>4
  <2>2. c # n => ~ (c < Len(q))
    BY <1>1, <1>4
  <2> QED BY <1>1, <1>2, <1>3, <2>1, <2>2 DEF ShownCell
<1>5. CASE c < n
  <2>1. c < Len(p) /\ p[c + 1] = q[c + 1] /\ c < Len(q) /\ c # n
    BY <1>1, <1>3, <1>5
  <2> QED BY <1>1, <1>2, <1>3, <2>1 DEF ShownCell
<1> QED BY <1>1, <1>4, <1>5

\* A screen on which only the last line has changed.
LEMMA LastRowShown ==
  ASSUME NEW m \in Modes, NEW rs, NEW qs, NEW b \in Nat, NEW q, NEW scr, NEW new,
         Shows(m, scr, rs), ReplacesLast(m, rs, qs, b, q),
         \A r \in 0 .. PixelRows(m) - 1, c \in 0 .. m.scroll - 1 :
           /\ LineOf(r) # b => new[r][c] = scr[r][c]
           /\ LineOf(r) = b /\ Matches(m, RowOf(r), scr[r][c], ShownCell(rs[b + 1], RowOf(r), c))
                => Matches(m, RowOf(r), new[r][c], ShownCell(q, RowOf(r), c))
  PROVE  Shows(m, new, qs)
<1> SUFFICES ASSUME NEW r \in 0 .. PixelRows(m) - 1, NEW c \in 0 .. m.scroll - 1
             PROVE  Matches(m, RowOf(r), new[r][c], ShownIn(qs, LineOf(r), RowOf(r), c))
  BY DEF Shows
<1>1. LineOf(r) \in Nat
  BY LinesOf
<1>2. Matches(m, RowOf(r), scr[r][c], ShownIn(rs, LineOf(r), RowOf(r), c))
  BY DEF Shows
<1> QED BY <1>1, <1>2 DEF ReplacesLast

\* The places of the screen that scroll.
LEMMA PlaceIs ==
  ASSUME mode \in Modes, NEW r \in 0 .. PixelRows(mode) - 1, NEW c \in 0 .. mode.scroll - 1
  PROVE  r \in 0 .. Con!Height - 1 /\ c \in Con!Columns /\ r \in Nat /\ c \in Nat
<1>1. mode.w \in Nat \ {0} /\ mode.scroll \in 0 .. mode.w
  BY ModeIs
<1> QED BY <1>1 DEF PixelRows, Con!Height, Con!H, Con!Rest, Con!Columns, Con!W

\* A glyph is a cell, and not the one a tab leaves.
LEMMA GlyphIs ==
  ASSUME NEW m \in Modes, NEW ch \in m.chars, NEW k \in Con!Colours, NEW g, g = <<ch, k>>
  PROVE  g \in Cells(m) /\ g # Con!Blank /\ g[1] = ch
  BY ModeIs DEF Cells, Con!Blank

\* put_char adds the glyph.
LEMMA CharacterDrawn ==
  ASSUME NEW rs, NEW scr, NEW a \in Nat, NEW b \in Nat, NEW g \in Cells(mode), g # Con!Blank,
         mode \in Modes, TextAt(mode, rs, a, b), Shows(mode, scr, rs),
         NEW q \in Seq(Cells(mode)), q = Append(rs[b + 1], g),
         NEW qs, ReplacesLast(mode, rs, qs, b, q)
  PROVE  TextAt(mode, qs, a + 1, b) /\ Shows(mode, Con!put_char(scr, g, a, b), qs)
<1>1. PICK p \in Seq(Cells(mode)) : p = rs[b + 1] /\ Len(p) = a
  BY DEF TextAt
<1>2. Len(q) = a + 1
  BY <1>1
<1>3. ASSUME NEW t, NEW c \in Nat
      PROVE  /\ c # a => ShownCell(q, t, c) = ShownCell(p, t, c)
             /\ c = a /\ t \in Lit[g[1]] => ShownCell(q, t, c) = {g}
             /\ c = a /\ t \notin Lit[g[1]] => ShownCell(q, t, c) = {}
  <2>1. /\ p \in Seq(Cells(mode)) /\ g \in Cells(mode) /\ g # Con!Blank
        /\ a \in Nat /\ c \in Nat /\ a = Len(p) /\ q = Longer(p, g)
    BY <1>1 DEF Longer
  <2> QED BY ONLY <2>1, CellAdded
<1>4. ASSUME NEW t, NEW c, c = a PROVE ShownCell(p, t, c) = {}
  BY <1>1, <1>4 DEF ShownCell
<1>5. ASSUME NEW r \in 0 .. PixelRows(mode) - 1, NEW c \in 0 .. mode.scroll - 1
      PROVE  Con!put_char(scr, g, a, b)[r][c] =
               IF c = a /\ LineOf(r) = b /\ RowOf(r) \in Lit[g[1]]
               THEN scr[r][c] \cup {g} ELSE scr[r][c]
  <2>1. r \in 0 .. Con!Height - 1 /\ c \in Con!Columns
    BY PlaceIs
  <2> QED BY <2>1, Zenon DEF Con!put_char, LineOf, RowOf
<1>6. ASSUME NEW r \in 0 .. PixelRows(mode) - 1, NEW c \in 0 .. mode.scroll - 1
      PROVE  /\ LineOf(r) # b => Con!put_char(scr, g, a, b)[r][c] = scr[r][c]
             /\ LineOf(r) = b /\ Matches(mode, RowOf(r), scr[r][c], ShownCell(rs[b + 1], RowOf(r), c))
                  => Matches(mode, RowOf(r), Con!put_char(scr, g, a, b)[r][c], ShownCell(q, RowOf(r), c))
  <2>1. c \in Nat
    BY PlaceIs
  <2>2. PICK new, old : new = Con!put_char(scr, g, a, b)[r][c] /\ old = scr[r][c]
    OBVIOUS
  <2>3. new = IF c = a /\ LineOf(r) = b /\ RowOf(r) \in Lit[g[1]] THEN old \cup {g} ELSE old
    BY <1>5, <2>2, Zenon
  <2>4. /\ c # a => ShownCell(q, RowOf(r), c) = ShownCell(p, RowOf(r), c)
        /\ c = a /\ RowOf(r) \in Lit[g[1]] => ShownCell(q, RowOf(r), c) = {g}
        /\ c = a /\ RowOf(r) \notin Lit[g[1]] => ShownCell(q, RowOf(r), c) = {}
    BY <1>3, <2>1, Zenon
  <2>5. c = a => ShownCell(p, RowOf(r), c) = {}
    BY <1>4, Zenon
  <2>6. LineOf(r) = b /\ Matches(mode, RowOf(r), old, ShownCell(p, RowOf(r), c))
          => Matches(mode, RowOf(r), new, ShownCell(q, RowOf(r), c))
    BY ONLY <2>3, <2>4, <2>5 DEF Matches
  <2>7. LineOf(r) # b => new = old
    BY ONLY <2>3
  <2> QED BY <1>1, <2>2, <2>6, <2>7, Zenon
<1> HIDE DEF Con!put_char
<1>7. Shows(mode, Con!put_char(scr, g, a, b), qs)
  BY <1>6, LastRowShown
<1>8. TextAt(mode, qs, a + 1, b)
  BY <1>2 DEF ReplacesLast
<1> QED BY <1>7, <1>8

\* The black block takes the last character off the screen.
LEMMA BlockDrawn ==
  ASSUME NEW rs, NEW scr, NEW a \in Nat \ {0}, NEW b \in Nat,
         mode \in Modes, TextAt(mode, rs, a, b), Shows(mode, scr, rs),
         NEW q, q = Con!Front(rs[b + 1]),
         NEW qs, ReplacesLast(mode, rs, qs, b, q)
  PROVE  TextAt(mode, qs, a - 1, b) /\ Shows(mode, Con!put_block(scr, a - 1, b), qs)
<1>1. PICK p \in Seq(Cells(mode)) : p = rs[b + 1] /\ Len(p) = a /\ p # <<>>
  BY DEF TextAt
<1>2. q = Con!Front(p)
  BY <1>1
<1>3. Len(q) = a - 1
  BY <1>1, <1>2, CellRemoved
<1>4. ASSUME NEW t, NEW c \in Nat
      PROVE  /\ c = a - 1 => ShownCell(q, t, c) = {}
             /\ c # a - 1 => ShownCell(q, t, c) = ShownCell(p, t, c)
  BY <1>1, <1>2, CellRemoved
<1>5. ASSUME NEW r \in 0 .. PixelRows(mode) - 1, NEW c \in 0 .. mode.scroll - 1
      PROVE  Con!put_block(scr, a - 1, b)[r][c] =
               IF c = a - 1 /\ LineOf(r) = b THEN {} ELSE scr[r][c]
  <2>1. r \in 0 .. Con!Height - 1 /\ c \in Con!Columns
    BY PlaceIs
  <2> QED BY <2>1, Zenon DEF Con!put_block, LineOf
<1>6. ASSUME NEW r \in 0 .. PixelRows(mode) - 1, NEW c \in 0 .. mode.scroll - 1
      PROVE  /\ LineOf(r) # b => Con!put_block(scr, a - 1, b)[r][c] = scr[r][c]
             /\ LineOf(r) = b /\ Matches(mode, RowOf(r), scr[r][c], ShownCell(rs[b + 1], RowOf(r), c))
                  => Matches(mode, RowOf(r), Con!put_block(scr, a - 1, b)[r][c],
                             ShownCell(q, RowOf(r), c))
  <2>1. c \in Nat
    BY PlaceIs
  <2>2. PICK new, old : new = Con!put_block(scr, a - 1, b)[r][c] /\ old = scr[r][c]
    OBVIOUS
  <2>3. new = IF c = a - 1 /\ LineOf(r) = b THEN {} ELSE old
    BY <1>5, <2>2, Zenon
  <2>4. /\ c = a - 1 => ShownCell(q, RowOf(r), c) = {}
        /\ c # a - 1 => ShownCell(q, RowOf(r), c) = ShownCell(p, RowOf(r), c)
    BY <1>4, <2>1, Zenon
  <2>5. LineOf(r) = b /\ Matches(mode, RowOf(r), old, ShownCell(p, RowOf(r), c))
          => Matches(mode, RowOf(r), new, ShownCell(q, RowOf(r), c))
    BY ONLY <2>3, <2>4 DEF Matches
  <2>6. LineOf(r) # b => new = old
    BY ONLY <2>3
  <2> QED BY <1>1, <2>2, <2>5, <2>6, Zenon
<1>7. Shows(mode, Con!put_block(scr, a - 1, b), qs)
  BY <1>6, LastRowShown
<1>8. TextAt(mode, qs, a - 1, b)
  BY <1>3 DEF ReplacesLast
<1> QED BY <1>7, <1>8

\* A line with n blank cells more.
Tabbed(q, n) == q \o [i \in 1 .. n |-> Con!Blank]

\* What it shows.
LEMMA CellsSkipped ==
  ASSUME NEW m, NEW p \in Seq(Cells(m)), NEW n \in Nat, NEW q, q = Tabbed(p, n),
         NEW t, NEW c \in Nat
  PROVE  /\ q \in Seq(Cells(m)) /\ Len(q) = Len(p) + n
         /\ ShownCell(q, t, c) = ShownCell(p, t, c)
<1>1. PICK z \in Seq(Cells(m)) : z = [i \in 1 .. n |-> Con!Blank] /\ Len(z) = n
  <2>1. [i \in 1 .. n |-> Con!Blank] \in [1 .. n -> Cells(m)]
    BY DEF Cells
  <2> QED BY <2>1, FunctionIsSeq
<1>2. \A i \in 1 .. n : z[i] = Con!Blank
  BY <1>1
<1>3. q = p \o z
  BY <1>1 DEF Tabbed
<1>4. PICK a \in Nat : a = Len(p)
  OBVIOUS
<1>5. q \in Seq(Cells(m)) /\ Len(q) = a + n
  BY ONLY <1>1, <1>3, <1>4, p \in Seq(Cells(m)), z \in Seq(Cells(m)), Len(z) = n
<1>6. /\ \A j \in 1 .. a : q[j] = p[j]
      /\ \A j \in 1 .. n : q[a + j] = Con!Blank
  <2>1. /\ \A j \in 1 .. a : q[j] = p[j]
        /\ \A j \in 1 .. n : q[a + j] = z[j]
    BY ONLY <1>1, <1>3, <1>4, p \in Seq(Cells(m)), z \in Seq(Cells(m)), Joined
  <2> QED BY <1>2, <2>1
<1>7. ShownCell(q, t, c) = ShownCell(p, t, c)
  <2>1. CASE c < a
    <3>1. c < Len(q) /\ c < Len(p) /\ q[c + 1] = p[c + 1]
      BY ONLY <1>4, <1>5, <1>6, <2>1, a \in Nat, n \in Nat, c \in Nat
    <3> QED BY <3>1 DEF ShownCell
  <2>2. CASE c >= a /\ c < a + n
    <3>1. c - a + 1 \in 1 .. n /\ a + (c - a + 1) = c + 1 /\ ~ (c < a)
      BY ONLY <2>2, a \in Nat, n \in Nat, c \in Nat
    <3>2. ~ (c < Len(p)) /\ q[c + 1] = Con!Blank
      BY ONLY <1>4, <1>6, <3>1
    <3> QED BY <3>2 DEF ShownCell
  <2>3. CASE c >= a + n
    <3>1. ~ (c < Len(p)) /\ ~ (c < Len(q))
      BY ONLY <1>4, <1>5, <2>3, a \in Nat, n \in Nat, c \in Nat
    <3> QED BY <3>1 DEF ShownCell
  <2>4. c < a \/ (c >= a /\ c < a + n) \/ c >= a + n
    BY ONLY a \in Nat, n \in Nat, c \in Nat
  <2> QED BY <2>1, <2>2, <2>3, <2>4
<1> QED BY <1>4, <1>5, <1>7

\* A tab leaves n blank cells, and shows nothing.
LEMMA TabDrawn ==
  ASSUME NEW rs, NEW scr, NEW a \in Nat, NEW b \in Nat, NEW n \in Nat,
         mode \in Modes, TextAt(mode, rs, a, b), Shows(mode, scr, rs),
         NEW q, q = Tabbed(rs[b + 1], n),
         NEW qs, ReplacesLast(mode, rs, qs, b, q)
  PROVE  TextAt(mode, qs, a + n, b) /\ Shows(mode, scr, qs)
<1>1. PICK p \in Seq(Cells(mode)) : p = rs[b + 1] /\ Len(p) = a
  BY DEF TextAt
<1>2. ASSUME NEW t, NEW c \in Nat PROVE Len(q) = a + n /\ ShownCell(q, t, c) = ShownCell(p, t, c)
  <2>1. p \in Seq(Cells(mode)) /\ n \in Nat /\ q = Tabbed(p, n) /\ a = Len(p) /\ c \in Nat
    BY <1>1
  <2> QED BY ONLY <2>1, CellsSkipped
<1>3. ASSUME NEW r \in 0 .. PixelRows(mode) - 1, NEW c \in 0 .. mode.scroll - 1
      PROVE  ShownCell(rs[b + 1], RowOf(r), c) = ShownCell(q, RowOf(r), c)
  <2>1. c \in Nat
    BY PlaceIs
  <2> QED BY <1>1, <1>2, <2>1
<1>4. Shows(mode, scr, qs)
  BY <1>3, LastRowShown
<1>5. TextAt(mode, qs, a + n, b)
  <2>1. 0 \in Nat
    OBVIOUS
  <2>2. Len(q) = a + n
    BY <1>2, <2>1
  <2> QED BY <2>2 DEF ReplacesLast
<1> QED BY <1>4, <1>5

\* The end of a line: a new line below it, or the screen scrolls.
LEMMA LineEnds ==
  ASSUME NEW rs, NEW scr, NEW a, NEW b \in 0 .. mode.h - 1, mode \in Modes,
         TextAt(mode, rs, a, b), Shows(mode, scr, rs), Con!NextLine(b, scr)
  PROVE  /\ TextAt(mode, Con!NewRow(rs), 0, y') /\ y' \in Nat
         /\ Shows(mode, screen', Con!NewRow(rs))
<1>1. mode.h \in Nat \ {0} /\ mode.scroll \in Nat /\ CellH \in Nat \ {0}
  BY ModeIs
<1>2. rs \in Seq(Seq(Cells(mode))) /\ Len(rs) = b + 1
  BY DEF TextAt
<1>3. PICK all : all = Append(rs, <<>>)
  OBVIOUS
<1>4. /\ all \in Seq(Seq(Cells(mode))) /\ Len(all) = b + 2 /\ all[b + 2] = <<>> /\ all # <<>>
      /\ Con!NewRow(rs) = IF b + 2 > mode.h THEN Tail(all) ELSE all
  BY <1>1, <1>2, <1>3 DEF Con!NewRow, Con!H
<1>5. Shows(mode, scr, all)
  <2>1. ASSUME NEW r \in 0 .. PixelRows(mode) - 1, NEW c \in 0 .. mode.scroll - 1
        PROVE  ShownIn(all, LineOf(r), RowOf(r), c) = ShownIn(rs, LineOf(r), RowOf(r), c)
    <3>1. c \in Nat /\ r \in Nat
      BY PlaceIs
    <3>2. LineOf(r) \in Nat
      BY <3>1, LinesOf
    <3> QED BY <1>2, <1>3, <3>1, <3>2, ShownAppend
  <2> QED BY <2>1 DEF Shows
<1>6. CASE b + 1 = mode.h
  <2>1. y' = b /\ screen' = Con!scroll_screen(scr) /\ Con!NewRow(rs) = Tail(all)
    BY <1>1, <1>4, <1>6 DEF Con!NextLine, Con!H
  <2>2. Shows(mode, Con!scroll_screen(scr), Tail(all))
    <3>1. Len(all) <= mode.h + 1 /\ all[Len(all)] = <<>>
      BY <1>1, <1>4, <1>6
    <3> QED BY <1>4, <1>5, <3>1, Scrolled
  <2>3. TextAt(mode, Tail(all), 0, b)
    <3>1. Tail(all) \in Seq(Seq(Cells(mode))) /\ Len(Tail(all)) = b + 1 /\ Tail(all)[b + 1] = <<>>
      BY <1>4
    <3> QED BY <3>1 DEF TextAt
  <2> QED BY <2>1, <2>2, <2>3
<1>7. CASE b + 1 # mode.h
  <2>1. y' = b + 1 /\ screen' = scr /\ Con!NewRow(rs) = all
    BY <1>1, <1>4, <1>7 DEF Con!NextLine, Con!H
  <2>2. TextAt(mode, all, 0, b + 1)
    BY <1>4 DEF TextAt
  <2> QED BY <1>5, <2>1, <2>2
<1> QED BY <1>6, <1>7

\* What a step leaves of the text.
TextStays ==
  /\ colour' \in Con!Colours /\ mode' = mode
  /\ mode.digits = {} => tmpy' = -1 /\ TextAt(mode, rows', x', y') /\ Shows(mode, screen', rows')

\* A character, and the end of the line it may fill.
LEMMA CharacterStep ==
  ASSUME CursorInv, TextInv, NEW ch \in mode.chars, Con!Character(ch)
  PROVE  TextStays
<1>1. mode \in Modes /\ x \in Nat /\ y \in Nat /\ colour \in Con!Colours
  BY DEF CursorInv, TextInv
<1>2. colour' = colour /\ mode' = mode /\ tmpy' = tmpy
  BY DEF Con!Character
<1> SUFFICES ASSUME mode.digits = {}
             PROVE  tmpy' = -1 /\ TextAt(mode, rows', x', y') /\ Shows(mode, screen', rows')
  BY <1>1, <1>2 DEF TextStays
<1>3. tmpy = -1 /\ TextAt(mode, rows, x, y) /\ Shows(mode, screen, rows) /\ y \in 0 .. mode.h - 1
  BY DEF TextInv, CursorInv
<1>4. PICK g : g = <<ch, colour>>
  OBVIOUS
<1>5. g \in Cells(mode) /\ g # Con!Blank
  BY <1>1, <1>4, GlyphIs
<1>6. PICK p \in Seq(Cells(mode)) : p = rows[y + 1] /\ Len(rows) = y + 1 /\ p = rows[Len(rows)]
  BY <1>1, <1>3 DEF TextAt
<1>7. PICK q \in Seq(Cells(mode)) : q = Append(p, g)
  <2>1. Append(p, g) \in Seq(Cells(mode))
    BY ONLY <1>5, p \in Seq(Cells(mode)), AppendProperties
  <2> QED BY <2>1, Zenon
<1>8. PICK row : row = [rows EXCEPT ![Len(rows)] = Append(@, <<ch, colour>>)]
  OBVIOUS
<1>9. ReplacesLast(mode, rows, row, y, q)
  <2>1. row = [rows EXCEPT ![Len(rows)] = q]
    BY <1>4, <1>6, <1>7, <1>8
  <2> QED BY ONLY <1>1, <1>3, <2>1, q \in Seq(Cells(mode)), LastRow
<1>10. PICK scr : scr = Con!put_char(screen, g, x, y)
  OBVIOUS
<1>11. TextAt(mode, row, x + 1, y) /\ Shows(mode, scr, row)
  <2>1. q = Append(rows[y + 1], g)
    BY <1>6, <1>7
  <2> QED BY ONLY <1>1, <1>3, <1>5, <1>9, <1>10, <2>1, q \in Seq(Cells(mode)), CharacterDrawn
<1>12. \/ x' = 0 /\ Con!NextLine(y, scr) /\ rows' = Con!NewRow(row)
       \/ x' = x + 1 /\ screen' = scr /\ y' = y /\ rows' = row
  BY <1>4, <1>8, <1>10 DEF Con!Character, Con!Write, Con!Digits
<1>13. CASE x' = 0 /\ Con!NextLine(y, scr) /\ rows' = Con!NewRow(row)
  <2>1. TextAt(mode, Con!NewRow(row), 0, y') /\ Shows(mode, screen', Con!NewRow(row))
    BY <1>1, <1>3, <1>11, <1>13, LineEnds
  <2> QED BY <1>2, <1>3, <1>13, <2>1
<1>14. CASE x' = x + 1 /\ screen' = scr /\ y' = y /\ rows' = row
  BY <1>2, <1>3, <1>11, <1>14
<1> QED BY <1>12, <1>13, <1>14

\* A tab.
LEMMA TabStep ==
  ASSUME CursorInv, TextInv, Con!Tab
  PROVE  TextStays
<1>1. mode \in Modes /\ x \in Nat /\ y \in Nat /\ colour \in Con!Colours
  BY DEF CursorInv, TextInv
<1>2. colour' = colour /\ mode' = mode /\ tmpy' = tmpy /\ y' = y /\ screen' = screen
  BY DEF Con!Tab
<1> SUFFICES ASSUME mode.digits = {}
             PROVE  tmpy' = -1 /\ TextAt(mode, rows', x', y') /\ Shows(mode, screen', rows')
  BY <1>1, <1>2 DEF TextStays
<1>3. tmpy = -1 /\ TextAt(mode, rows, x, y) /\ Shows(mode, screen, rows)
  BY DEF TextInv
<1>4. PICK p \in Seq(Cells(mode)) : p = rows[y + 1] /\ Len(rows) = y + 1 /\ p = rows[Len(rows)]
  BY <1>1, <1>3 DEF TextAt
<1>5. PICK n \in Nat : n \in {1, 2} /\ x' = x + n /\ rows' = [rows EXCEPT ![Len(rows)] = Tabbed(@, n)]
  <2> DEFINE n == IF x % 2 = 1 THEN 1 ELSE 2
  <2>1. n \in Nat /\ n \in {1, 2}
    OBVIOUS
  <2>2. x' = x + n /\ rows' = [rows EXCEPT ![Len(rows)] = Tabbed(@, n)]
    BY Zenon DEF Con!Tab, Con!Write, Con!Digits, Tabbed
  <2> HIDE DEF n
  <2> QED BY <2>1, <2>2
<1>6. PICK q : q = Tabbed(p, n)
  OBVIOUS
<1>7. q \in Seq(Cells(mode))
  <2>1. 0 \in Nat
    OBVIOUS
  <2> QED BY ONLY <1>6, <2>1, p \in Seq(Cells(mode)), n \in Nat, CellsSkipped
<1>8. ReplacesLast(mode, rows, rows', y, q)
  <2>1. rows' = [rows EXCEPT ![Len(rows)] = q]
    BY <1>4, <1>5, <1>6
  <2> QED BY ONLY <1>1, <1>3, <1>7, <2>1, LastRow
<1>9. TextAt(mode, rows', x + n, y) /\ Shows(mode, screen, rows')
  <2>1. q = Tabbed(rows[y + 1], n)
    BY <1>4, <1>6
  <2> QED BY ONLY <1>1, <1>3, <1>8, <2>1, n \in Nat, TabDrawn
<1> QED BY <1>2, <1>3, <1>5, <1>9

\* A backspace.
LEMMA BackspaceStep ==
  ASSUME CursorInv, TextInv, Con!Backspace
  PROVE  TextStays
<1>1. mode \in Modes /\ x \in Nat \ {0} /\ y \in Nat /\ colour \in Con!Colours
  BY DEF CursorInv, TextInv, Con!Backspace
<1>2. /\ colour' = colour /\ mode' = mode /\ tmpy' = tmpy /\ y' = y
      /\ x' = x - 1 /\ screen' = Con!put_block(screen, x - 1, y)
  BY DEF Con!Backspace
<1> SUFFICES ASSUME mode.digits = {}
             PROVE  tmpy' = -1 /\ TextAt(mode, rows', x', y') /\ Shows(mode, screen', rows')
  BY <1>1, <1>2 DEF TextStays
<1>3. tmpy = -1 /\ TextAt(mode, rows, x, y) /\ Shows(mode, screen, rows)
  BY DEF TextInv
<1>4. PICK p \in Seq(Cells(mode)) :
        p = rows[y + 1] /\ Len(rows) = y + 1 /\ p = rows[Len(rows)] /\ Len(p) = x /\ p # <<>>
  BY <1>1, <1>3 DEF TextAt
<1>5. PICK q : q = Con!Front(p)
  OBVIOUS
<1>6. q \in Seq(Cells(mode))
  <2>1. 0 \in Nat
    OBVIOUS
  <2> QED BY ONLY <1>4, <1>5, <2>1, p \in Seq(Cells(mode)), CellRemoved
<1>7. ReplacesLast(mode, rows, rows', y, q)
  <2>1. rows' = [rows EXCEPT ![Len(rows)] = IF @ = <<>> THEN @ ELSE Con!Front(@)]
    BY DEF Con!Backspace, Con!Write, Con!Digits
  <2>2. rows' = [rows EXCEPT ![Len(rows)] = q]
    BY <1>4, <1>5, <2>1
  <2> QED BY ONLY <1>1, <1>3, <1>6, <2>2, LastRow
<1>8. TextAt(mode, rows', x - 1, y) /\ Shows(mode, Con!put_block(screen, x - 1, y), rows')
  <2>1. q = Con!Front(rows[y + 1])
    BY <1>4, <1>5
  <2> QED BY ONLY <1>1, <1>3, <1>7, <2>1, BlockDrawn
<1> QED BY <1>2, <1>3, <1>8

\* A scroll under the console, after a whole line was printed.
LEMMA ScrollUnderStep ==
  ASSUME CursorInv, TextInv, Con!ScrollUnder
  PROVE  TextStays
<1>1. mode \in Modes /\ x = 0 /\ y \in Nat /\ colour \in Con!Colours
  BY DEF CursorInv, TextInv, Con!ScrollUnder
<1>2. /\ colour' = colour /\ mode' = mode /\ tmpy' = tmpy /\ y' = y /\ x' = x
      /\ screen' = Con!scroll_screen(screen)
  BY DEF Con!ScrollUnder, Con!cursor
<1> SUFFICES ASSUME mode.digits = {}
             PROVE  tmpy' = -1 /\ TextAt(mode, rows', x', y') /\ Shows(mode, screen', rows')
  BY <1>1, <1>2 DEF TextStays
<1>3. tmpy = -1 /\ TextAt(mode, rows, x, y) /\ Shows(mode, screen, rows) /\ y \in 0 .. mode.h - 1
  BY DEF TextInv, CursorInv
<1>4. mode.h \in Nat \ {0} /\ CellH \in Nat \ {0}
  BY <1>1, ModeIs
<1>5. /\ rows \in Seq(Seq(Cells(mode))) /\ Len(rows) = y + 1 /\ rows[y + 1] = <<>> /\ rows # <<>>
      /\ Len(rows) <= mode.h + 1 /\ rows[Len(rows)] = <<>>
  BY <1>1, <1>3, <1>4 DEF TextAt
<1>6. PICK rest : rest = Tail(rows)
  OBVIOUS
<1>7. Shows(mode, Con!scroll_screen(screen), rest)
  BY <1>1, <1>3, <1>5, <1>6, Scrolled
<1>8. rest \in Seq(Seq(Cells(mode))) /\ Len(rest) = y /\ \A k \in 1 .. y : rest[k] = rows[k + 1]
  BY <1>1, <1>5, <1>6
<1>9. ASSUME NEW r \in 0 .. PixelRows(mode) - 1, NEW c \in 0 .. mode.scroll - 1
      PROVE  r \in Nat /\ c \in Nat /\ LineOf(r) \in Nat
  <2>1. r \in Nat /\ c \in Nat
    BY <1>1, PlaceIs
  <2> QED BY <1>1, <2>1, LinesOf
<1>10. rows' = IF Len(rows) = 1 THEN rows ELSE Append(rest, <<>>)
  BY <1>6 DEF Con!ScrollUnder, Con!Write, Con!Digits
<1>11. CASE Len(rows) = 1
  <2>1. \A l, t \in Nat : \A c \in Nat : ShownIn(rows, l, t, c) = {} /\ ShownIn(rest, l, t, c) = {}
    <3> SUFFICES ASSUME NEW l \in Nat, NEW t \in Nat, NEW c \in Nat
                 PROVE  ShownIn(rows, l, t, c) = {} /\ ShownIn(rest, l, t, c) = {}
      OBVIOUS
    <3>1. y = 0 /\ Len(rest) = 0
      <4>1. Len(rows) = y + 1 /\ Len(rest) = y /\ y \in Nat
        BY <1>1, <1>5, <1>8, Zenon
      <4>2. \A n \in Nat : n + 1 = 1 => n = 0
        OBVIOUS
      <4>3. y + 1 = 1
        BY <1>11, <4>1, Zenon
      <4> QED BY <4>1, <4>2, <4>3, Zenon
    <3>2. (l < Len(rows) => l = y) /\ ~ (l < Len(rest))
      BY ONLY <1>11, <3>1, l \in Nat
    <3>3. l < Len(rows) => rows[l + 1] = <<>>
      BY ONLY <1>5, <3>2
    <3>4. ~ (c < Len(<<>>))
      BY ONLY c \in Nat
    <3> QED BY ONLY <3>2, <3>3, <3>4 DEF ShownIn
  <2>2. \A r \in 0 .. PixelRows(mode) - 1 : RowOf(r) \in Nat
    BY <1>4 DEF RowOf
  <2>3. Shows(mode, Con!scroll_screen(screen), rows)
    BY <1>7, <1>9, <2>1, <2>2 DEF Shows
  <2> QED BY <1>2, <1>3, <1>10, <1>11, <2>3
<1>12. CASE Len(rows) # 1
  <2>1. PICK new : new = Append(rest, <<>>)
    OBVIOUS
  <2>2. new \in Seq(Seq(Cells(mode))) /\ Len(new) = y + 1 /\ new[y + 1] = <<>>
    BY <1>8, <2>1
  <2>3. TextAt(mode, new, 0, y)
    BY <2>2 DEF TextAt
  <2>4. ASSUME NEW r \in 0 .. PixelRows(mode) - 1, NEW c \in 0 .. mode.scroll - 1
        PROVE  ShownIn(new, LineOf(r), RowOf(r), c) = ShownIn(rest, LineOf(r), RowOf(r), c)
    BY <1>8, <1>9, <2>1, ShownAppend
  <2>5. Shows(mode, Con!scroll_screen(screen), new)
    BY <1>7, <2>4 DEF Shows
  <2> QED BY <1>1, <1>2, <1>3, <1>10, <1>12, <2>1, <2>3, <2>5
<1> QED BY <1>11, <1>12

\* Every step keeps the text on the screen.
LEMMA TextNext == CursorInv /\ TextInv /\ [Con!Next]_Con!vars => TextInv'
<1> SUFFICES ASSUME CursorInv, TextInv, [Con!Next]_Con!vars PROVE TextStays
  BY DEF TextStays, TextInv
<1>1. CASE \E ch \in Con!Chars : Con!Character(ch)
  BY <1>1, CharacterStep DEF Con!Chars
<1>2. CASE Con!Tab
  BY <1>2, TabStep
<1>3. CASE Con!Backspace
  BY <1>3, BackspaceStep
<1>4. CASE Con!Newline
  <2>1. x' = 0 /\ tmpy' = -1 /\ colour' = Con!White /\ mode' = mode
    BY <1>4 DEF Con!Newline
  <2>2. colour' \in Con!Colours
    BY <2>1 DEF Con!Colours
  <2>3. ASSUME mode.digits = {} PROVE TextAt(mode, rows', x', y') /\ Shows(mode, screen', rows')
    <3>1. tmpy = -1 /\ TextAt(mode, rows, x, y) /\ Shows(mode, screen, rows)
          /\ mode \in Modes /\ y \in 0 .. mode.h - 1
      BY <2>3 DEF TextInv, CursorInv
    <3>2. Con!NextLine(y, screen) /\ rows' = Con!NewRow(rows)
      BY <1>4, <2>3, <3>1 DEF Con!Newline, Con!SavedLine, Con!Write, Con!Digits
    <3> QED BY <2>1, <2>3, <3>1, <3>2, LineEnds
  <2> QED BY <2>1, <2>2, <2>3 DEF TextStays
<1>5. CASE Con!SetColour
  BY <1>5 DEF Con!SetColour, Con!cursor, TextInv, TextStays
<1>6. CASE Con!Move
  <2>1. colour' = colour /\ mode' = mode /\ mode.digits # {}
    BY <1>6 DEF Con!Move, Con!Digits, Con!Up, Con!Down, Con!Right, Con!Left
  <2> QED BY <2>1 DEF TextInv, TextStays
<1>7. CASE Con!ScrollUnder
  BY <1>7, ScrollUnderStep
<1>8. CASE UNCHANGED Con!vars
  BY <1>8 DEF Con!vars, TextInv, TextStays
<1> QED BY <1>1, <1>2, <1>3, <1>4, <1>5, <1>6, <1>7, <1>8 DEF Con!Next, Con!put_console

\* A cleared screen shows the empty text.
LEMMA TextInit == Con!Init => TextInv
<1> SUFFICES ASSUME Con!Init PROVE TextInv
  OBVIOUS
<1>1. mode \in Modes /\ x = 0 /\ y = 0 /\ tmpy = -1 /\ colour = Con!White /\ rows = << <<>> >>
  BY DEF Con!Init
<1>2. TextAt(mode, rows, x, y)
  BY <1>1 DEF TextAt
<1>3. ASSUME NEW r \in 0 .. PixelRows(mode) - 1, NEW c \in 0 .. mode.scroll - 1
      PROVE  Matches(mode, RowOf(r), screen[r][c], ShownIn(rows, LineOf(r), RowOf(r), c))
  <2>1. r \in 0 .. Con!Height - 1 /\ c \in Con!Columns /\ r \in Nat /\ c \in Nat
    BY <1>1, PlaceIs
  <2>2. screen[r][c] = {}
    BY <2>1 DEF Con!Init
  <2>3. LineOf(r) \in Nat
    BY <1>1, <2>1, LinesOf
  <2>4. LineOf(r) < Len(rows) => rows[LineOf(r) + 1] = <<>>
    BY <1>1, <2>3
  <2>5. ~ (c < Len(<<>>))
    BY <2>1
  <2>6. ShownIn(rows, LineOf(r), RowOf(r), c) = {}
    BY <2>4, <2>5 DEF ShownIn
  <2> QED BY <2>2, <2>6 DEF Matches
<1> QED BY <1>1, <1>2, <1>3 DEF TextInv, Shows, Con!Colours

\* What TextInv says in the words of Console.
LEMMA TextIsShown == CursorInv /\ TextInv => ShowsText
<1> SUFFICES ASSUME CursorInv, TextInv, Con!Digits = {}
             PROVE  /\ Len(rows) = y + 1
                    /\ \A r \in 0 .. Con!Height - 1, c \in 0 .. Con!ScrollCols - 1 :
                         /\ Con!Shown(r, c) \subseteq screen[r][c]
                         /\ r % CellH # Con!Rest => screen[r][c] = Con!Shown(r, c)
  BY DEF ShowsText, Con!ShowsText
<1>1. TextAt(mode, rows, x, y) /\ Shows(mode, screen, rows)
  BY DEF TextInv, Con!Digits
<1>2. Con!Height = PixelRows(mode) /\ Con!ScrollCols = mode.scroll
  BY DEF Con!Height, PixelRows, Con!H, Con!Rest, Con!ScrollCols
<1>3. ASSUME NEW r, NEW c PROVE Con!Shown(r, c) = ShownIn(rows, LineOf(r), RowOf(r), c)
  BY Zenon DEF Con!Shown, ShownIn, LineOf, RowOf
<1>4. ASSUME NEW r \in 0 .. PixelRows(mode) - 1, NEW c \in 0 .. mode.scroll - 1
      PROVE  /\ Con!Shown(r, c) \subseteq screen[r][c]
             /\ r % CellH # Con!Rest => screen[r][c] = Con!Shown(r, c)
  <2>1. Matches(mode, RowOf(r), screen[r][c], Con!Shown(r, c))
    BY <1>1, <1>3 DEF Shows
  <2> QED BY <2>1, Zenon DEF Matches, RowOf, Con!Rest
<1> QED BY <1>1, <1>2, <1>4 DEF TextAt

\* In the columns that scroll, the screen shows the last lines put_console was
\* given, in their colours, after any text of characters, tabs, backspaces,
\* newlines and colours, wherever it wraps or scrolls: on a screen of any size and
\* in any font.  It shows nothing else but in one pixel row of each cell, the one
\* that scroll_screen neither moves out of the last line nor clears.
THEOREM ShowsTextHolds == Con!Spec => []ShowsText
<1>1. Con!Init => TextInv
  BY TextInit
<1>2. CursorInv /\ TextInv => ShowsText
  BY TextIsShown
<1> QED BY <1>1, <1>2, CursorHolds, TextNext, PTL DEF Con!Spec
====
