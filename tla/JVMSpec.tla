------------------------------ MODULE JVMSpec ------------------------------
(***************************************************************************)
(* What a Java virtual machine does with the int-only subset of bytecode   *)
(* that TeenyJVM (src/project01-kweng/jvm.c) runs: the JVM specification's *)
(* meaning of each instruction, on decoded instructions whose jump targets *)
(* are instruction indices.  A program is a class: its methods, each a     *)
(* sequence of instructions with its parameter count, and its constant     *)
(* pool.  Ints are IntBits wide and wrap, as Java's do at 32 bits.         *)
(*                                                                         *)
(* TeenyJVM has no objects, so System.out is not a value here: getstatic   *)
(* of it does nothing and println(int) prints the top of the stack.  An    *)
(* ArithmeticException (division by zero) ends the program, as an uncaught *)
(* exception does.                                                         *)
(***************************************************************************)
EXTENDS Integers, Sequences

CONSTANTS
    Programs,   \* the classes that may be run
    IntBits,    \* width of int
    Junk        \* the contents of a local no instruction has stored to

ASSUME IntBits \in 2..24

\* A w-bit two's-complement integer is wrapped into its range.
MinInt == -(2^(IntBits - 1))
WrapInt(v) == ((v - MinInt) % 2^IntBits) + MinInt

\* Multiplication modulo 2^IntBits, by halving the second factor, so that
\* no intermediate value leaves the range TLC computes in.
RECURSIVE MulMod(_, _)
MulMod(a, k) ==
    IF k = 0 THEN 0
    ELSE WrapInt(2 * MulMod(a, k \div 2) + (k % 2) * a)
Times(a, b) == MulMod(a, b % 2^IntBits)

\* Java's / and % truncate toward zero; MinInt / -1 wraps to MinInt.
Quo(a, b) == LET q == (IF a < 0 THEN -a ELSE a) \div (IF b < 0 THEN -b ELSE b)
             IN  IF (a < 0) = (b < 0) THEN q ELSE -q
JavaArith(o, a, b) ==
    CASE o = "add" -> WrapInt(a + b)
      [] o = "sub" -> WrapInt(a - b)
      [] o = "mul" -> Times(a, b)
      [] o = "div" -> WrapInt(Quo(a, b))
      [] o = "rem" -> a - Quo(a, b) * b

Holds(c, a, b) ==
    CASE c = "eq" -> a = b  [] c = "ne" -> a # b  [] c = "lt" -> a < b
      [] c = "ge" -> a >= b [] c = "gt" -> a > b  [] c = "le" -> a <= b

VARIABLES
    prog,     \* the class being run
    frames,   \* the Java stack: one frame [m, pc, stack, locals] per call
    out,      \* the ints println has printed
    status    \* "run", "done" or "arith" (uncaught ArithmeticException)

vars == <<prog, frames, out, status>>

Code(m) == prog.methods[m].code
Top == frames[Len(frames)]
Ins == Code(Top.m)[Top.pc + 1]
Callers == SubSeq(frames, 1, Len(frames) - 1)

\* The top frame replaced by fr.
SetTop(fr) == frames' = Callers \o <<fr>>
Next1(fr) == [fr EXCEPT !.pc = @ + 1]
Push(fr, v) == [fr EXCEPT !.stack = Append(@, v)]
Pop(fr, k) == [fr EXCEPT !.stack = SubSeq(@, 1, Len(@) - k)]
Peek(fr, k) == fr.stack[Len(fr.stack) - k]

Init ==
    /\ prog \in Programs
    /\ frames = << [m |-> "main", pc |-> 0, stack |-> <<>>,
                    locals |-> [i \in 0 .. prog.methods["main"].locals - 1
                                  |-> Junk]] >>
    /\ out = <<>>
    /\ status = "run"

\* One instruction of the top frame, other than a call or a return.
Simple ==
    LET i == Ins  fr == Top IN
    /\ i.op \notin {"invokestatic", "ireturn", "return"}
    /\ UNCHANGED prog
    /\ IF i.op \in {"div", "rem"} /\ Peek(fr, 0) = 0
         THEN status' = "arith" /\ UNCHANGED <<frames, out>>
         ELSE
         /\ UNCHANGED status
         /\ out' = IF i.op = "println" THEN Append(out, Peek(fr, 0)) ELSE out
         /\ SetTop(CASE i.op = "push"   -> Next1(Push(fr, i.arg))
                     [] i.op = "ldc"    -> Next1(Push(fr, prog.cp[i.arg].value))
                     [] i.op = "load"   -> Next1(Push(fr, fr.locals[i.arg]))
                     [] i.op = "store"  ->
                          Next1([Pop(fr, 1) EXCEPT !.locals[i.arg] = Peek(fr, 0)])
                     [] i.op \in {"add", "sub", "mul", "div", "rem"} ->
                          Next1(Push(Pop(fr, 2),
                                     JavaArith(i.op, Peek(fr, 1), Peek(fr, 0))))
                     [] i.op = "neg"    ->
                          Next1(Push(Pop(fr, 1), WrapInt(-Peek(fr, 0))))
                     [] i.op = "iinc"   ->
                          Next1([fr EXCEPT !.locals[i.arg[1]] =
                                             WrapInt(@ + i.arg[2])])
                     [] i.op = "if"     ->
                          [Pop(fr, 1) EXCEPT !.pc =
                             IF Holds(i.arg[1], Peek(fr, 0), 0) THEN i.arg[2]
                             ELSE @ + 1]
                     [] i.op = "if_icmp" ->
                          [Pop(fr, 2) EXCEPT !.pc =
                             IF Holds(i.arg[1], Peek(fr, 1), Peek(fr, 0))
                             THEN i.arg[2] ELSE @ + 1]
                     [] i.op = "goto"   -> [fr EXCEPT !.pc = i.arg]
                     [] i.op = "getstatic" -> Next1(fr)
                     [] i.op = "println"   -> Next1(Pop(fr, 1)))

\* invokestatic: the arguments move, in order, into the callee's first locals.
Invoke ==
    LET i == Ins  fr == Top
        callee == prog.cp[i.arg].method
        n == prog.methods[callee].params
    IN
    /\ i.op = "invokestatic"
    /\ frames' = Callers \o << Pop(fr, n),
                    [m |-> callee, pc |-> 0, stack |-> <<>>,
                     locals |-> [k \in 0 .. prog.methods[callee].locals - 1 |->
                                   IF k < n THEN fr.stack[Len(fr.stack) - n + k + 1]
                                   ELSE Junk]] >>
    /\ UNCHANGED <<prog, out, status>>

\* ireturn and return: the frame goes, and the caller resumes after its call,
\* with the int returned on its stack.  Returning from main ends the run.
Return ==
    LET i == Ins IN
    /\ i.op \in {"ireturn", "return"}
    /\ IF Len(frames) = 1
         THEN status' = "done" /\ frames' = <<>>
         ELSE LET caller == frames[Len(frames) - 1]
                  resumed == IF i.op = "ireturn" THEN Push(caller, Peek(Top, 0))
                             ELSE caller
              IN  /\ frames' = SubSeq(frames, 1, Len(frames) - 2) \o <<Next1(resumed)>>
                  /\ UNCHANGED status
    /\ UNCHANGED <<prog, out>>

Next == status = "run" /\ (Simple \/ Invoke \/ Return)

\* A JVM thread that can run does: the program runs until it ends.
Spec == Init /\ [][Next]_vars /\ WF_vars(Next)

====
