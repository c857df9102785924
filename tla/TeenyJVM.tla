------------------------------ MODULE TeenyJVM ------------------------------
(***************************************************************************)
(* TeenyJVM, src/project01-kweng/jvm.c: execute() runs a method's bytecode *)
(* with a byte pc, an operand stack of max_stack ints (a C VLA) and the    *)
(* locals array it is given, and calls itself for invokestatic; main()     *)
(* runs the class's main method with uninitialized locals.                 *)
(*                                                                         *)
(* The class is read by get_class (read_class.c, not in the repository):   *)
(* a class here is the record that call gives, [methods, cp], each method  *)
(* with its code bytes, max_stack, max_locals and the parameter count that *)
(* get_number_of_parameters reads from its descriptor.  src is the Java    *)
(* program the class was compiled from; the interpreter never reads it,   *)
(* and it serves only to state what the run should do.                     *)
(*                                                                         *)
(* The C recursion of execute is the sequence frames, one per active call. *)
(* Signed overflow in add, subtract, multiply and the negation is          *)
(* undefined in C; the build (gcc, no -ftrapv) wraps, and so does the      *)
(* model.  x86 idiv traps on a zero divisor and on MinInt / -1 (SIGFPE).   *)
(* An access past the stack VLA, or an int method returning into main, is  *)
(* undefined behaviour or an assertion and ends the run as "ub".           *)
(***************************************************************************)
EXTENDS Integers, Sequences

CONSTANTS
    Programs,    \* the Java programs, as JVMSpec reads them
    Javac(_),    \* the class file javac makes of a program
    IntBits,     \* width of int32_t (narrowed for TLC; at least 17)
    Junk         \* an uninitialized int

ASSUME IntBits \in 17..24

\* Opcodes (jvm.h, not in the repository, names them; the values are the
\* JVM specification's).
i_iconst_m1 == 2
i_iconst_5 == 8
i_bipush == 16
i_sipush == 17
i_ldc == 18
i_iload == 21
i_iload_0 == 26
i_iload_3 == 29
i_istore == 54
i_istore_0 == 59
i_istore_3 == 62
i_iadd == 96
i_irem == 112
i_ineg == 116
i_iinc == 132
i_ifeq == 153
i_ifle == 158
i_if_icmpeq == 159
i_if_icmple == 164
i_goto == 167
i_ireturn == 172
i_return == 177
i_getstatic == 178
i_invokevirtual == 182
i_invokestatic == 184

MinInt == -(2^(IntBits - 1))
WrapInt(v) == ((v - MinInt) % 2^IntBits) + MinInt
Int8(b) == IF b >= 128 THEN b - 256 ELSE b
Int16(v) == IF v >= 2^15 THEN v - 2^16 ELSE v

VARIABLES
    src,      \* the Java program (history: fixed by Init)
    class,    \* the class file get_class read
    frames,   \* one [m, pc, stack, locals] per active execute() call
    out,      \* the ints printed by invokevirtual
    status    \* "run", "done", "sigfpe" or "ub"

vars == <<src, class, frames, out, status>>

Method(m) == class.methods[m]
Top == frames[Len(frames)]
Callers == SubSeq(frames, 1, Len(frames) - 1)
\* method->code.code[pc + k]
Byte(k) == Method(Top.m).code[Top.pc + k + 1]
Peek(fr, k) == fr.stack[Len(fr.stack) - k]
Push(fr, v) == [fr EXCEPT !.stack = Append(@, v)]
Pop(fr, k) == [fr EXCEPT !.stack = SubSeq(@, 1, Len(@) - k)]
\* The operand bytes consumed, then the loop's pc++.
Advance(fr, k) == [fr EXCEPT !.pc = @ + k + 1]

const_offset == 3
load_offset == 26
store_offset == 59
arithmetic_offset == 96
jump_zero_offset == 153
jump_offset == 159

\* The arithmetic[] and compare[] tables of function pointers.
arithmetic == <<"add", "subtract", "multiply", "divide", "remain">>
compare == <<"eq", "ne", "lt", "ge", "gt", "le">>

\* C's / truncates toward zero, and % takes the sign of the dividend.
CQuo(a, b) == LET q == (IF a < 0 THEN -a ELSE a) \div (IF b < 0 THEN -b ELSE b)
              IN  IF (a < 0) = (b < 0) THEN q ELSE -q
RECURSIVE MulWrap(_, _)
MulWrap(a, k) == IF k = 0 THEN 0
                 ELSE WrapInt(2 * MulWrap(a, k \div 2) + (k % 2) * a)
Apply(f, a, b) ==
    CASE f = "add"      -> WrapInt(a + b)
      [] f = "subtract" -> WrapInt(a - b)
      [] f = "multiply" -> MulWrap(a, b % 2^IntBits)
      [] f = "divide"   -> CQuo(a, b)
      [] f = "remain"   -> a - CQuo(a, b) * b
Traps(f, a, b) == f \in {"divide", "remain"} /\ (b = 0 \/ (a = MinInt /\ b = -1))
Compare(c, a, b) ==
    CASE c = "eq" -> a = b  [] c = "ne" -> a # b  [] c = "lt" -> a < b
      [] c = "ge" -> a >= b [] c = "gt" -> a > b  [] c = "le" -> a <= b

\* A conditional_jump that forgets the loop's pc++ after it.
JumpUnadjusted(condition, pc) ==
    IF condition THEN pc + Int16(Byte(1) * 256 + Byte(2)) ELSE pc + 2

\* conditional_jump: the signed 16-bit offset, less the loop's pc++.
conditional_jump(condition, pc) ==
    IF condition THEN pc + Int16(Byte(1) * 256 + Byte(2)) - 1 ELSE pc + 2

\* The ints the instruction at pc reads from the stack, and what it pushes.
Reads(op) ==
    CASE op \in {i_istore, i_ineg, i_invokevirtual, i_ireturn}
              \/ op \in i_istore_0 .. i_istore_3 \/ op \in i_ifeq .. i_ifle -> 1
      [] op \in i_iadd .. i_irem \/ op \in i_if_icmpeq .. i_if_icmple -> 2
      [] op = i_invokestatic ->
           Method(class.cp[Byte(1) * 256 + Byte(2)].method).params
      [] OTHER -> 0
Pushes(op) ==
    IF op \in i_iconst_m1 .. i_ldc \/ op = i_iload \/ op \in i_iload_0 .. i_iload_3
    THEN 1 ELSE 0

\* The cases of execute()'s switch that stay in the method, as the new frame.
Simple(fr, op) ==
    CASE op \in i_iconst_m1 .. i_iconst_5 -> Advance(Push(fr, op - const_offset), 0)
      [] op = i_bipush -> Advance(Push(fr, Int8(Byte(1))), 1)
      [] op = i_sipush ->
           \* (int16_t)(hi << 8) | (int16_t)lo: the low byte is or-ed into zeros
           Advance(Push(fr, Int16(Byte(1) * 256) + Byte(2)), 2)
      [] op = i_ldc -> Advance(Push(fr, class.cp[Byte(1)].bytes), 1)
      [] op = i_iload -> Advance(Push(fr, fr.locals[Byte(1)]), 1)
      [] op \in i_iload_0 .. i_iload_3 ->
           Advance(Push(fr, fr.locals[op - load_offset]), 0)
      [] op = i_istore ->
           Advance([Pop(fr, 1) EXCEPT !.locals[Byte(1)] = Peek(fr, 0)], 1)
      [] op \in i_istore_0 .. i_istore_3 ->
           Advance([Pop(fr, 1) EXCEPT !.locals[op - store_offset] = Peek(fr, 0)], 0)
      [] op \in i_iadd .. i_irem ->
           Advance(Push(Pop(fr, 2),
                        Apply(arithmetic[(op - arithmetic_offset) \div 4 + 1],
                              Peek(fr, 1), Peek(fr, 0))), 0)
      [] op = i_ineg -> Advance(Push(Pop(fr, 1), WrapInt(Peek(fr, 0) * (-1))), 0)
      [] op = i_iinc ->
           Advance([fr EXCEPT !.locals[Byte(1)] = WrapInt(@ + Int8(Byte(2)))], 2)
      [] op \in i_ifeq .. i_ifle ->
           [Pop(fr, 1) EXCEPT !.pc = conditional_jump(
                Compare(compare[op - jump_zero_offset + 1], Peek(fr, 0), 0), @) + 1]
      [] op \in i_if_icmpeq .. i_if_icmple ->
           [Pop(fr, 2) EXCEPT !.pc = conditional_jump(
                Compare(compare[op - jump_offset + 1], Peek(fr, 1), Peek(fr, 0)), @) + 1]
      [] op = i_goto -> [fr EXCEPT !.pc = conditional_jump(TRUE, @) + 1]
      [] op = i_getstatic -> Advance(fr, 2)
      [] op = i_invokevirtual -> Advance(Pop(fr, 1), 2)
      [] OTHER -> Advance(fr, 0)   \* "Unrecognized opcode."

Init ==
    /\ src \in Programs
    /\ class = Javac(src)
    /\ frames = << [m |-> "main", pc |-> 0, stack |-> <<>>,
                    locals |-> [i \in 0 .. Method("main").max_locals - 1 |-> Junk]] >>
    /\ out = <<>>
    /\ status = "run"

\* One pass of execute()'s loop for every instruction but a call or return.
\* Reading below the stack or writing past max_stack is undefined ("ub").
Execute ==
    LET op == Byte(0)  fr == Top IN
    /\ status = "run"
    /\ op \notin {i_return, i_ireturn, i_invokestatic}
    /\ UNCHANGED <<src, class>>
    /\ IF Len(fr.stack) < Reads(op)
          \/ Len(fr.stack) - Reads(op) + Pushes(op) > Method(fr.m).max_stack
         THEN status' = "ub" /\ UNCHANGED <<frames, out>>
       ELSE IF op \in i_iadd .. i_irem
               /\ Traps(arithmetic[(op - arithmetic_offset) \div 4 + 1],
                        Peek(fr, 1), Peek(fr, 0))
         THEN status' = "sigfpe" /\ UNCHANGED <<frames, out>>
       ELSE /\ frames' = Callers \o <<Simple(fr, op)>>
            /\ out' = IF op = i_invokevirtual THEN Append(out, Peek(fr, 0)) ELSE out
            /\ UNCHANGED status

\* invokestatic: a locals array of the callee's max_locals (malloc, so junk),
\* the parameters popped into it last first, and a recursive execute().
InvokeStatic ==
    LET fr == Top
        next == class.cp[Byte(1) * 256 + Byte(2)].method
        params == Method(next).params
    IN
    /\ status = "run"
    /\ Byte(0) = i_invokestatic
    /\ UNCHANGED <<src, class, out>>
    /\ IF Len(fr.stack) < params
         THEN status' = "ub" /\ UNCHANGED frames
         ELSE /\ frames' = Callers \o << Pop(fr, params),
                   [m |-> next, pc |-> 0, stack |-> <<>>,
                    locals |-> [k \in 0 .. Method(next).max_locals - 1 |->
                                  IF k < params
                                  THEN fr.stack[Len(fr.stack) - params + k + 1]
                                  ELSE Junk]] >>
              /\ UNCHANGED status

\* execute() returns: NULL when the loop meets i_return, a malloc'd int on
\* i_ireturn.  The caller frees the callee's locals, moves past its call
\* (pc += 2, pc++) and pushes the int; main() asserts it got NULL.
ExecuteReturns ==
    LET op == Byte(0)  fr == Top IN
    /\ status = "run"
    /\ op \in {i_return, i_ireturn}
    /\ UNCHANGED <<src, class, out>>
    /\ IF op = i_ireturn /\ Len(fr.stack) < 1
         THEN status' = "ub" /\ UNCHANGED frames
       ELSE IF Len(frames) = 1
         THEN frames' = <<>> /\ status' = IF op = i_return THEN "done" ELSE "ub"
       ELSE LET caller == frames[Len(frames) - 1]
                back == IF op = i_ireturn THEN Push(caller, Peek(fr, 0)) ELSE caller
            IN  IF Len(back.stack) > Method(caller.m).max_stack
                  THEN status' = "ub" /\ UNCHANGED frames
                  ELSE /\ frames' = SubSeq(frames, 1, Len(frames) - 2)
                                      \o <<Advance(back, 2)>>
                       /\ UNCHANGED status

Next == Execute \/ InvokeStatic \/ ExecuteReturns

\* The interpreter is one thread that runs whenever it can step.
Spec == Init /\ [][Next]_vars /\ WF_vars(Next)

====
