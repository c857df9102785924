----------------------------- MODULE MCTeenyJVM -----------------------------
(***************************************************************************)
(* TeenyJVM on every program of a small family of Java classes, checked to *)
(* implement JVMSpec.                                                      *)
(*                                                                         *)
(*   static int diff(int a, int b) { return a - b; }                       *)
(*   static int tri(int n) { if (n <= 0) return 0; return n + tri(n-1); }  *)
(*   static int spread(int a, int b, int c, int d)                         *)
(*       { int e = d - a; return e * b + c; }                              *)
(*   public static void main(String[] args) {                              *)
(*       int x = <X>; int y = <Y>; <up to MaxBody statements> }            *)
(*                                                                         *)
(* X is -1, -100, -300, 5 or Integer.MAX_VALUE (an ldc), Y is 2, 200 or    *)
(* -7, so that iconst, bipush, sipush and ldc all occur with both signs.   *)
(* The statements are those of Body below.  Javac encodes a program as     *)
(* javac does: the short forms of iconst, iload and istore, 16-bit jump    *)
(* offsets relative to the jump, and a constant pool in which spread sits  *)
(* at index 300, so that invokestatic's index has a high byte.             *)
(***************************************************************************)
EXTENDS TeenyJVM, TLC

CONSTANT MaxBody

\* Instructions as JVMSpec reads them; jumps in a statement are relative to
\* its first instruction until the statement is placed.
I(o) == [op |-> o, arg |-> 0]
IA(o, a) == [op |-> o, arg |-> a]

MaxIntValue == 2^(IntBits - 1) - 1
ConstPool == (1 :> [value |-> MaxIntValue]) @@ (2 :> [field |-> "out"])
             @@ (3 :> [method |-> "println"]) @@ (4 :> [method |-> "diff"])
             @@ (5 :> [method |-> "tri"]) @@ (300 :> [method |-> "spread"])

Helpers ==
    ("diff" :> [code |-> <<IA("load", 0), IA("load", 1), I("sub"), I("ireturn")>>,
                params |-> 2, locals |-> 2, stack |-> 2])
 @@ ("tri" :> [code |-> <<IA("load", 0), IA("if", <<"gt", 4>>), IA("push", 0),
                         I("ireturn"), IA("load", 0), IA("load", 0), IA("push", 1),
                         I("sub"), IA("invokestatic", 5), I("add"), I("ireturn")>>,
               params |-> 1, locals |-> 1, stack |-> 3])
 @@ ("spread" :> [code |-> <<IA("load", 3), IA("load", 0), I("sub"), IA("store", 4),
                            IA("load", 4), IA("load", 1), I("mul"), IA("load", 2),
                            I("add"), I("ireturn")>>,
                  params |-> 4, locals |-> 5, stack |-> 2])

InitX == { <<IA("push", v), IA("store", 1)>> : v \in {-1, -100, -300, 5} }
         \cup { <<IA("ldc", 1), IA("store", 1)>> }
InitY == { <<IA("push", v), IA("store", 2)>> : v \in {2, 200, -7} }

PrintlnX == <<I("getstatic"), IA("load", 1), I("println")>>
\* y = spread(y, x, 3, x);
SpreadCall == <<IA("load", 2), IA("load", 1), IA("push", 3), IA("load", 1),
                IA("invokestatic", 300), IA("store", 2)>>
Body ==
  { PrintlnX,
    \* y = diff(x, y);
    <<IA("load", 1), IA("load", 2), IA("invokestatic", 4), IA("store", 2)>>,
    \* y = tri(x % 4);
    <<IA("load", 1), IA("push", 4), I("rem"), IA("invokestatic", 5), IA("store", 2)>>,
    SpreadCall,
    \* while (x > 0) { System.out.println(x); x = x / 2; }
    <<IA("load", 1), IA("if", <<"le", 10>>)>> \o PrintlnX
      \o <<IA("load", 1), IA("push", 2), I("div"), IA("store", 1), IA("goto", 0)>>,
    \* y = y * x;
    <<IA("load", 2), IA("load", 1), I("mul"), IA("store", 2)>>,
    \* if (x < y) y = -y;
    <<IA("load", 1), IA("load", 2), IA("if_icmp", <<"ge", 6>>), IA("load", 2),
      I("neg"), IA("store", 2)>>,
    \* x -= 3;
    <<IA("iinc", <<1, -3>>)>>,
    \* y = y / x;   (x is 0 after the loop: ArithmeticException, SIGFPE)
    <<IA("load", 2), IA("load", 1), I("div"), IA("store", 2)>> }

Jumps == {"if", "if_icmp", "goto"}
Target(i) == IF i.op = "goto" THEN i.arg ELSE i.arg[2]
Moved(i, d) ==
    CASE i.op = "goto" -> [i EXCEPT !.arg = @ + d]
      [] i.op \in {"if", "if_icmp"} -> [i EXCEPT !.arg[2] = @ + d]
      [] OTHER -> i

\* The statements placed one after another, their jumps made absolute.
RECURSIVE Place(_, _)
Place(ss, d) ==
    IF ss = <<>> THEN <<>>
    ELSE [k \in 1 .. Len(Head(ss)) |-> Moved(Head(ss)[k], d)]
           \o Place(Tail(ss), d + Len(Head(ss)))

MainOf(body) ==
    [code |-> Place(body, 0) \o <<I("return")>>,
     params |-> 0, locals |-> 3,
     stack |-> IF \E k \in DOMAIN body : body[k] = SpreadCall THEN 4 ELSE 2]

Programs_ ==
    { [methods |-> Helpers @@ ("main" :> MainOf(<<x, y>> \o b)), cp |-> ConstPool] :
        x \in InitX, y \in InitY,
        b \in UNION { [1 .. n -> Body] : n \in 0 .. MaxBody } }

\* ---- javac's encoding of an instruction into bytes ----
Conds == <<"eq", "ne", "lt", "ge", "gt", "le">>
CondNo(c) == CHOOSE k \in 1 .. 6 : Conds[k] = c
U16(v) == <<(v % 2^16) \div 256, v % 256>>
Ops == [add |-> 96, sub |-> 100, mul |-> 104, div |-> 108, rem |-> 112,
        neg |-> 116, ireturn |-> 172, return |-> 177]

\* The bytes of instruction i, whose jump lands rel bytes away.
Encode(i, rel) ==
    CASE i.op = "push" ->
           IF i.arg \in -1 .. 5 THEN <<i.arg + 3>>
           ELSE IF i.arg \in -128 .. 127 THEN <<16, i.arg % 256>>
           ELSE <<17>> \o U16(i.arg)
      [] i.op = "ldc"   -> <<18, i.arg>>
      [] i.op = "load"  -> IF i.arg <= 3 THEN <<26 + i.arg>> ELSE <<21, i.arg>>
      [] i.op = "store" -> IF i.arg <= 3 THEN <<59 + i.arg>> ELSE <<54, i.arg>>
      [] i.op = "iinc"  -> <<132, i.arg[1], i.arg[2] % 256>>
      [] i.op = "if"      -> <<152 + CondNo(i.arg[1])>> \o U16(rel)
      [] i.op = "if_icmp" -> <<158 + CondNo(i.arg[1])>> \o U16(rel)
      [] i.op = "goto"    -> <<167>> \o U16(rel)
      [] i.op = "getstatic" -> <<178, 0, 2>>
      [] i.op = "println"   -> <<182, 0, 3>>
      [] i.op = "invokestatic" -> <<184>> \o U16(i.arg)
      [] OTHER -> <<Ops[i.op]>>

\* Offsets(c)[k] is the byte offset of instruction k (the sizes do not
\* depend on the jump offsets).
Offsets(c) ==
    LET size[k \in 0 .. Len(c)] ==
          IF k = 0 THEN 0 ELSE size[k - 1] + Len(Encode(c[k], 0))
    IN  [k \in 1 .. Len(c) + 1 |-> size[k - 1]]

Bytes(c) ==
    LET off == Offsets(c)
        enc(k) == Encode(c[k], IF c[k].op \in Jumps
                               THEN off[Target(c[k]) + 1] - off[k] ELSE 0)
        RECURSIVE Cat(_)
        Cat(k) == IF k > Len(c) THEN <<>> ELSE enc(k) \o Cat(k + 1)
    IN  Cat(1)

Javac_(p) ==
    [methods |-> [m \in DOMAIN p.methods |->
                    [code |-> Bytes(p.methods[m].code),
                     max_stack |-> p.methods[m].stack,
                     max_locals |-> p.methods[m].locals,
                     params |-> p.methods[m].params]],
     cp |-> [k \in DOMAIN p.cp |->
               IF "value" \in DOMAIN p.cp[k] THEN [bytes |-> p.cp[k].value]
               ELSE p.cp[k]]]

\* ---- the refinement mapping ----
\* A byte pc is the instruction that starts there; a pc that starts none
\* maps to -1, which no JVMSpec frame has.
InstrAt(m, b) ==
    LET off == Offsets(src.methods[m].code)
    IN  IF \E k \in DOMAIN off : off[k] = b
          THEN (CHOOSE k \in DOMAIN off : off[k] = b) - 1 ELSE -1
AbsFrames ==
    [k \in 1 .. Len(frames) |->
        [m |-> frames[k].m, pc |-> InstrAt(frames[k].m, frames[k].pc),
         stack |-> frames[k].stack, locals |-> frames[k].locals]]
AbsStatus == IF status = "sigfpe" THEN "arith" ELSE status

Abs == INSTANCE JVMSpec
         WITH prog <- src, frames <- AbsFrames, status <- AbsStatus

\* The interpreter implements the JVM: every pass of execute()'s loop is the
\* step the JVM specification takes for the instruction at pc, with the
\* same operand stack, locals, calls and output, and every program runs to
\* its end.  JVMSpec's weak fairness is stated by what it means here: its
\* Next is enabled exactly while the status is "run", so the run must end.
JVMRefinement ==
    /\ Abs!Init
    /\ [][Abs!Next]_Abs!vars
    /\ <>(AbsStatus # "run")

====
