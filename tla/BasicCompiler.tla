--------------------------- MODULE BasicCompiler ---------------------------
(***************************************************************************)
(* The TeenyBASIC compiler of project03 (src/compiler.c, src/compile.c):   *)
(* main reads one statement at a time with parse(), translates its tree    *)
(* with compile_ast into x86-64 text between a fixed header and footer,    *)
(* and the assembled program is then run.                                  *)
(*                                                                         *)
(* The program file is read by BasicParser's parse(), one statement per   *)
(* round of main's loop, until feof() holds.  The emitted program is then *)
(* executed by an x86-64 machine reduced to the instructions compile_ast  *)
(* prints, so that what the emitted code does can be compared with what   *)
(* the BASIC program means.                                                *)
(*                                                                         *)
(* Integers are int64_t in the code and IntBits wide here; both wrap.      *)
(* Variables are named by their character code, 'A' = 65.                  *)
(***************************************************************************)
EXTENDS BasicParser, SequencesExt

CONSTANTS
  Files,        \* the program files the compiler may be given
  MaxSteps,     \* bound on the instructions one run executes
  StackWords,   \* words of stack below main's return address
  Junk, CallerRbp, RetAddr   \* model values, see below

ASSUME IntBits \in 2 .. 8 /\ MaxSteps \in Nat

Mod == 2^IntBits
Wrap(x) == ((x + Mod \div 2) % Mod) - Mod \div 2
Word == -(Mod \div 2) .. Mod \div 2 - 1

\* Junk, CallerRbp and RetAddr are values a register or a stack slot may
\* hold that BASIC cannot use: what
\* the stack held before main wrote it, a clobbered register, the caller's
\* frame pointer or main's return address.
IsInt(v) == v \notin {Junk, CallerRbp, RetAddr}

Ins(o) == [op |-> o, arg |-> 0]
InsA(o, a) == [op |-> o, arg |-> a]

-----------------------------------------------------------------------------
(* compile.c                                                               *)

bytes_per_int == 8
ascii_offset == 65

\* The frame slot of a variable: -0x(diff * 8)(%rbp).
Slot(name) == (name - ascii_offset) * bytes_per_int

\* The instructions after "pop %rdi" for each operator, or <<>> for an
\* operator compile_ast does not know (it returns false).
OpCode(op) ==
  CASE op = "+" -> <<Ins("addq %rdi, %rax")>>
    [] op = "-" -> <<Ins("subq %rax, %rdi"), Ins("mov %rdi, %rax")>>
    [] op = "*" -> <<Ins("imulq %rdi, %rax")>>
    [] op = "/" -> <<Ins("mov %rax, %rsi"), Ins("mov %rdi, %rax"),
                     Ins("cqto"), Ins("idiv %rsi")>>
    [] op \in {"<", ">", "="} ->
         <<Ins("cmp %rax, %rdi"), InsA("mov $v, %rax", 0), InsA("mov $v, %rsi", 1),
           Ins(CASE op = "<" -> "cmovl %rsi, %rax"
                 [] op = ">" -> "cmovg %rsi, %rax"
                 [] op = "=" -> "cmove %rsi, %rax")>>
    [] OTHER -> <<>>

\* Mutant: the label after the IF's statement printed with the label_no
\* the je used, as if it had been saved before compiling the statement.
CondCodeEarlyLabel(c, b) ==
  [ok |-> TRUE,
   code |-> c.code \o <<Ins("test %rax, %rax"), InsA("je", <<"C", c.label_no>>)>>
            \o b.code \o <<InsA("label", <<"C", c.label_no>>)>>,
   label_no |-> b.label_no + 1]

\* The COND case of compile_ast, from the compiled condition c and the
\* compiled statement b: je to C<label_no> printed before the statement is
\* compiled, the label printed and label_no incremented after it.
CondCode(c, b) ==
  [ok |-> TRUE,
   code |-> c.code \o <<Ins("test %rax, %rax"), InsA("je", <<"C", c.label_no>>)>>
            \o b.code \o <<InsA("label", <<"C", b.label_no>>)>>,
   label_no |-> b.label_no + 1]

\* compile_ast(node) with the global label_no at n: whether it returns
\* true, what it prints, and label_no afterwards.  The results of the
\* nested calls are ignored, as in the code.
RECURSIVE CompileAst(_, _)
CompileAst(node, n) ==
  LET Emit(code) == [ok |-> TRUE, code |-> code, label_no |-> n]
  IN
  CASE node.type = "NUM" -> Emit(<<InsA("mov $v, %rax", node.value)>>)
    [] node.type = "PRINT" ->
         LET e == CompileAst(node.expr, n)
         IN [e EXCEPT !.ok = TRUE,
                      !.code = @ \o <<Ins("mov %rax, %rdi"), Ins("call print_int")>>]
    [] node.type = "VAR" -> Emit(<<InsA("mov -d(%rbp), %rax", Slot(node.name))>>)
    [] node.type = "LET" ->
         LET e == CompileAst(node.value, n)
         IN [e EXCEPT !.ok = TRUE,
                      !.code = @ \o <<InsA("mov %rax, -d(%rbp)", Slot(node.name))>>]
    [] node.type = "BINARY_OP" ->
         LET l == CompileAst(node.left, n)
             r == CompileAst(node.right, l.label_no)
         IN [ok |-> OpCode(node.op) # <<>>,
             code |-> l.code \o <<Ins("push %rax")>> \o r.code
                      \o <<Ins("pop %rdi")>> \o OpCode(node.op),
             label_no |-> r.label_no]
    [] node.type = "LABEL" -> Emit(<<InsA("label", <<"L", node.label>>)>>)
    [] node.type = "GOTO" -> Emit(<<InsA("jmp", <<"L", node.label>>)>>)
    [] node.type = "COND" ->
         LET c == CompileAst(node.condition, n)
             b == CompileAst(node.if_branch, c.label_no)
         IN CondCode(c, b)
    [] OTHER -> [ok |-> FALSE, code |-> <<>>, label_no |-> n]

-----------------------------------------------------------------------------
(* compiler.c: header(), footer() and main's loop.                         *)

Frame == 208    \* sub $0xd0, %rsp

Header == <<Ins("push %rbp"), Ins("mov %rsp, %rbp"), InsA("sub $n, %rsp", Frame)>>
Footer == <<InsA("add $n, %rsp", Frame), Ins("pop %rbp"), Ins("movl $0, %eax"), Ins("ret")>>

VARIABLES
  stream,    \* the FILE * main reads the program from: [pos, eof]
  phase,     \* "compile" (main's loop), "run", "exit3", "asm_error", "segv"
  prog,      \* the statements parsed so far, for the reference semantics
  code,      \* the instructions printed so far
  label_no,  \* compile.c's global label counter
  m          \* the machine running the assembled program

vars == <<file, stream, phase, prog, code, label_no, m>>

-----------------------------------------------------------------------------
(* The x86-64 machine the emitted program runs on, reduced to the          *)
(* instructions above.  reg holds rax, rdi, rsi, rdx, rsp and rbp; flags   *)
(* what the last cmp or test found; mem the stack, by byte address, with   *)
(* main's return address at 0.  print_int, which calls printf, appends     *)
(* rdi to out and clobbers the caller-saved registers and the stack below  *)
(* rsp.  Arithmetic on a value that is not an integer stops the run as     *)
(* "uninit"; a stack access outside mem, or a ret to anything but the      *)
(* return address, as "segv"; idiv's divide error as "#DE".                *)

Addrs == {-8 * i : i \in 0 .. StackWords}

LabelDefs(P, l) == {i \in 1 .. Len(P) : P[i] = InsA("label", l)}

\* What the assembler accepts: no label defined twice, none jumped to
\* that is not defined.
Assembles(P) ==
  \A i \in 1 .. Len(P) :
    /\ P[i].op = "label" => Cardinality(LabelDefs(P, P[i].arg)) = 1
    /\ P[i].op \in {"jmp", "je"} => LabelDefs(P, P[i].arg) # {}

Target(P, l) == CHOOSE i \in LabelDefs(P, l) : TRUE

Magnitude(x) == IF x < 0 THEN -x ELSE x
Quot(a, b) == IF (a >= 0) = (b > 0) \/ a = 0 THEN Magnitude(a) \div Magnitude(b)
              ELSE -(Magnitude(a) \div Magnitude(b))

MachineInit(P) ==
  [P |-> P, pc |-> 1, status |-> "run", steps |-> 0, out |-> <<>>,
   reg |-> [r \in {"rax", "rdi", "rsi", "rdx"} |-> Junk]
           @@ ("rsp" :> 0 @@ "rbp" :> CallerRbp),
   flags |-> Junk,
   mem |-> [a \in Addrs |-> IF a = 0 THEN RetAddr ELSE Junk]]

\* One instruction.  f is the machine, i the instruction at its pc.
Exec(f) ==
  LET i == f.P[f.pc]
      R == f.reg
      Go(g) == [g EXCEPT !.pc = @ + 1]
      Set(r, v) == Go([f EXCEPT !.reg[r] = v])
      Stop(st) == [f EXCEPT !.status = st]
      Calc(r, a, b, v) == IF IsInt(a) /\ IsInt(b) THEN Set(r, Wrap(v)) ELSE Stop("uninit")
      Cmp(a, b) == IF IsInt(a) /\ IsInt(b)
                   THEN Go([f EXCEPT !.flags = [lt |-> a < b, eq |-> a = b, gt |-> a > b]])
                   ELSE Stop("uninit")
      CMov(c) == IF f.flags = Junk THEN Stop("uninit")
                 ELSE IF c THEN Set("rax", R["rsi"]) ELSE Go(f)
      Ld(a, r) == IF a \in Addrs THEN Set(r, f.mem[a]) ELSE Stop("segv")
      St(a, v, g) == IF a \in Addrs THEN Go([g EXCEPT !.mem[a] = v]) ELSE Stop("segv")
      Push(v) == St(R["rsp"] - 8, v, [f EXCEPT !.reg["rsp"] = @ - 8])
      Pop(r) == IF R["rsp"] \in Addrs
                THEN Go([f EXCEPT !.reg[r] = f.mem[R["rsp"]], !.reg["rsp"] = @ + 8])
                ELSE Stop("segv")
      Jump(l) == [f EXCEPT !.pc = Target(f.P, l)]
      dividend == R["rdx"] * Mod + (R["rax"] % Mod)
  IN
  CASE i.op = "mov $v, %rax" -> Set("rax", i.arg)
    [] i.op = "mov $v, %rsi" -> Set("rsi", i.arg)
    [] i.op = "movl $0, %eax" -> Set("rax", 0)
    [] i.op = "mov %rax, %rdi" -> Set("rdi", R["rax"])
    [] i.op = "mov %rax, %rsi" -> Set("rsi", R["rax"])
    [] i.op = "mov %rdi, %rax" -> Set("rax", R["rdi"])
    [] i.op = "mov %rsp, %rbp" -> Set("rbp", R["rsp"])
    [] i.op = "mov -d(%rbp), %rax" -> Ld(R["rbp"] - i.arg, "rax")
    [] i.op = "mov %rax, -d(%rbp)" -> St(R["rbp"] - i.arg, R["rax"], f)
    [] i.op = "push %rax" -> Push(R["rax"])
    [] i.op = "push %rbp" -> Push(R["rbp"])
    [] i.op = "pop %rdi" -> Pop("rdi")
    [] i.op = "pop %rbp" -> Pop("rbp")
    [] i.op = "sub $n, %rsp" -> Set("rsp", R["rsp"] - i.arg)
    [] i.op = "add $n, %rsp" -> Set("rsp", R["rsp"] + i.arg)
    [] i.op = "addq %rdi, %rax" -> Calc("rax", R["rdi"], R["rax"], R["rax"] + R["rdi"])
    [] i.op = "subq %rax, %rdi" -> Calc("rdi", R["rdi"], R["rax"], R["rdi"] - R["rax"])
    [] i.op = "imulq %rdi, %rax" -> Calc("rax", R["rdi"], R["rax"], R["rax"] * R["rdi"])
    [] i.op = "cqto" ->
         IF IsInt(R["rax"]) THEN Set("rdx", IF R["rax"] < 0 THEN -1 ELSE 0) ELSE Stop("uninit")
    [] i.op = "idiv %rsi" ->
         IF ~(IsInt(R["rax"]) /\ IsInt(R["rdx"]) /\ IsInt(R["rsi"])) THEN Stop("uninit")
         ELSE IF R["rsi"] = 0 \/ Quot(dividend, R["rsi"]) \notin Word THEN Stop("#DE")
         ELSE Go([f EXCEPT !.reg["rax"] = Quot(dividend, R["rsi"]),
                           !.reg["rdx"] = dividend - R["rsi"] * Quot(dividend, R["rsi"])])
    [] i.op = "cmp %rax, %rdi" -> Cmp(R["rdi"], R["rax"])
    [] i.op = "test %rax, %rax" -> Cmp(R["rax"], 0)
    [] i.op = "cmovl %rsi, %rax" -> CMov(f.flags.lt)
    [] i.op = "cmovg %rsi, %rax" -> CMov(f.flags.gt)
    [] i.op = "cmove %rsi, %rax" -> CMov(f.flags.eq)
    [] i.op = "je" -> IF f.flags = Junk THEN Stop("uninit")
                      ELSE IF f.flags.eq THEN Jump(i.arg) ELSE Go(f)
    [] i.op = "jmp" -> Jump(i.arg)
    [] i.op = "label" -> Go(f)
    [] i.op = "call print_int" ->
         IF ~IsInt(R["rdi"]) THEN Stop("uninit")
         ELSE Go([f EXCEPT !.out = Append(@, R["rdi"]),
                           !.reg = [r \in DOMAIN @ |->
                                     IF r \in {"rax", "rdi", "rsi", "rdx"} THEN Junk ELSE @[r]],
                           !.flags = Junk,
                           !.mem = [a \in DOMAIN @ |-> IF a < R["rsp"] THEN Junk ELSE @[a]]])
    [] i.op = "ret" ->
         IF R["rsp"] \in Addrs /\ f.mem[R["rsp"]] = RetAddr
         THEN [f EXCEPT !.status = "ret", !.reg["rsp"] = @ + 8]
         ELSE Stop("segv")

-----------------------------------------------------------------------------
(* main's loop (compiler.c): while (!feof(program)) parse a statement and, *)
(* when it is one, compile it or exit(3); at the end of the file print the *)
(* footer.  The assembled program then runs.                               *)

Init ==
  /\ file \in Files
  /\ stream = [pos |-> 0, eof |-> FALSE]
  /\ phase = "compile"
  /\ prog = <<>>
  /\ code = <<>>
  /\ label_no = 0
  /\ m = MachineInit(<<>>)

\* One round of the loop: parse() reads a statement, and one it returns is
\* compiled.  A round that gets NULL (a comment, a blank line, something
\* that does not parse) compiles nothing.
CompileStmt ==
  /\ phase = "compile"
  /\ ~stream.eof
  /\ \E r \in {parse(stream)} :
       /\ stream' = r.s
       /\ CASE r.n = Segv ->
              phase' = "segv" /\ UNCHANGED <<prog, code, label_no, m>>
            [] r.n = NULL -> UNCHANGED <<phase, prog, code, label_no, m>>
            [] OTHER ->
              \E c \in {CompileAst(r.n, label_no)} :
                IF c.ok
                THEN /\ code' = code \o c.code
                     /\ label_no' = c.label_no
                     /\ prog' = Append(prog, r.n)
                     /\ UNCHANGED <<phase, m>>
                ELSE /\ phase' = "exit3"
                     /\ UNCHANGED <<prog, code, label_no, m>>
  /\ UNCHANGED file

\* feof(program): footer(), then the assembler and the first instruction
\* of main.
EndOfFile ==
  /\ phase = "compile"
  /\ stream.eof
  /\ LET P == Header \o code \o Footer
     IN IF Assembles(P)
        THEN phase' = "run" /\ m' = MachineInit(P)
        ELSE phase' = "asm_error" /\ UNCHANGED m
  /\ UNCHANGED <<file, stream, prog, code, label_no>>

RunStep ==
  /\ phase = "run"
  /\ m.status = "run"
  /\ m' = IF m.steps = MaxSteps THEN [m EXCEPT !.status = "cut"]
          ELSE [Exec(m) EXCEPT !.steps = @ + 1]
  /\ UNCHANGED <<file, stream, phase, prog, code, label_no>>

Next == CompileStmt \/ EndOfFile \/ RunStep

Spec == Init /\ [][Next]_vars

-----------------------------------------------------------------------------
(* What a TeenyBASIC program means: statements run in order, GOTO goes to  *)
(* the statement that is its label, IF runs its statement when the         *)
(* comparison holds (1) and not when it fails (0).  Arithmetic is that of  *)
(* int64_t: + - * wrap, / truncates, and a division by zero or of the      *)
(* least integer by -1 is an error.  A variable never assigned holds junk, *)
(* and using junk in arithmetic, a comparison or PRINT is an error.        *)

Names == 65 .. 90    \* 'A' .. 'Z'

Ok(v) == [v |-> v, err |-> "none"]
Fail(e) == [v |-> Junk, err |-> e]

Apply(op, a, b) ==
  CASE op = "+" -> Ok(Wrap(a + b))
    [] op = "-" -> Ok(Wrap(a - b))
    [] op = "*" -> Ok(Wrap(a * b))
    [] op = "/" -> IF b = 0 \/ Quot(a, b) \notin Word THEN Fail("div_error") ELSE Ok(Quot(a, b))
    [] op = "<" -> Ok(IF a < b THEN 1 ELSE 0)
    [] op = ">" -> Ok(IF a > b THEN 1 ELSE 0)
    [] op = "=" -> Ok(IF a = b THEN 1 ELSE 0)

RECURSIVE Eval(_, _)
Eval(e, env) ==
  CASE e.type = "NUM" -> Ok(e.value)
    [] e.type = "VAR" -> Ok(env[e.name])
    [] e.type = "BINARY_OP" ->
         LET l == Eval(e.left, env)
             r == Eval(e.right, env)
         IN IF l.err # "none" THEN l
            ELSE IF r.err # "none" THEN r
            ELSE IF ~(IsInt(l.v) /\ IsInt(r.v)) THEN Fail("uninit")
            ELSE Apply(e.op, l.v, r.v)

\* One statement on [env, out, err, jump].
RECURSIVE Do(_, _)
Do(s, st) ==
  LET r == Eval(CASE s.type = "LET" -> s.value [] s.type = "PRINT" -> s.expr
                  [] s.type = "COND" -> s.condition [] OTHER -> [type |-> "NUM", value |-> 0],
                st.env)
  IN
  CASE r.err # "none" -> [st EXCEPT !.err = r.err]
    [] s.type = "LET" -> [st EXCEPT !.env[s.name] = r.v]
    [] s.type = "PRINT" -> IF IsInt(r.v) THEN [st EXCEPT !.out = Append(@, r.v)]
                           ELSE [st EXCEPT !.err = "uninit"]
    [] s.type = "GOTO" -> [st EXCEPT !.jump = s.label]
    [] s.type = "COND" -> IF r.v # 0 THEN Do(s.if_branch, st) ELSE st
    [] s.type = "LABEL" -> st

StmtOf(p, l) == CHOOSE i \in 1 .. Len(p) : p[i] = [type |-> "LABEL", label |-> l]

\* One statement of p on st, which also holds the statement index i and
\* the status: "run", "done" past the last statement, or an error.
Step(p, st) ==
  IF st.status # "run" THEN st
  ELSE IF st.i > Len(p) THEN [st EXCEPT !.status = "done"]
  ELSE LET n == Do(p[st.i], [st EXCEPT !.jump = "none"])
       IN IF n.err # "none" THEN [n EXCEPT !.status = n.err]
          ELSE [n EXCEPT !.i = IF n.jump = "none" THEN @ + 1 ELSE StmtOf(p, n.jump)]

\* fuel statements of p from st, halving the count at each level so that
\* the recursion stays shallow.
RECURSIVE Steps(_, _, _)
Steps(p, st, fuel) ==
  IF fuel = 0 \/ st.status # "run" THEN st
  ELSE IF fuel = 1 THEN Step(p, st)
  ELSE Steps(p, Steps(p, st, fuel \div 2), fuel - fuel \div 2)

\* Between two instructions a run passes at most Len(p) labels.
RefFuel(p) == MaxSteps * (Len(p) + 1)

Meaning(p) ==
  LET st == Steps(p, [i |-> 1, status |-> "run", env |-> [n \in Names |-> Junk],
                      out |-> <<>>, err |-> "none", jump |-> "none"], RefFuel(p))
  IN [out |-> st.out, status |-> IF st.status = "run" THEN "cut" ELSE st.status]

\* The BASIC program's labels are sound: none defined twice, every GOTO to
\* one that is defined.
RECURSIVE Gotos(_)
Gotos(s) == CASE s.type = "GOTO" -> {s.label}
              [] s.type = "COND" -> Gotos(s.if_branch)
              [] OTHER -> {}
LabelsSound(p) ==
  /\ \A i, j \in 1 .. Len(p) : p[i].type = "LABEL" /\ p[i] = p[j] => i = j
  /\ \A i \in 1 .. Len(p) : \A l \in Gotos(p[i]) : \E j \in 1 .. Len(p) :
       p[j] = [type |-> "LABEL", label |-> l]

-----------------------------------------------------------------------------
(* Properties                                                              *)

TypeOK ==
  /\ stream \in [pos : 0 .. Len(file), eof : BOOLEAN]
  /\ phase \in {"compile", "run", "exit3", "asm_error", "segv"}
  /\ \A i \in 1 .. Len(prog) : prog[i].type \in {"PRINT", "LET", "LABEL", "GOTO", "COND"}
  /\ label_no \in Nat
  /\ m.status \in {"run", "ret", "uninit", "#DE", "segv", "cut"}

Outcome == "ret" :> "done" @@ "uninit" :> "uninit" @@ "#DE" :> "div_error"
           @@ "segv" :> "segv" @@ "cut" :> "cut"

\* The compiler is correct: the assembler accepts what main prints exactly
\* when the BASIC program's labels are sound (so the labels compile_ast
\* makes for IF never clash), and the assembled program prints what the
\* BASIC program prints and ends the way it ends; a run cut off by the step
\* bound has printed a prefix of it.  This is the whole of compile_ast's
\* stack discipline, its operand order, its frame slots and label_no.
CompiledProgramCorrect ==
  /\ phase \in {"run", "asm_error"} => (phase = "run" <=> LabelsSound(prog))
  /\ (phase = "run" /\ m.status # "run") =>
       \E r \in {Meaning(prog)} :
         IF m.status = "cut" THEN IsPrefix(m.out, r.out)
         ELSE m.out = r.out /\ Outcome[m.status] = r.status

\* main returns to its caller with the caller's frame pointer and stack
\* pointer: no variable slot or temporary overlaps the saved %rbp or the
\* return address, and every push is popped.
FrameRestored ==
  m.status = "ret" => m.reg["rbp"] = CallerRbp /\ m.reg["rsp"] = 8
====
