------------------------- MODULE MCBasicCompiler --------------------------
(***************************************************************************)
(* Program files of up to MaxLines lines, each ended by a newline, over    *)
(* the variables B and C:                                                  *)
(*                                                                         *)
(*   LET B = 2            10                                               *)
(*   LET B = B - 1        IF B > 0 THEN GOTO 10                            *)
(*   LET C = 7 / B        IF B < 2 THEN IF B = 1 THEN PRINT C              *)
(*   PRINT B*C+(B-1)      #C                                               *)
(*                                                                         *)
(* They make loops that end and loops that do not, nested IFs (which need  *)
(* two labels of compile_ast's own), a division by zero, the quotient     *)
(* truncated towards zero, products that wrap, variables read before      *)
(* they are set, and GOTOs to a label that is missing.  For the parser     *)
(* they hold tokens ended by a space, by a newline and by an operator,     *)
(* precedence and parentheses, an expression that ends a line (so that     *)
(* term and expression look at the next line's first character, or at     *)
(* the end of the file, and step back), and a comment.                     *)
(***************************************************************************)
EXTENDS BasicCompiler, TLC

CONSTANT MaxLines

A == 65
B == 66
C == 67

Num(v) == [type |-> "NUM", value |-> v]
Var(n) == [type |-> "VAR", name |-> n]
Bin(op, l, r) == [type |-> "BINARY_OP", op |-> op, left |-> l, right |-> r]
Let(n, e) == [type |-> "LET", name |-> n, value |-> e]
PrintS(e) == [type |-> "PRINT", expr |-> e]
Label(l) == [type |-> "LABEL", label |-> l]
Goto(l) == [type |-> "GOTO", label |-> l]
If(c, s) == [type |-> "COND", condition |-> c, if_branch |-> s]

\* A string as its ASCII codes (printable characters from the space on).
Printable == " !\"#$%&'()*+,-./0123456789:;<=>?@ABCDEFGHIJKLMNOPQRSTUVWXYZ"
Ascii(str) ==
  [i \in 1 .. Len(str) |->
     31 + CHOOSE k \in 1 .. Len(Printable) : SubSeq(Printable, k, k) = SubSeq(str, i, i)]

L10 == Ascii("10")

\* Each line with the statement it is written as (NULL for the comment).
Lines ==
  { [text |-> "LET B = 2", tree |-> Let(B, Num(2))],
    [text |-> "LET B = B - 1", tree |-> Let(B, Bin("-", Var(B), Num(1)))],
    [text |-> "LET C = 7 / B", tree |-> Let(C, Bin("/", Num(7), Var(B)))],
    [text |-> "PRINT B*C+(B-1)",
     tree |-> PrintS(Bin("+", Bin("*", Var(B), Var(C)), Bin("-", Var(B), Num(1))))],
    [text |-> "10", tree |-> Label(L10)],
    [text |-> "IF B > 0 THEN GOTO 10", tree |-> If(Bin(">", Var(B), Num(0)), Goto(L10))],
    [text |-> "IF B < 2 THEN IF B = 1 THEN PRINT C",
     tree |-> If(Bin("<", Var(B), Num(2)), If(Bin("=", Var(B), Num(1)), PrintS(Var(C))))],
    [text |-> "#C", tree |-> NULL] }

\* A line on A, whose slot is the saved %rbp (kept out of Files_).
LineA == [text |-> "LET A = 1", tree |-> Let(A, Num(1))]

AllLines == Lines \cup {LineA}

LineCode == [l \in AllLines |-> Ascii(l.text) \o <<NL>>]

\* The statement each line is written as, by its codes.
TreeOf == [t \in {Ascii(l.text) : l \in AllLines} |->
             (CHOOSE l \in AllLines : Ascii(l.text) = t).tree]

FilesOf(ls) ==
  { FlattenSeq([i \in 1 .. Len(f) |-> LineCode[f[i]]]) :
      f \in UNION {[1 .. n -> ls] : n \in 0 .. MaxLines} }

Files_ == FilesOf(Lines)

\* The files that also use A.
FilesWithA_ == FilesOf(Lines \cup {LineA})

\* The same files with the newline that ends the last line left out.
FilesUnterminated_ == {SubSeq(f, 1, Len(f) - 1) : f \in Files_ \ {<<>>}}

\* The lines of a file, without their newlines; the last may have none.
RECURSIVE LinesOf(_)
LinesOf(f) ==
  IF f = <<>> THEN <<>>
  ELSE LET k == IF \E i \in 1 .. Len(f) : f[i] = NL
                THEN CHOOSE k \in 1 .. Len(f) : f[k] = NL /\ \A j \in 1 .. k - 1 : f[j] # NL
                ELSE Len(f) + 1
       IN <<SubSeq(f, 1, k - 1)>> \o LinesOf(SubSeq(f, k + 1, Len(f)))

\* The statements of a file, in order, as its lines are written.
Written(f) == SelectSeq([i \in 1 .. Len(LinesOf(f)) |-> TreeOf[LinesOf(f)[i]]],
                        LAMBDA t : t # NULL)

\* The parser reads a program as it is written: every round of main's loop
\* that gets a statement from parse() gets the next line's statement, and
\* when feof() ends the loop every statement has been compiled, none twice
\* and none lost, though parse() reads past the end of each line and of
\* the file and fseek steps back and clears the end-of-file indicator.
ParsedAsWritten ==
  \E w \in {Written(file)} :
    /\ phase \notin {"segv", "exit3"}
    /\ IsPrefix(prog, w)
    /\ phase # "compile" => prog = w
====
