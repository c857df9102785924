---------------------------- MODULE BasicParser ----------------------------
(***************************************************************************)
(* The TeenyBASIC parser of project03 (src/parser.c) and the tree          *)
(* constructors it calls (src/ast.c).  parse() reads one statement from a  *)
(* FILE * by fgetc, and steps back one character with fseek(-1, SEEK_CUR)  *)
(* wherever it has looked one character too far.                          *)
(*                                                                         *)
(* The file is the sequence of its bytes, as ASCII codes.  The stream is a *)
(* record [pos, eof]: the bytes read so far and the end-of-file indicator. *)
(* fgetc at the end sets eof; a successful fseek moves pos and clears it,  *)
(* as C requires.  Every function of parser.c is an operator that takes    *)
(* the stream and returns what the C function returns together with the   *)
(* stream it leaves.  NULL is the null pointer; a token is the sequence of *)
(* its characters; a tree is the record BasicCompiler compiles.            *)
(***************************************************************************)
EXTENDS Integers, Sequences

CONSTANTS
  IntBits,   \* width of long, which strtol returns
  NULL       \* the null pointer

VARIABLE file   \* the program file, a sequence of character codes

EOF == -1
NUL == 0         \* '\0', which advance() returns at the end of the file
NL == 10
HASH == 35
LPAREN == 40
RPAREN == 41
STAR == 42
PLUS == 43
MINUS == 45
SLASH == 47
LT == 60
EQ == 61
GT == 62

\* "GOTO", "PRINT", "LET", "IF", "THEN"
KwGOTO == <<71, 79, 84, 79>>
KwPRINT == <<80, 82, 73, 78, 84>>
KwLET == <<76, 69, 84>>
KwIF == <<73, 70>>
KwTHEN == <<84, 72, 69, 78>>

\* What parse() returns when strcmp(NULL, "THEN") has crashed the compiler.
Segv == [type |-> "SIGSEGV"]

-----------------------------------------------------------------------------
(* Character classes (<ctype.h> in the C locale) and parser.c's own.       *)

isspace(c) == c \in {9, 10, 11, 12, 13, 32}
isupper(c) == c \in 65 .. 90
isdigit(c) == c \in 48 .. 57
is_variable_name(c) == isupper(c)
is_number_start(c) == c \in {PLUS, MINUS} \/ isdigit(c)
is_expression_start(c) == c = LPAREN \/ is_variable_name(c) \/ is_number_start(c)
is_operator(c) == c \in {PLUS, MINUS, STAR, SLASH, LT, EQ, GT, LPAREN, RPAREN}

\* The operator of a binary node, as BasicCompiler names it.
OpName(op) ==
  CASE op = PLUS -> "+" [] op = MINUS -> "-" [] op = STAR -> "*" [] op = SLASH -> "/"
    [] op = LT -> "<" [] op = EQ -> "=" [] op = GT -> ">"

-----------------------------------------------------------------------------
(* <stdio.h> on the file                                                   *)

\* fseek(stream, -1, SEEK_CUR).  At offset 0 it fails and changes nothing.
rewind_one(s) == IF s.pos > 0 THEN [pos |-> s.pos - 1, eof |-> FALSE] ELSE s

-----------------------------------------------------------------------------
(* strtol(str, NULL, 0): an optional sign, then a hexadecimal number after *)
(* 0x, an octal one after 0, a decimal one otherwise; conversion stops at  *)
(* the first character that is not a digit of the base, and a value out   *)
(* of range is LONG_MIN or LONG_MAX.                                       *)

LongMin == -(2^(IntBits - 1))
LongMax == 2^(IntBits - 1) - 1

DigitValue(c) ==
  CASE isdigit(c) -> c - 48
    [] c \in 97 .. 122 -> c - 87
    [] c \in 65 .. 90 -> c - 55
    [] OTHER -> 36

RECURSIVE Digits(_, _, _)
Digits(t, base, v) ==
  IF t = <<>> \/ DigitValue(Head(t)) >= base THEN v
  ELSE Digits(Tail(t), base, v * base + DigitValue(Head(t)))

strtol(t) ==
  LET neg == t # <<>> /\ Head(t) = MINUS
      u == IF t # <<>> /\ Head(t) \in {PLUS, MINUS} THEN Tail(t) ELSE t
      hex == Len(u) >= 3 /\ u[1] = 48 /\ u[2] \in {88, 120} /\ DigitValue(u[3]) < 16
      v == CASE hex -> Digits(SubSeq(u, 3, Len(u)), 16, 0)
             [] u # <<>> /\ u[1] = 48 -> Digits(u, 8, 0)
             [] OTHER -> Digits(u, 10, 0)
  IN IF neg THEN IF -v < LongMin THEN LongMin ELSE -v
     ELSE IF v > LongMax THEN LongMax ELSE v

-----------------------------------------------------------------------------
(* ast.c: each constructor returns NULL when a part it needs is NULL.      *)

init_num_node(str) == IF str = NULL THEN NULL ELSE [type |-> "NUM", value |-> strtol(str)]
init_binary_node(op, left, right) ==
  IF left = NULL \/ right = NULL THEN NULL
  ELSE [type |-> "BINARY_OP", op |-> OpName(op), left |-> left, right |-> right]
init_var_node(name) == IF name = NUL THEN NULL ELSE [type |-> "VAR", name |-> name]
init_print_node(expr) == IF expr = NULL THEN NULL ELSE [type |-> "PRINT", expr |-> expr]
init_let_node(name, value) ==
  IF name = NUL \/ value = NULL THEN NULL ELSE [type |-> "LET", name |-> name, value |-> value]
init_label_node(label) == IF label = NULL THEN NULL ELSE [type |-> "LABEL", label |-> label]
init_goto_node(label) == IF label = NULL THEN NULL ELSE [type |-> "GOTO", label |-> label]
init_cond_node(condition, if_branch) ==
  IF condition = NULL \/ if_branch = NULL THEN NULL
  ELSE [type |-> "COND", condition |-> condition, if_branch |-> if_branch]

-----------------------------------------------------------------------------
(* parser.c                                                                *)

\* Where a loop of fgetc calls stops: the first of the positions at which
\* it would stop, 0 if the file ends first.
FirstOf(hits) == IF hits = {} THEN 0 ELSE CHOOSE i \in hits : \A j \in hits : i <= j

\* The positions after the stream's.
Ahead(s) == s.pos + 1 .. Len(file)

\* The stream after fgetc has returned EOF.
AtEnd == [pos |-> Len(file), eof |-> TRUE]

\* advance(): the next character that is not white space, '\0' at the end.
advance(s) ==
  LET i == FirstOf({k \in Ahead(s) : ~isspace(file[k])})
  IN IF i = 0 THEN [c |-> NUL, s |-> AtEnd]
     ELSE [c |-> file[i], s |-> [s EXCEPT !.pos = i]]

peek(s) == LET r == advance(s) IN [c |-> r.c, s |-> rewind_one(r.s)]

\* advance_until_separator(): the token up to white space, or up to an
\* operator that is not its first character (stepped back over), and NULL
\* if the file ends first.
advance_until_separator(s) ==
  LET i == FirstOf({k \in Ahead(s) : isspace(file[k]) \/ (is_operator(file[k]) /\ k > s.pos + 1)})
      tok == SubSeq(file, s.pos + 1, i - 1)
  IN CASE i = 0 -> [tok |-> NULL, s |-> AtEnd]
       [] isspace(file[i]) -> [tok |-> tok, s |-> [s EXCEPT !.pos = i]]
       [] OTHER -> [tok |-> tok, s |-> rewind_one([s EXCEPT !.pos = i])]

\* skip_line's loop: up to and including the next newline.
to_line_end(s) ==
  LET i == FirstOf({k \in Ahead(s) : file[k] = NL})
  IN IF i = 0 THEN AtEnd ELSE [s EXCEPT !.pos = i]

\* Mutant: the rest of the line skipped without first stepping back.
SkipLineNoRewind(s) == to_line_end(s)

skip_line(s) == to_line_end(rewind_one(s))

\* The one element of a one-element set.  The parser binds the result of
\* each recursive call once, as the bound variable of {x : r \in {call}},
\* so that TLC's coverage analysis expands every call once.
Only(S) == CHOOSE x \in S : TRUE

\* factor, term and expression call each other; each returns the tree n
\* (or NULL) and the stream s.
RECURSIVE factor(_), term(_), expression(_), term_loop(_, _), expression_loop(_, _)

factor(s) ==
  LET p == peek(s)
  IN CASE p.c = NUL -> [n |-> NULL, s |-> p.s]
       [] p.c = LPAREN ->
            Only({ LET close == advance(e.s)
                   IN IF close.c # RPAREN THEN [n |-> NULL, s |-> rewind_one(close.s)]
                      ELSE [n |-> e.n, s |-> close.s]
                   : e \in {expression(advance(p.s).s)} })
       [] is_variable_name(p.c) ->
            LET v == advance(p.s) IN [n |-> init_var_node(v.c), s |-> v.s]
       [] is_number_start(p.c) ->
            LET t == advance_until_separator(p.s) IN [n |-> init_num_node(t.tok), s |-> t.s]
       [] OTHER -> [n |-> NULL, s |-> p.s]

\* term's while loop with result = acc: * and / are left-associative.
term_loop(acc, s) ==
  LET next == advance(s)
  IN IF next.c \notin {STAR, SLASH} THEN [n |-> acc, s |-> rewind_one(next.s)]
     ELSE Only({ term_loop(init_binary_node(next.c, acc, f.n), f.s) : f \in {factor(next.s)} })

term(s) == Only({ term_loop(f.n, f.s) : f \in {factor(s)} })

expression_loop(acc, s) ==
  LET next == advance(s)
  IN IF next.c \notin {PLUS, MINUS} THEN [n |-> acc, s |-> rewind_one(next.s)]
     ELSE Only({ expression_loop(init_binary_node(next.c, acc, t.n), t.s) : t \in {term(next.s)} })

expression(s) ==
  LET p == peek(s)
  IN IF ~is_expression_start(p.c) THEN [n |-> NULL, s |-> p.s]
     ELSE Only({ expression_loop(t.n, t.s) : t \in {term(p.s)} })

comparison(s) ==
  Only({ LET op == advance(left.s)
         IN IF op.c \notin {LT, EQ, GT} THEN [n |-> NULL, s |-> op.s]
            ELSE Only({ [n |-> init_binary_node(op.c, left.n, right.n), s |-> right.s]
                        : right \in {expression(op.s)} })
         : left \in {expression(s)} })

\* statement(): a comment, GOTO, PRINT, LET, IF ... THEN statement, or a
\* label.  strcmp(NULL, "THEN"), when the file ends after the comparison,
\* dereferences NULL and the compiler dies with SIGSEGV.
RECURSIVE statement(_)
statement(s) ==
  LET next == advance_until_separator(s)
  IN CASE next.tok = NULL \/ next.tok = <<>> -> [n |-> NULL, s |-> next.s]
       [] next.tok[1] = HASH -> [n |-> NULL, s |-> skip_line(next.s)]
       [] next.tok = KwGOTO ->
            LET l == advance_until_separator(next.s) IN [n |-> init_goto_node(l.tok), s |-> l.s]
       [] next.tok = KwPRINT ->
            Only({ [n |-> init_print_node(e.n), s |-> e.s] : e \in {expression(next.s)} })
       [] next.tok = KwLET ->
            LET var == advance(next.s)
                eq == advance(var.s)
            IN CASE ~isupper(var.c) -> [n |-> NULL, s |-> var.s]
                 [] eq.c # EQ -> [n |-> NULL, s |-> eq.s]
                 [] OTHER -> Only({ [n |-> init_let_node(var.c, e.n), s |-> e.s]
                                    : e \in {expression(eq.s)} })
       [] next.tok = KwIF ->
            Only({ LET then == advance_until_separator(cond.s)
                   IN CASE then.tok = NULL -> [n |-> Segv, s |-> then.s]
                        [] then.tok # KwTHEN -> [n |-> NULL, s |-> then.s]
                        [] OTHER ->
                             Only({ IF branch.n = Segv THEN branch
                                    ELSE [n |-> init_cond_node(cond.n, branch.n), s |-> branch.s]
                                    : branch \in {statement(then.s)} })
                   : cond \in {comparison(next.s)} })
       [] OTHER -> [n |-> init_label_node(next.tok), s |-> next.s]

parse(s) == statement(s)

====
