----------------------------- MODULE MCRefHeap -----------------------------
(***************************************************************************)
(* Model-checking instance of RefHeap: two user globals, a pool of 54      *)
(* words (two halves of 27, enough for the singletons, a one-element      *)
(* list, an element int and the index int of a subscript), and the       *)
(* statement forms a session builds values and cycles with.               *)
(***************************************************************************)
EXTENDS RefHeap, TLC

CONSTANTS x, y

MCNames == {x, y}

Int1 == [k |-> "int", v |-> 1]
Name(n) == [k |-> "name", n |-> n]
ListOf(es) == [k |-> "list", es |-> es]

\* x = 1, x = y, x = [1], x[0] = y, del x, del x[0], gc(), for
\* either name.  Every expression here is one a real session can evaluate
\* without a collection in the middle of it.
MCStmts ==
  {[k |-> "assign", x |-> a, e |-> ex] : a \in MCNames, ex \in {Int1, ListOf(<<Int1>>)}}
  \cup {[k |-> "assign", x |-> a, e |-> Name(b)] : <<a, b>> \in {<<x, y>>, <<y, x>>}}
  \cup {[k |-> "setitem", x |-> a, i |-> 0, e |-> Name(b)] : a, b \in MCNames}
  \cup {[k |-> "del", x |-> a] : a \in MCNames}
  \cup {[k |-> "delitem", x |-> a, i |-> 0] : a \in MCNames}
  \cup {GcStmt}
\* The same statements and x = [gc()]: a collection while a list literal is
\* being built.
MCStmtsGcInList ==
  MCStmts \cup {[k |-> "assign", x |-> x, e |-> ListOf(<<[k |-> "gc"]>>)]}

\* The same statements and x = len(y), which raises TypeError when y is an int.
MCStmtsLen ==
  MCStmts \cup {[k |-> "assign", x |-> x, e |-> [k |-> "len", n |-> y]]}

IntLit(n) == [k |-> "int", v |-> n]
Op(o, l, r) == [k |-> "builtin", op |-> o, l |-> l, r |-> r]
NoneLit == [k |-> "single", h |-> NONE_REF]

\* Statements that build ints, None, bools and nested lists and apply the
\* operators to them: x = 1, x = None, x = [y], x = x + y, x = not y, and
\* the expression statements x == y, x < y, x and y, -x, x / 1, x[-1], for
\* either name.  No statement stores into an existing list, so no value
\* refers to itself, and no divisor is zero.
MCStmtsOps ==
  LET N(a) == Name(a)
      Assigned(a, b) == {IntLit(1), NoneLit, ListOf(<<N(b)>>), Op("add", N(a), N(b)),
                         [k |-> "not", e |-> N(b)]}
      Shown(a, b) ==
        {Op("eq", N(a), N(b)), Op("lt", N(a), N(b)), [k |-> "and", l |-> N(a), r |-> N(b)],
         Op("neg", N(a), NoOperand), Op("div", N(a), IntLit(1)),
         [k |-> "subscript", obj |-> N(a), index |-> Op("neg", IntLit(1), NoOperand)]}
  IN UNION {{[k |-> "assign", x |-> a, e |-> ex] : ex \in Assigned(a, b)}
            \cup {[k |-> "expr", e |-> ex] : ex \in Shown(a, b)} : a, b \in MCNames}

\* The two names play the same role in MCStmts and in every property.
NameSymmetry == Permutations(MCNames)
=============================================================================
