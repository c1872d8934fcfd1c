------------------------------ MODULE Meaning ------------------------------
(***************************************************************************)
(* What a source program means, for the comparison with the JavaScript it  *)
(* is translated to: the values its variables end with and the calls it    *)
(* makes.  A reference for correct programs that declare a name once;      *)
(* divisions come out even and a function is known by its result only.     *)
(***************************************************************************)
EXTENDS Ast, Functions

Num(n)  == [t |-> "num", v |-> n]
Bool(b) == [t |-> "bool", v |-> IF b THEN 1 ELSE 0]
True(x) == x = Bool(TRUE)

(* Every call returns the number of its arguments.                         *)
Answer(args) == Num(Len(args))

Arithmetic(op, m, n) ==
    CASE op = "add" -> m + n
      [] op = "sub" -> m - n
      [] op = "mul" -> m * n
      [] op = "div" -> m \div n
Compared(op, m, n) ==
    CASE op = "lt" -> m < n
      [] op = "le" -> m <= n
      [] op = "gt" -> m > n
      [] op = "ge" -> m >= n

Apply(op, a, b) ==
    CASE op \in ArithOps   -> Num(Arithmetic(op, a.v, b.v))
      [] op = "eq"         -> Bool(a = b)
      [] op = "ne"         -> Bool(a # b)
      [] OTHER             -> Bool(Compared(op, a.v, b.v))

-----------------------------------------------------------------------------
(* A state: the variables and the calls so far.                            *)
Nothing == [env |-> [n \in {} |-> Num(0)], calls |-> <<>>]
Assign(s, name, v) ==
    [s EXCEPT !.env = [n \in DOMAIN @ \cup {name} |-> IF n = name THEN v ELSE @[n]]]

RECURSIVE Value(_, _), Arguments(_, _), Run(_, _), RunAll(_, _)

(* The value of an expression and the state after it.                      *)
Value(e, s) ==
    LET Of(v) == [v |-> v, s |-> s]
    IN  CASE e.kind \in {"int", "float"} -> Of(Num(e.value))
          [] e.kind = "bool"   -> Of(Bool(e.value # 0))
          [] e.kind = "ident"  -> Of(s.env[e.name])
          [] e.kind = "unary"  ->
                LET r == Value(e.expr, s)
                IN  [r EXCEPT !.v = IF e.op = "neg" THEN Num(-@.v) ELSE Bool(~True(@))]
          [] e.kind = "binary" ->
                LET left  == Value(e.left, s)
                    right == Value(e.right, left.s)
                IN  CASE e.op = "and" -> IF True(left.v) THEN right ELSE left
                      [] e.op = "or"  -> IF True(left.v) THEN left ELSE right
                      [] OTHER        -> [right EXCEPT !.v = Apply(e.op, left.v, @)]
          [] e.kind = "assign" ->
                LET r == Value(e.value, s) IN [r EXCEPT !.s = Assign(@, e.name, r.v)]
          [] e.kind = "call"   ->
                LET r == Arguments(e.args, s)
                IN  [v |-> Answer(r.vs),
                     s |-> [r.s EXCEPT !.calls = Append(@, [callee |-> e.name, args |-> r.vs])]]

Arguments(args, s) ==
    IF args = <<>> THEN [vs |-> <<>>, s |-> s]
    ELSE LET first == Value(Head(args), s)
             more  == Arguments(Tail(args), first.s)
         IN  [more EXCEPT !.vs = <<first.v>> \o @]

(* The state after a statement.                                            *)
Run(n, s) ==
    CASE n.kind = "expr"   -> Value(n.expr, s).s
      [] n.kind = "assign" -> Value(n, s).s
      [] n.kind = "decl" /\ n.init # NullNode ->
            LET r == Value(n.init, s) IN Assign(r.s, n.name, r.v)
      [] n.kind = "block"  -> RunAll(n.stmts, s)
      [] n.kind = "if"     ->
            LET c == Value(n.cond, s) IN Run(IF True(c.v) THEN n.then ELSE n.else, c.s)
      [] n.kind = "while"  ->
            LET c == Value(n.cond, s) IN IF True(c.v) THEN Run(n, Run(n.body, c.s)) ELSE c.s
      [] n.kind = "for"    ->
            Run(ast_while(n.cond, ast_block(<<n.body, ast_expr(n.step)>>)), Run(n.init, s))
      [] OTHER             -> s

RunAll(stmts, s) == IF stmts = <<>> THEN s ELSE RunAll(Tail(stmts), Run(Head(stmts), s))
=============================================================================
