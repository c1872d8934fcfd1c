------------------------------- MODULE Nodes -------------------------------
(***************************************************************************)
(* The nodes a set of programs is made of, for the constants Exprs and     *)
(* Stmts of the runs.  Four levels below the top ones are enough for them: *)
(* the assumptions on the constants fail if a node is missing.             *)
(***************************************************************************)
EXTENDS Ast

Elements(s) == {s[i] : i \in DOMAIN s}

(* The expressions right below an expression.                              *)
Operands(e) ==
    CASE e.kind = "unary"  -> {e.expr}
      [] e.kind = "binary" -> {e.left, e.right}
      [] e.kind = "assign" -> {e.value}
      [] e.kind = "call"   -> Elements(e.args)
      [] OTHER             -> {}

(* The expressions and the statements right below a statement.             *)
Conditions(s) ==
    CASE s.kind \in {"expr", "return"} -> {s.expr} \ {NullNode}
      [] s.kind = "decl"               -> {s.init} \ {NullNode}
      [] s.kind \in {"if", "while"}    -> {s.cond}
      [] s.kind = "for"                -> {s.init, s.cond, s.step}
      [] OTHER                         -> {}
Parts(s) ==
    CASE s.kind = "block"            -> Elements(s.stmts)
      [] s.kind = "if"               -> {s.then, s.else} \ {NullNode}
      [] s.kind \in {"while", "for"} -> {s.body} \ {NullNode}
      [] s.kind = "function"         -> Elements(s.params) \cup {s.body}
      [] OTHER                       -> {}

DeeperExprs(E) == E \cup UNION {Operands(e) : e \in E}
DeeperStmts(S) == S \cup UNION {Parts(s) : s \in S}

AllStmts(programs) == DeeperStmts(DeeperStmts(DeeperStmts(DeeperStmts(programs))))
AllExprs(stmts) ==
    DeeperExprs(DeeperExprs(DeeperExprs(DeeperExprs(UNION {Conditions(s) : s \in stmts}))))
=============================================================================
