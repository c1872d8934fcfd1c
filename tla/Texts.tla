------------------------------- MODULE Texts -------------------------------
(***************************************************************************)
(* The text of a tree, as tokens: no more parentheses than the precedences *)
(* of docs/gramatica.md ask for.  The reference the parser is checked      *)
(* against.                                                                *)
(***************************************************************************)
EXTENDS Tokens, SequencesExt

T(s) == <<Mark(s)>>

(* How tight an expression binds: 0 for an assignment, 8 for an operand.   *)
Level(e) ==
    CASE e.kind = "assign" -> 0
      [] e.kind = "binary" -> Prec[e.op]
      [] e.kind = "unary"  -> 7
      [] OTHER             -> 8

RECURSIVE ExprText(_, _), StmtText(_)

(* The expression where one that binds at least so tight is expected.      *)
ExprText(e, level) ==
    LET List == [i \in DOMAIN e.args |->
                    (IF i = 1 THEN <<>> ELSE T(",")) \o ExprText(e.args[i], 0)]
        Plain == CASE e.kind = "assign" -> <<IdToken(e.name)>> \o T("=") \o ExprText(e.value, 0)
                  [] e.kind = "binary" ->
                        ExprText(e.left, Prec[e.op]) \o <<OpToken(e.op)>>
                            \o ExprText(e.right, Prec[e.op] + 1)
                  [] e.kind = "unary"  ->
                        <<IF e.op = "not" THEN NotToken ELSE OpToken("sub")>> \o ExprText(e.expr, 7)
                  [] e.kind = "call"   ->
                        <<IdToken(e.name)>> \o T("(") \o FlattenSeq(List) \o T(")")
                  [] e.kind = "ident"  -> <<IdToken(e.name)>>
                  [] OTHER             -> <<LitToken(e)>>
    IN  IF Level(e) >= level THEN Plain ELSE T("(") \o Plain \o T(")")

DeclText(d) == <<TypeToken(d.type), IdToken(d.name)>>
AllText(stmts) == FlattenSeq([i \in DOMAIN stmts |-> StmtText(stmts[i])])

StmtText(s) ==
    LET Cond == T("(") \o ExprText(s.cond, 0) \o T(")")
        Params == FlattenSeq([i \in DOMAIN s.params |->
                      (IF i = 1 THEN <<>> ELSE T(",")) \o DeclText(s.params[i])])
    IN  CASE s.kind = "null"   -> T(";")
          [] s.kind = "expr"   -> ExprText(s.expr, 0) \o T(";")
          [] s.kind = "decl"   ->
                DeclText(s) \o (IF s.init = NullNode THEN <<>> ELSE T("=") \o ExprText(s.init, 0)) \o T(";")
          [] s.kind = "block"  -> T("{") \o AllText(s.stmts) \o T("}")
          [] s.kind = "if"     ->
                T("if") \o Cond \o StmtText(s.then)
                    \o (IF s.else = NullNode THEN <<>> ELSE T("else") \o StmtText(s.else))
          [] s.kind = "while"  -> T("while") \o Cond \o StmtText(s.body)
          [] s.kind = "for"    ->
                T("for") \o T("(") \o ExprText(s.init, 0) \o T(";") \o ExprText(s.cond, 0) \o T(";")
                    \o ExprText(s.step, 0) \o T(")") \o StmtText(s.body)
          [] s.kind = "return" ->
                T("return") \o (IF s.expr = NullNode THEN <<>> ELSE ExprText(s.expr, 0)) \o T(";")
          [] s.kind = "function" ->
                <<TypeToken(s.ret_type), IdToken(s.name)>> \o T("(") \o Params \o T(")")
                    \o StmtText(s.body)

Text(program) == AllText(program.stmts)
=============================================================================
