----------------------------- MODULE MCCompiler -----------------------------
(***************************************************************************)
(* Compiler over the programs of module Programs.                          *)
(***************************************************************************)
EXTENDS Compiler, Programs

(* For the finding: void f() { int x; if (x < 1) x = x + 1; }              *)
VoidFunction == fn("f", "void", <<>>, <<declx, ast_if(lt, expr(inc), NullNode)>>)
VoidProgram  == {ast_block(<<VoidFunction>>)}
VoidStmts    == SmallStmts \cup Elements(VoidFunction.body.stmts) \cup {VoidFunction, VoidFunction.body}
=============================================================================
