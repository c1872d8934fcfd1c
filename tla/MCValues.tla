------------------------------ MODULE MCValues ------------------------------
(***************************************************************************)
(* Global code run after its translation, against what the source means.   *)
(*                                                                         *)
(* The programs keep to what the translation gets right, which is not a    *)
(* copy of a variable (the finding), a variable that changes inside the    *)
(* expression that reads it, a variable as an argument, "!", "&&" and "||",*)
(* shadowing, or a return in the global code.                              *)
(***************************************************************************)
EXTENDS Values, Nodes

MCNames == {"", "_entry", "x", "y", "b", "c", "f", "g"}

int(n) == ast_lit("int", n)
tru    == ast_lit("bool", 1)
fls    == ast_lit("bool", 0)
x == ast_ident("x")
y == ast_ident("y")
b == ast_ident("b")
op(o, l, r)   == ast_binary(o, l, r)
set(name, e)  == ast_expr(ast_assign(name, e))
let(type, name, e) == ast_decl(type, name, e)
call(name, args)   == ast_call(name, args)
block(stmts)  == ast_block(stmts)

-----------------------------------------------------------------------------
incx == set("x", op("add", x, int(1)))

Statements ==
    {incx, set("x", op("sub", op("mul", x, y), ast_unary("neg", y))),
     set("y", call("f", <<>>)), set("y", op("add", call("f", <<op("add", x, y), int(2)>>), x)),
     set("b", op("ne", op("le", y, x), b)), set("b", op("eq", x, y)),
     ast_expr(call("g", <<op("div", op("mul", x, int(2)), int(2)), op("gt", x, y)>>)),
     block(<<let("int", "c", op("mul", x, x)), set("x", op("sub", ast_ident("c"), y))>>)}

Conds == {op("lt", x, y), b, op("ge", call("f", <<tru>>), int(1))}

(* Loops count x up; what they repeat leaves it alone.                     *)
Repeated ==
    {set("y", op("add", y, x)), set("b", op("eq", op("eq", x, int(1)), b)),
     ast_expr(call("g", <<op("add", x, int(0))>>)),
     ast_if(op("eq", x, int(1)), set("y", call("f", <<>>)), ast_expr(call("g", <<>>)))}
While(s) == block(<<set("x", int(0)), ast_while(op("lt", x, int(3)), block(<<s, incx>>))>>)
For(s)   == ast_for(ast_assign("x", int(1)), op("le", x, int(2)), ast_assign("x", op("add", x, int(1))), s)
Loops    == {While(s) : s \in Repeated} \cup {For(s) : s \in Repeated \cup {NullNode}}

Branches(Bodies) == {ast_if(c, s, t) : c \in Conds, s \in Bodies, t \in {NullNode, incx, set("b", fls)}}

Declared == <<let("int", "x", int(1)), let("int", "y", int(2)), let("bool", "b", op("lt", x, y))>>
Report   == ast_expr(call("g", <<op("add", x, y)>>))

ValuePrograms ==
    {block(Declared \o <<s, t>>) : s, t \in Statements}
    \cup {block(Declared \o <<s, t>>) : s \in Branches(Statements), t \in Statements}
    \cup {block(Declared \o <<s, t, Report>>) : s, t \in Loops}
    \cup {block(Declared \o <<s, Report>>) :
              s \in Branches(Branches(Repeated) \cup Loops) \cup {While(r) : r \in Branches(Repeated)}}

-----------------------------------------------------------------------------
(* For the finding: int x = 1; int y = x; x = 2;                           *)
CopyProgram == {block(<<let("int", "x", int(1)), let("int", "y", x), set("x", int(2))>>)}

NodesOfAll == AllStmts(ValuePrograms \cup CopyProgram)
ExprsOfAll == AllExprs(NodesOfAll) \cup {s.init : s \in {r \in NodesOfAll : r.kind = "for"}}

MCPrograms == ValuePrograms
MCStmts    == NodesOfAll
MCExprs    == ExprsOfAll
=============================================================================
