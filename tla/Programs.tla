------------------------------ MODULE Programs ------------------------------
(***************************************************************************)
(* Small source programs for the model checker, as the parser would build  *)
(* them, and the nodes they are made of.  The expressions nest operators,  *)
(* assignments and calls to depth three; the statements nest every         *)
(* compound statement in every other one.                                  *)
(***************************************************************************)
EXTENDS Ast

SmallNames == {"", "_entry", "main", "f", "g", "h", "x", "y"}

one == ast_lit("int", 1)
tru == ast_lit("bool", 1)
x   == ast_ident("x")
y   == ast_ident("y")

g0  == ast_call("g", <<>>)
lt  == ast_binary("lt", x, one)
land == ast_binary("and", lt, g0)
lor  == ast_binary("or", x, ast_assign("y", one))
inc == ast_assign("x", ast_binary("add", x, one))

Operands == {one, x, g0, land, ast_assign("y", x)}

(* One expression of every kind over every operand, and a few deeper ones. *)
Expressions ==
    Operands \cup {tru, lor, inc, y}
    \cup {ast_unary(op, e) : op \in UnOps, e \in Operands}
    \cup {ast_binary(op, e, d) : op \in {"sub", "eq", "and", "or"}, e, d \in Operands}
    \cup {ast_assign("x", e) : e \in Operands}
    \cup {ast_call("g", <<e, d>>) : e, d \in Operands}
    \cup {ast_binary("or", land, ast_unary("not", lor)), ast_assign("x", ast_assign("y", lor))}

declx == ast_decl("int", "x", NullNode)
expr(e) == ast_expr(e)

Simple ==
    {declx, ast_decl("int", "x", one), ast_decl("int", "y", inc), expr(inc), expr(land),
     ast_return(NullNode), ast_return(lt), ast_block(<<declx, expr(inc)>>)}

(* Compound statements; Bodies is what their branches and bodies may be.   *)
Compound(Bodies) ==
    {ast_if(lor, s, t) : s \in Bodies, t \in {NullNode, expr(inc)}}
    \cup {ast_while(c, s) : c \in {lt, land}, s \in Bodies}
    \cup {ast_for(i, lt, inc, s) : i \in {one, ast_assign("x", one)}, s \in Bodies}
    \cup {ast_block(<<s, declx>>) : s \in Bodies \ {NullNode}}

Flat   == Compound(Simple \cup {NullNode})
Inner  == {ast_if(lt, ast_return(x), ast_block(<<declx>>)),
           ast_while(lt, expr(inc)), ast_block(<<ast_decl("int", "y", land), expr(g0)>>)}
Nested == Compound(Inner)
Statements == Simple \cup Flat \cup Nested

fn(name, ret_type, params, stmts) == ast_function(ret_type, name, params, ast_block(stmts))
main(stmts) == ast_block(<<fn("main", "int", <<>>, stmts)>>)

(* One statement inside a function; every pair of flat statements; every   *)
(* expression; and several functions with global code between them.        *)
SmallPrograms ==
    {main(<<s, ast_return(x)>>) : s \in Statements}
    \cup {main(<<expr(e)>>) : e \in Expressions}
    \cup {main(<<s, t>>) : s, t \in Simple}
    \cup {ast_block(<<expr(inc), fn("f", "void", <<declx>>, <<s>>),
                      ast_while(lt, ast_block(<<s>>)),
                      fn("g", "int", <<>>, <<fn("h", "int", <<>>, <<expr(inc)>>), ast_return(one)>>)>>) :
            s \in Simple}

-----------------------------------------------------------------------------
(* All the nodes of these programs (AstAssumption of IrBuilder checks that *)
(* none is missing).                                                       *)

Elements(s) == {s[i] : i \in DOMAIN s}

SmallExprs ==
    Expressions \cup {lt, ast_assign("y", one), ast_assign("y", lor), ast_unary("not", lor),
                     ast_assign("x", one), ast_binary("add", x, one)}

TopLevel == UNION {Elements(p.stmts) : p \in SmallPrograms}
InnerFunctions == {fn("h", "int", <<>>, <<expr(inc)>>)}
FunctionBodies == {n.body : n \in {m \in TopLevel \cup InnerFunctions : m.kind = "function"}}

SmallStmts ==
    TopLevel \cup InnerFunctions \cup FunctionBodies
    \cup UNION {Elements(b.stmts) : b \in FunctionBodies}
    \cup Statements \cup Inner \cup {ast_return(x), ast_block(<<declx>>), ast_decl("int", "y", land), expr(g0)}
=============================================================================
