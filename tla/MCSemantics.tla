---------------------------- MODULE MCSemantics ----------------------------
(***************************************************************************)
(* The analyzer against the typing rules: every operator, assignment and   *)
(* call over operands of every type, in the places that ask for a type;    *)
(* and all sequences of three statements that open scopes, declare,        *)
(* shadow, use and define.                                                 *)
(***************************************************************************)
EXTENDS SemanticAnalyzer, Nodes, Typing

MCNames == {"", "_entry", "x", "b", "s", "u", "f", "g", "h"}
MCHash  == [n \in MCNames |-> IF n \in {"x", "b", "u"} THEN 0 ELSE 1]

int(v)  == ast_lit("int", v)
bool    == ast_lit("bool", 1)
float   == ast_lit("float", 1)
x       == ast_ident("x")
declare(type, name) == ast_decl(type, name, NullNode)
fn(name, ret_type, params, stmts) == ast_function(ret_type, name, params, ast_block(stmts))
call(name, args) == ast_call(name, args)

-----------------------------------------------------------------------------
(* Expressions, after: int x; bool b; string s; int f(int x); void g().    *)
Prelude ==
    <<declare("int", "x"), declare("bool", "b"), declare("string", "s"),
      fn("f", "int", <<declare("int", "x")>>, <<ast_return(x)>>), fn("g", "void", <<>>, <<>>)>>

Leaves ==
    {int(1), float, bool, x, ast_ident("b"), ast_ident("s"), ast_ident("u"),
     call("f", <<x>>), call("g", <<>>), call("f", <<>>), call("h", <<ast_ident("u")>>),
     ast_assign("x", float)}

Deep ==
    {ast_binary(op, l, r) : op \in {"add", "div", "lt", "eq", "and"}, l, r \in Leaves}
    \cup {ast_unary(op, e) : op \in UnOps, e \in Leaves}
    \cup {ast_assign(n, e) : n \in {"x", "b", "u"}, e \in Leaves}
    \cup {call("f", <<e>>) : e \in Leaves}
    \cup {call("f", <<e, d>>) : e \in {bool, x}, d \in {x, ast_ident("u")}}
    \cup {ast_assign("x", ast_assign("b", e)) : e \in Leaves}

With(stmt) == ast_block(Append(Prelude, stmt))

ExprPrograms ==
    {With(ast_expr(e)) : e \in Deep}
    \cup {With(ast_decl("float", "u", e)) : e \in Deep}
    \cup UNION {{With(ast_if(e, NullNode, NullNode)), With(ast_while(e, declare("int", "x"))),
                 With(ast_for(e, bool, e, NullNode)), With(ast_for(int(1), e, x, NullNode)),
                 With(fn("h", "float", <<>>, <<ast_return(e)>>)),
                 With(fn("h", "void", <<>>, <<ast_return(e)>>)),
                 With(ast_expr(call("h", <<e>>)))} :
                e \in Leaves \cup {ast_assign("b", bool)}}

-----------------------------------------------------------------------------
(* Scopes.                                                                 *)
Steps ==
    {declare("int", "x"), declare("bool", "x"), ast_decl("int", "x", x),
     ast_expr(ast_assign("x", int(1))),
     ast_block(<<declare("bool", "x"), ast_expr(ast_assign("x", bool))>>),
     ast_if(bool, declare("int", "x"), ast_expr(x)),
     ast_expr(call("f", <<int(1)>>)), ast_expr(call("h", <<>>)),
     ast_return(NullNode), ast_return(x),
     fn("f", "int", <<declare("int", "x")>>, <<declare("bool", "x"), ast_return(x)>>),
     fn("f", "bool", <<declare("int", "x"), declare("bool", "x")>>, <<ast_return(x)>>),
     fn("f", "void", <<declare("int", "x")>>,
        <<fn("h", "int", <<>>, <<ast_return(x)>>), ast_return(NullNode)>>)}

ScopePrograms == {ast_block(<<r, s, t>>) : r, s, t \in Steps}

AllPrograms == ExprPrograms \cup ScopePrograms
NodesOfAll  == AllStmts(AllPrograms)
ExprsOfAll  == AllExprs(NodesOfAll)

(* TLC evaluates a definition once, but one a constant stands for at every *)
(* use of the constant: these are cheap.                                   *)
MCPrograms == AllPrograms
MCStmts    == NodesOfAll
MCExprs    == ExprsOfAll

-----------------------------------------------------------------------------
(* A program passes without an error if and only if it is correct.         *)
AcceptsIffValid == Done => (semantics_ok <=> Valid(ast))
=============================================================================
