------------------------------ MODULE MCDriver ------------------------------
(***************************************************************************)
(* The whole compiler on texts of programs with and without type errors    *)
(* and on texts with syntax errors.                                        *)
(*                                                                         *)
(* The programs have no function inside a function, of which no code is    *)
(* printed (ir_builder.c:502), and the finding is about the names that     *)
(* functions use.                                                          *)
(***************************************************************************)
EXTENDS Driver

Source == INSTANCE Texts
Rules  == INSTANCE Typing

MCNames == {"", "_entry", "x", "y", "b", "f", "g"}
MCHash  == [n \in MCNames |-> IF n \in {"x", "f", "g"} THEN 0 ELSE 1]

int(n) == ast_lit("int", n)
tru    == ast_lit("bool", 1)
x == ast_ident("x")
y == ast_ident("y")
declare(t, name) == ast_decl(t, name, NullNode)
set(name, e)     == ast_expr(ast_assign(name, e))
op(o, l, r)      == ast_binary(o, l, r)
block(stmts)     == ast_block(stmts)
fn(ret, name, params, stmts) == ast_function(ret, name, params, block(stmts))
call(name, args) == ast_expr(ast_call(name, args))

f0 == fn("int", "f", <<declare("int", "x")>>,
         <<declare("int", "y"), set("y", op("mul", x, x)), ast_return(y)>>)
g0 == fn("void", "g", <<declare("bool", "b"), declare("int", "x")>>,
         <<ast_if(ast_ident("b"), ast_return(NullNode), NullNode)>>)

(* Statements that declare, read, assign and call, alone and in scopes.    *)
Plain ==
    {declare("int", "x"), ast_decl("int", "x", int(1)), ast_decl("bool", "y", tru),
     ast_decl("int", "y", ast_assign("x", int(1))),
     set("x", op("add", x, int(1))), set("y", x), call("f", <<x>>), call("f", <<>>),
     call("g", <<tru, ast_call("f", <<int(1)>>)>>), ast_expr(op("and", op("lt", x, int(2)), y)),
     ast_return(NullNode)}
Scoped ==
    {block(<<s>>) : s \in Plain}
    \cup {ast_if(tru, s, declare("int", "y")) : s \in Plain}
    \cup {ast_while(tru, block(<<s, set("x", x)>>)) : s \in Plain}
    \cup {ast_for(ast_assign("x", int(0)), op("lt", x, int(2)), ast_assign("y", x), s) : s \in Plain}

Sources ==
    {block(<<s, t>>) : s \in Plain, t \in Plain \cup Scoped}
    \cup {block(<<s, t>>) : s \in Scoped, t \in Plain}
    \cup {block(<<f0, declare("int", "x"), t, g0, s>>) : s, t \in Plain}
    \cup {block(<<f0, g0, declare("int", "x"), s, t>>) : s \in Scoped, t \in {set("y", x), set("x", int(1))}}

Text(p)    == Source!Text(p)
TextsOf(P) == {Source!Text(p) : p \in P}
Correct == TextsOf({p \in Sources : Rules!Valid(p)})

(* A type, a bracket or a separator lost, and a file that ends inside a    *)
(* comment.                                                                *)
Without(text, i) == SubSeq(text, 1, i - 1) \o SubSeq(text, i + 1, Len(text))
Whole ==
    Text(block(<<f0, declare("int", "x"), call("f", <<x>>), g0, call("g", <<tru, ast_call("f", <<int(1)>>)>>)>>))
Needed == {"TYPE", "(", ")", "{", "}", ";", ","}
Broken == {Without(Whole, i) : i \in {j \in DOMAIN Whole : Whole[j].s \in Needed}}
Unclosed == {SubSeq(Whole, 1, n) \o <<Source!Mark("unclosed")>> : n \in {0, 7, Len(Whole)}}

Files    == TextsOf(Sources) \cup Broken \cup Unclosed
MCInputs == Files

(* For the finding: int f(int x) { return x + x; }                         *)
ParamInputs == TextsOf({block(<<fn("int", "f", <<declare("int", "x")>>, <<ast_return(op("add", x, x))>>)>>)})

-----------------------------------------------------------------------------
(* The compiler leaves with 0 if and only if the file is the text of a     *)
(* correct program (and could be read), and then it has printed all of its *)
(* functions and _entry; otherwise it prints nothing.                      *)
Functions(p) == SelectSeq(p.stmts, LAMBDA s : s.kind = "function")
ExitCode ==
    Exited =>
        /\ code = 0 <=> input \in Correct /\ parsing # "unreadable"
        /\ IF code = 0
           THEN /\ Text(g_program_ast) = input
                /\ [i \in DOMAIN js |-> js[i].name]
                      = Append([i \in DOMAIN Functions(g_program_ast) |-> Functions(g_program_ast)[i].name], "_entry")
           ELSE js = <<>>
=============================================================================
