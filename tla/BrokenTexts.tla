---------------------------- MODULE BrokenTexts ----------------------------
(***************************************************************************)
(* Texts with errors for the parser: every text that differs from one of a *)
(* few programs by one token lost, doubled, replaced or added; and         *)
(* programs with a broken statement between two of their statements.       *)
(***************************************************************************)
EXTENDS Texts

x   == ast_ident("x")
one == ast_lit("int", 1)
inc == ast_expr(ast_assign("x", ast_binary("add", x, one)))
neg == ast_unary("neg", x)
declx == ast_decl("int", "x", NullNode)
decly == ast_decl("bool", "y", one)
sum   == ast_binary("mul", ast_binary("sub", x, one), neg)
block(stmts) == ast_block(stmts)
fn(params, stmts) == ast_function("int", "f", params, ast_block(stmts))

-----------------------------------------------------------------------------
(* One token wrong.                                                        *)
Sources ==
    {block(<<declx, inc>>),
     block(<<ast_if(x, ast_expr(one), ast_return(sum))>>),
     block(<<ast_while(neg, block(<<inc>>)), ast_expr(x)>>),
     block(<<ast_for(x, one, x, inc)>>),
     block(<<fn(<<declx, ast_decl("bool", "y", NullNode)>>, <<decly, ast_return(x)>>)>>),
     block(<<ast_expr(ast_call("f", <<x, ast_assign("x", one)>>)), ast_return(NullNode)>>)}

Stray ==
    {IdToken("y"), LitToken(one), TypeToken("bool"), OpToken("sub"), OpToken("mul"), NotToken}
    \cup {Mark(s) : s \in {"(", ")", "{", "}", "=", ",", ";", "if", "else", "while", "for", "return",
                           "function", "ERROR"}}

Edited(text) ==
    UNION {{RemoveAt(text, i), InsertAt(text, i, text[i])}
              \cup {InsertAt(text, i, t) : t \in Stray}
              \cup {ReplaceAt(text, i, t) : t \in Stray} : i \in DOMAIN text}

Misspelt == UNION {Edited(Text(p)) : p \in Sources}

-----------------------------------------------------------------------------
(* One statement broken: it stands where a block of the program has no     *)
(* statement, or where a branch or a body is the empty statement.          *)
Gap     == ast_return(ast_ident("y"))
Opt(gap) == IF gap = <<>> THEN NullNode ELSE gap[1]

Around(gap) ==
    <<block(<<declx>> \o gap \o <<inc>>),
     block(<<block(<<block(gap \o <<inc>>), declx>>), inc>>),
     block(<<fn(<<declx>>, <<decly>> \o gap \o <<ast_return(sum)>>), inc>>),
     block(<<declx, ast_if(x, Opt(gap), inc)>>),
     block(<<ast_if(x, inc, Opt(gap)), inc>>),
     block(<<fn(<<>>, <<ast_while(x, block(<<ast_for(x, x, one, Opt(gap)), decly>>))>>), declx>>)>>

Broken == {T(")"), T("=") \o T(")"), <<IdToken("x"), IdToken("y")>>, <<TypeToken("int")>>,
           <<TypeToken("int"), IdToken("f")>> \o T("(") \o <<TypeToken("int")>>,
           <<IdToken("f")>> \o T("(") \o <<LitToken(one)>> \o T("{"), T("for") \o T("(") \o T("{"),
           T("if") \o T("(") \o <<LitToken(one)>>, T("else") \o T("ERROR"),
           T("return") \o T("return") \o T("(")}

Break(text, broken) == ReplaceFirstSubSeq(broken \o T(";"), StmtText(Gap), text)

Around0 == Around(<<>>)
BrokenIn == [i \in DOMAIN Around0 |-> {Break(Text(Around(<<Gap>>)[i]), w) : w \in Broken}]

(* The scanner leaves the process where a comment is not closed.           *)
Unclosed == {SubSeq(Text(p), 1, n) \o T("unclosed") : p \in Sources, n \in {0, 3, 6}}

All == Misspelt \cup Unclosed \cup UNION Range(BrokenIn)
=============================================================================
