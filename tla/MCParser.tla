------------------------------ MODULE MCParser ------------------------------
(***************************************************************************)
(* The parser on the texts of small programs, whose trees it has to find   *)
(* again, and on texts with errors.                                        *)
(***************************************************************************)
EXTENDS Parser, Texts, Programs

Bad == INSTANCE BrokenTexts

MCNames == SmallNames \cup {"a", "b"}

-----------------------------------------------------------------------------
(* Programs: those of the builder; all pairs of operators, nested to the   *)
(* left and to the right, under "!", "-", "=" and a call; an "else" after  *)
(* two "if".                                                               *)
a == ast_ident("a")
b == ast_ident("b")

Pairs ==
    {ast_binary(p, ast_binary(q, a, b), one) : p, q \in BinOps}
    \cup {ast_binary(p, a, ast_binary(q, b, one)) : p, q \in BinOps}
    \cup {ast_unary(o, ast_binary(p, a, b)) : o \in UnOps, p \in BinOps}
    \cup {ast_binary(p, ast_unary(o, a), ast_unary(o, b)) : o \in UnOps, p \in BinOps}
    \cup {ast_binary(p, ast_assign("a", b), ast_assign("b", one)) : p \in BinOps}
    \cup {ast_assign("a", ast_assign("b", ast_binary(p, a, one))) : p \in BinOps}
    \cup {ast_call("f", <<ast_binary(p, a, b), ast_assign("a", ast_binary(p, b, a))>>) : p \in BinOps}
    \cup {ast_unary(o, ast_unary(q, a)) : o, q \in UnOps}

Params == <<ast_decl("int", "a", NullNode), ast_decl("string", "b", NullNode)>>
Dangling ==
    {ast_if(a, ast_if(b, expr(x), expr(y)), NullNode),
     ast_if(a, ast_if(b, expr(x), expr(y)), expr(one)),
     ast_if(a, ast_block(<<ast_if(b, expr(x), NullNode)>>), expr(y)),
     ast_if(a, ast_while(b, ast_if(x, NullNode, expr(y))), NullNode),
     ast_if(a, expr(x), ast_if(b, ast_for(a, b, x, NullNode), expr(y)))}

ParsedPrograms ==
    SmallPrograms
    \cup {ast_block(<<expr(e)>>) : e \in Pairs}
    \cup {ast_block(<<s, expr(x)>>) : s \in Dangling}
    \cup {ast_block(<<fn("f", "bool", Params, <<s>>), fn("g", "void", <<declx>>, <<expr(a)>>)>>) : s \in Dangling}

TextOf == [p \in ParsedPrograms |-> Text(p)]
GoodTexts == {TextOf[p] : p \in ParsedPrograms}
Inputs0   == GoodTexts \cup Bad!All
MCInputs  == Inputs0

-----------------------------------------------------------------------------
Stopped == status \in {"accepted", "aborted", "exited"}

(* The tree of a program's text is the program, and no error is counted:   *)
(* the precedences and the "else" of parser.y group it as it was written.  *)
RoundTrip ==
    Stopped /\ input \in GoodTexts =>
        /\ parse_ok
        /\ g_program_ast \in ParsedPrograms
        /\ TextOf[g_program_ast] = input

(* A text that is accepted without an error is in the tree, every word of  *)
(* it and in its order (brackets, separators and "else" have no node).    *)
Words(text) == SelectSeq(text, LAMBDA t : t.s \notin {"(", ")", ",", ";", "else"})
NothingLost == Stopped /\ parse_ok => Words(Text(g_program_ast)) = Words(input)

(* A broken statement is reported and costs the tree that statement only:  *)
(* recovery (parser.y, "error SEMICOLON") keeps what surrounds it.         *)
LossIsLocal ==
    \A i \in DOMAIN Bad!Around0 :
        Stopped /\ input \in Bad!BrokenIn[i] => g_program_ast = Bad!Around0[i] /\ ~parse_ok
=============================================================================
