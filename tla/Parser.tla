------------------------------- MODULE Parser -------------------------------
(***************************************************************************)
(* syntax_parse_path (syntax_analyzer.c) and the parser Bison makes of     *)
(* parser.y: a stack, one token of lookahead, and an action per production.*)
(*                                                                         *)
(* A symbol of the stack, like a token, has a name (s) and a semantic      *)
(* value (v).  The nonterminals from Expr down to Primary differ only in   *)
(* the operators they may hold and are one symbol "Expr"; Prec says when   *)
(* the one below an operator is complete.  A binary operator is the token  *)
(* "binop", "sub" also starts an operand.                                  *)
(***************************************************************************)
EXTENDS Tokens

CONSTANT Inputs          \* the token sequences the scanner may deliver

Tokens == {"TYPE", "id", "lit", "binop", "not", "(", ")", "{", "}", "=", ",", ";", "if", "else",
           "while", "for", "return", "function", "ERROR", "unclosed"}

(* A token comes with the value the actions of parser.y take from yylval.  *)
IsToken(t) ==
    /\ t.s \in Tokens
    /\ t.s = "TYPE"  => t.v.type \in TypeTags
    /\ t.s = "id"    => t.v.kind = "ident" /\ t.v.name \in Names
    /\ t.s = "lit"   => t.v.kind \in Literals /\ t.v.value \in Int
    /\ t.s = "binop" => t.v.op \in BinOps
ASSUME TokensAssumption ==
    \A x \in Inputs : x \in Seq({x[i] : i \in DOMAIN x}) /\ \A i \in DOMAIN x : IsToken(x[i])

VARIABLES input,         \* the tokens of the file
          rest,          \* those yylex has yet to deliver
          stack,         \* the symbols shifted and reduced, the top last
          g_params_buf,  \* the parameters between the two actions of FunctionDef
          g_program_ast,
          g_parse_errors,
          status         \* of syntax_parse_path
vars == <<input, rest, stack, g_params_buf, g_program_ast, g_parse_errors, status>>

-----------------------------------------------------------------------------
(* The stack.  The i-th symbol from the top; the lookahead.                *)
Nth(i) == stack[Len(stack) + 1 - i]
Val(i) == Nth(i).v
Name(i) == IF i <= Len(stack) THEN Nth(i).s ELSE "bottom"
OnTop(rhs) ==
    /\ Len(rhs) <= Len(stack)
    /\ \A i \in DOMAIN rhs : Name(Len(rhs) + 1 - i) = rhs[i]

EndOfFile == Mark("$end")
Lookahead == IF rest = <<>> THEN EndOfFile ELSE Head(rest)
la        == Lookahead.s

(* Where a statement may begin, if its first symbol is the i-th from the   *)
(* top; where an assignment may.                                           *)
BeginsStmt(i)   == Name(i + 1) \in {"StmtList", ")", "else"}
BeginsExpr(i)   == Name(i + 1) \notin {"binop", "unop"}
OfDeclaration(i) == Name(i + 1) = "TYPE"     \* the identifier is the i-th
OfCall(i) == Name(i) = "(" /\ Name(i + 1) = "id" /\ ~OfDeclaration(i + 1)

ExprStart == {"lit", "id", "(", "not"}
StartsExpr == la \in ExprStart \/ (la = "binop" /\ Lookahead.v.op = "sub")
StmtStart  == {"TYPE", "{", "if", "while", "for", "return", ";", "ERROR"}

(* The right sides.  "$@1" is the action in the middle of FunctionDef.     *)
Rhs == [
    stmts0     |-> <<>>,
    stmts      |-> <<"StmtList", "Stmt">>,
    exprstmt   |-> <<"Expr", ";">>,
    blockstmt  |-> <<"Block">>,
    return0    |-> <<"return", ";">>,
    return     |-> <<"return", "Expr", ";">>,
    empty      |-> <<";">>,
    bad        |-> <<"ERROR">>,
    recovered  |-> <<"error", ";">>,
    block      |-> <<"{", "StmtList", "}">>,
    declinit   |-> <<"TYPE", "id", "=", "Expr", ";">>,
    decl       |-> <<"TYPE", "id", ";">>,
    if         |-> <<"if", "(", "Expr", ")", "Stmt">>,
    ifelse     |-> <<"if", "(", "Expr", ")", "Stmt", "else", "Stmt">>,
    while      |-> <<"while", "(", "Expr", ")", "Stmt">>,
    for        |-> <<"for", "(", "Expr", ";", "Expr", ";", "Expr", ")", "Stmt">>,
    midrule    |-> <<>>,
    function   |-> <<"TYPE", "id", "(", "ParamList", ")", "$@1", "Block">>,
    param      |-> <<"TYPE", "id">>,
    params0    |-> <<>>,
    params1    |-> <<"Param">>,
    params     |-> <<"ParamList", ",", "Param">>,
    args0      |-> <<>>,
    args1      |-> <<"Expr">>,
    args       |-> <<"ArgList", ",", "Expr">>,
    assign     |-> <<"id", "=", "Expr">>,
    binary     |-> <<"Expr", "binop", "Expr">>,
    unary      |-> <<"unop", "Expr">>,
    paren      |-> <<"(", "Expr", ")">>,
    ident      |-> <<"id">>,
    call       |-> <<"id", "(", "ArgList", ")">>,
    literal    |-> <<"lit">>]

(* The lookahead goes on with what is on top.                              *)
(* Slip: operators of one precedence group to the right.                   *)
Slip_Waits(p) ==
    \/ p = "if" /\ la = "else"
    \/ p \in {"assign", "args1", "args"} /\ la = "binop"
    \/ p = "binary" /\ la = "binop" /\ Prec[Lookahead.v.op] >= Prec[Val(2).op]

Waits(p) ==
    \/ p = "if" /\ la = "else"
    \/ p \in {"assign", "args1", "args"} /\ la = "binop"
    \/ p = "binary" /\ la = "binop" /\ Prec[Lookahead.v.op] > Prec[Val(2).op]

(* What tells productions apart whose right sides end alike.               *)
Applies(p) ==
    CASE p = "stmts0"   -> stack = <<>> \/ Name(1) = "{"
      [] p = "exprstmt" -> BeginsStmt(2)
      [] p = "empty"    -> BeginsStmt(1)
      [] p = "blockstmt" -> Name(2) # "$@1"
      [] p = "midrule"  -> OnTop(<<"TYPE", "id", "(", "ParamList", ")">>)
      [] p = "param"    -> Name(3) = "(" \/ Name(4) = "ParamList"
      [] p = "params0"  -> OnTop(<<"TYPE", "id", "(">>) /\ la # "TYPE"
      [] p = "params1"  -> Name(2) = "("
      [] p = "args0"    -> OfCall(1) /\ ~StartsExpr
      [] p = "args1"    -> OfCall(2)
      [] p = "assign"   -> ~OfDeclaration(3)
      [] p = "paren"    -> Name(4) \notin {"if", "while"}
      [] p = "ident"    -> ~OfDeclaration(1) /\ la # "(" /\ ~(la = "=" /\ BeginsExpr(1))
      [] OTHER          -> TRUE

Handle(p) == OnTop(Rhs[p]) /\ Applies(p) /\ ~Waits(p)
Handles   == {p \in DOMAIN Rhs : Handle(p)}

(* The tokens the parser shifts when there is nothing to reduce.           *)
AfterExpr ==
    CASE BeginsStmt(1) \/ Name(2) \in {"return", "="} -> ";"
      [] OnTop(<<"for", "(", "Expr">>)                -> ";"
      [] OnTop(<<"for", "(", "Expr", ";", "Expr">>)   -> ";"
      [] OTHER                                        -> ")"

Shiftable ==
    CASE Name(1) = "StmtList"           ->
            StartsExpr \/ la \in StmtStart \/ (la = "}" /\ Len(stack) > 1)
      [] Name(1) \in {")", "else"}      -> StartsExpr \/ la \in StmtStart
      [] Name(1) = "$@1"                -> la = "{"
      [] Name(1) = "TYPE"               -> la = "id"
      [] Name(1) = "id"                 -> la \in {"(", "="} \/ (OfDeclaration(1) /\ la = ";")
      [] Name(1) \in {"if", "while", "for"}   -> la = "("
      [] Name(1) \in {"ArgList", "ParamList"} -> la \in {")", ","}
      [] Name(1) = "Expr"               -> la \in {"binop", AfterExpr}
      [] Name(1) = "Stmt"               -> la = "else"
      [] Name(1) = "error"              -> la = ";"
      [] Name(1) = "return"             -> StartsExpr \/ la = ";"
      [] OnTop(<<"TYPE", "id", "(">>) \/ OnTop(<<"ParamList", ",">>) -> la = "TYPE"
      [] OTHER                          -> StartsExpr

(* What is pushed: "-" and "!" in front of an operand are unary.           *)
Shifted ==
    IF la = "not" \/ (la = "binop" /\ Name(1) # "Expr")
    THEN Sym("unop", [kind |-> "op", op |-> IF la = "not" THEN "not" ELSE "neg"])
    ELSE Lookahead

-----------------------------------------------------------------------------
(* The steps of yyparse.                                                   *)
parser == <<g_params_buf, g_program_ast, g_parse_errors>>

Parsing == status = "parsing"

(* An unknown character: the scanner reports it and delivers ERROR.        *)
Lexed(errors) == g_parse_errors' = errors + (IF la = "ERROR" THEN 1 ELSE 0)

Shift ==
    /\ Parsing /\ Handles = {} /\ Shiftable
    /\ stack' = Append(stack, Shifted)
    /\ rest' = Tail(rest)
    /\ Lexed(g_parse_errors)
    /\ UNCHANGED <<input, g_params_buf, g_program_ast, status>>

Pop(n) == SubSeq(stack, 1, Len(stack) - n)

(* The right side of p is replaced by the left one.                        *)
Becomes(p, s, v) ==
    /\ Handle(p)
    /\ stack' = Append(Pop(Len(Rhs[p])), Sym(s, v))

add_stmt(list, n) == ast_block(Append(list.stmts, n))

(* StmtList drops the empty statement.                                     *)
(* Slip: it is kept.                                                       *)
Slip_StmtList(list, n) == add_stmt(list, n)
StmtList(list, n) == IF n = NullNode THEN list ELSE add_stmt(list, n)

ReduceStmt ==
    \/ Becomes("stmts0", "StmtList", ast_block(<<>>))
    \/ Becomes("stmts", "StmtList", StmtList(Val(2), Val(1)))
    \/ Becomes("exprstmt", "Stmt", ast_expr(Val(2)))
    \/ Becomes("blockstmt", "Stmt", Val(1))
    \/ Becomes("return0", "Stmt", ast_return(NullNode))
    \/ Becomes("return", "Stmt", ast_return(Val(2)))
    \/ Becomes("empty", "Stmt", NullNode)
    \/ Becomes("bad", "Stmt", NullNode)
    \/ Becomes("block", "Block", Val(2))
    \/ Becomes("declinit", "Stmt", ast_decl(Val(5).type, Val(4).name, Val(2)))
    \/ Becomes("decl", "Stmt", ast_decl(Val(3).type, Val(2).name, NullNode))
    \/ Becomes("if", "Stmt", ast_if(Val(3), Val(1), NullNode))
    \/ Becomes("ifelse", "Stmt", ast_if(Val(5), Val(3), Val(1)))
    \/ Becomes("while", "Stmt", ast_while(Val(3), Val(1)))
    \/ Becomes("for", "Stmt", ast_for(Val(7), Val(5), Val(3), Val(1)))

ReduceList ==
    \/ Becomes("param", "Param", ast_decl(Val(2).type, Val(1).name, NullNode))
    \/ Becomes("params0", "ParamList", ast_block(<<>>))
    \/ Becomes("params1", "ParamList", ast_block(<<Val(1)>>))
    \/ Becomes("params", "ParamList", add_stmt(Val(3), Val(1)))
    \/ Becomes("args0", "ArgList", ast_block(<<>>))
    \/ Becomes("args1", "ArgList", ast_block(<<ast_expr(Val(1))>>))
    \/ Becomes("args", "ArgList", add_stmt(Val(3), ast_expr(Val(1))))

(* A call takes the expressions out of their statements.                   *)
ArgsOf(list) == [i \in DOMAIN list.stmts |-> list.stmts[i].expr]

ReduceExpr ==
    \/ Becomes("assign", "Expr", ast_assign(Val(3).name, Val(1)))
    \/ Becomes("binary", "Expr", ast_binary(Val(2).op, Val(3), Val(1)))
    \/ Becomes("unary", "Expr", ast_unary(Val(2).op, Val(1)))
    \/ Becomes("paren", "Expr", Val(2))
    \/ Becomes("ident", "Expr", Val(1))
    \/ Becomes("call", "Expr", ast_call(Val(4).name, ArgsOf(Val(2))))
    \/ Becomes("literal", "Expr", Val(1))

Reduce ==
    /\ Parsing
    /\ ReduceStmt \/ ReduceList \/ ReduceExpr
    /\ UNCHANGED <<input, rest, parser, status>>

(* FunctionDef: the parameters are put aside before the body is parsed and *)
(* fetched after it.                                                       *)
BeginFunction ==
    /\ Parsing
    /\ Becomes("midrule", "$@1", NullNode)
    /\ g_params_buf' = Val(2).stmts
    /\ UNCHANGED <<input, rest, g_program_ast, g_parse_errors, status>>

EndFunction ==
    /\ Parsing
    /\ Becomes("function", "Stmt",
               ast_function(Val(7).type, Val(6).name, g_params_buf, Val(1)))
    /\ g_params_buf' = <<>>
    /\ UNCHANGED <<input, rest, g_program_ast, g_parse_errors, status>>

Accept ==
    /\ Parsing /\ Handles = {} /\ OnTop(<<"StmtList">>) /\ Len(stack) = 1 /\ la = "$end"
    /\ g_program_ast' = Val(1)
    /\ status' = "accepted"
    /\ UNCHANGED <<input, rest, stack, g_params_buf, g_parse_errors>>

-----------------------------------------------------------------------------
(* Recovery: the error is reported, symbols are popped until a statement   *)
(* may begin, and tokens are discarded up to the next ";".                 *)
Wrong == Handles = {} /\ ~Shiftable /\ ~(Len(stack) = 1 /\ la = "$end") /\ la # "unclosed"

(* Slip: every open block is given up.                                     *)
Slip_Kept == SubSeq(stack, 1, 1)

(* The longest part of the stack on top of which a statement may begin.    *)
Kept ==
    LET before == {j \in DOMAIN stack :
                      \/ stack[j].s \in {"StmtList", "else"}
                      \/ /\ stack[j].s = ")"
                         /\ ~(j > 1 /\ stack[j - 1].s = "ParamList")
                         /\ ~(j > 1 /\ stack[j - 1].s = "ArgList")}
    IN  SubSeq(stack, 1, CHOOSE j \in before : \A k \in before : k <= j)

(* Slip: the error is not counted.                                         *)
Slip_yyerror == UNCHANGED g_parse_errors
yyerror == g_parse_errors' = g_parse_errors + 1

SyntaxError ==
    /\ Parsing /\ Wrong /\ Name(1) # "error"
    /\ yyerror
    /\ stack' = Append(Kept, Mark("error"))
    /\ UNCHANGED <<input, rest, g_params_buf, g_program_ast, status>>

(* Slip: the token that was discarded is looked at again.                  *)
Slip_Discard == Parsing /\ Wrong /\ Name(1) = "error" /\ rest # <<>> /\ UNCHANGED vars

Discard ==
    /\ Parsing /\ Wrong /\ Name(1) = "error" /\ rest # <<>>
    /\ rest' = Tail(rest)
    /\ Lexed(g_parse_errors)
    /\ UNCHANGED <<input, stack, g_params_buf, g_program_ast, status>>

(* "error ;" is a statement, reported once more.                           *)
Resume ==
    /\ Parsing
    /\ Becomes("recovered", "Stmt", NullNode)
    /\ yyerror
    /\ UNCHANGED <<input, rest, g_params_buf, g_program_ast, status>>

Abort ==
    /\ Parsing /\ Wrong /\ Name(1) = "error" /\ rest = <<>>
    /\ status' = "aborted"
    /\ UNCHANGED <<input, rest, stack, parser>>

(* The file ends inside a comment: the scanner ends the process.           *)
Exit ==
    /\ Parsing /\ Handles = {} /\ la = "unclosed"
    /\ status' = "exited"
    /\ UNCHANGED <<input, rest, stack, parser>>

yyparse == Shift \/ Reduce \/ BeginFunction \/ EndFunction \/ Accept
              \/ SyntaxError \/ Discard \/ Resume \/ Abort \/ Exit

-----------------------------------------------------------------------------
(* syntax_parse_path.                                                      *)
Start ==
    /\ rest = input
    /\ stack = <<>>
    /\ g_params_buf = <<>>
    /\ g_program_ast = NullNode
    /\ g_parse_errors = 0
    /\ status = "opening"

Init == input \in Inputs /\ Start

Open ==
    /\ status = "opening"
    /\ status' \in {"parsing", "unreadable"}
    /\ UNCHANGED <<input, rest, stack, parser>>

Done == status \in {"accepted", "aborted", "exited", "unreadable"}

(* SyntaxResult.                                                           *)
parse_ok == status = "accepted" /\ g_parse_errors = 0
result   == [parse_ok |-> parse_ok, parse_errors |-> g_parse_errors, ast |-> g_program_ast]

Finish == Done /\ UNCHANGED vars

Next == Open \/ yyparse \/ Finish

(* The parser is one thread: it takes its next step.                       *)
Spec == Init /\ [][Next]_vars /\ WF_vars(Next)

-----------------------------------------------------------------------------
(* Properties.                                                             *)
Lists  == {"StmtList", "ParamList", "ArgList"}
Partial == Lists \cup {"Stmt", "Block", "Param", "Expr", "unop", "$@1", "error"}

(* Every symbol has the value its production makes: what the parser hands  *)
(* on are trees, and no list in them holds a NULL.                         *)
TypeOK ==
    /\ input \in Inputs
    /\ \E n \in 0..Len(input) : rest = SubSeq(input, n + 1, Len(input))
    /\ \A i \in DOMAIN stack :
          /\ stack[i].s \in Tokens \cup Partial
          /\ stack[i].s = "Param" => stack[i].v.kind = "decl"
          /\ stack[i].s \in Lists =>
                /\ stack[i].v.kind = "block"
                /\ NullNode \notin {stack[i].v.stmts[k] : k \in DOMAIN stack[i].v.stmts}
          /\ stack[i].s = "Expr" =>
                stack[i].v.kind \in Literals \cup {"ident", "unary", "binary", "call", "assign"}
    /\ \A k \in DOMAIN g_params_buf : g_params_buf[k].kind = "decl"
    /\ g_program_ast.kind \in {"null", "block"}
    /\ g_parse_errors \in Nat
    /\ status \in {"opening", "parsing", "accepted", "aborted", "exited", "unreadable"}

(* Every file is parsed to its end, whatever is in it: recovery never      *)
(* looks at the same token for ever.                                       *)
Termination == <>Done
=============================================================================
