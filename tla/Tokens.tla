------------------------------- MODULE Tokens -------------------------------
(***************************************************************************)
(* The tokens of the language and the precedence of its operators          *)
(* (scanner.l, parser.y).                                                  *)
(*                                                                         *)
(* A token has a name (s) and a semantic value (v).  A binary operator is  *)
(* the token "binop", and "sub" also starts an operand.  A file that ends  *)
(* inside a comment ends in the token "unclosed".                          *)
(***************************************************************************)
EXTENDS Ast

Sym(s, v) == [s |-> s, v |-> v]
Mark(s)   == Sym(s, NullNode)

TypeToken(t) == Sym("TYPE", [kind |-> "type", type |-> t])
IdToken(n)   == Sym("id", ast_ident(n))
LitToken(e)  == Sym("lit", e)
OpToken(op)  == Sym("binop", [kind |-> "op", op |-> op])
NotToken     == Sym("not", [kind |-> "op", op |-> "not"])

Prec == [op \in BinOps |->
    CASE op \in {"mul", "div"}             -> 6
      [] op \in {"add", "sub"}             -> 5
      [] op \in {"lt", "le", "gt", "ge"}   -> 4
      [] op \in {"eq", "ne"}               -> 3
      [] op = "and"                        -> 2
      [] op = "or"                         -> 1]
=============================================================================
