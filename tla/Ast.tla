-------------------------------- MODULE Ast --------------------------------
(***************************************************************************)
(* The nodes of the abstract syntax tree (ast_base.h, ast_expr.c) and the  *)
(* shape of the trees the grammar (parser.y) builds from them.             *)
(*                                                                         *)
(* A node is a record whose "kind" is the NodeKind without its ND_ prefix. *)
(* Literals carry a number that stands for their text; names are strings.  *)
(***************************************************************************)
EXTENDS Integers, Sequences

CONSTANT Names          \* the identifiers of the source

(* The builder adds a function "_entry"; "" is the absent name.            *)
ASSUME NamesAssumption == {"", "_entry"} \subseteq Names

(* The NULL pointer: an absent child.  The empty statement ";" is NULL.    *)
NullNode == [kind |-> "null"]

Literals == {"int", "float", "bool", "string"}
TypeTags == Literals \cup {"void"}

ArithOps == {"add", "sub", "mul", "div"}
RelOps   == {"lt", "le", "gt", "ge", "eq", "ne"}
BinOps   == ArithOps \cup RelOps \cup {"and", "or"}
UnOps    == {"neg", "not"}

ast_lit(kind, value)          == [kind |-> kind, value |-> value]
ast_ident(name)               == [kind |-> "ident", name |-> name]
ast_unary(op, expr)           == [kind |-> "unary", op |-> op, expr |-> expr]
ast_binary(op, left, right)   == [kind |-> "binary", op |-> op, left |-> left, right |-> right]
ast_call(name, args)          == [kind |-> "call", name |-> name, args |-> args]
ast_assign(name, value)       == [kind |-> "assign", name |-> name, value |-> value]
ast_expr(expr)                == [kind |-> "expr", expr |-> expr]
ast_block(stmts)              == [kind |-> "block", stmts |-> stmts]
ast_decl(type, name, init)    == [kind |-> "decl", type |-> type, name |-> name, init |-> init]
ast_if(cond, then, else)      == [kind |-> "if", cond |-> cond, then |-> then, else |-> else]
ast_while(cond, body)         == [kind |-> "while", cond |-> cond, body |-> body]
ast_for(init, cond, step, body) ==
    [kind |-> "for", init |-> init, cond |-> cond, step |-> step, body |-> body]
ast_return(expr)              == [kind |-> "return", expr |-> expr]
ast_function(ret_type, name, params, body) ==
    [kind |-> "function", ret_type |-> ret_type, name |-> name, params |-> params, body |-> body]

(* The grammar: every expression and statement of the tree is a node whose *)
(* children are again expressions of Exprs and statements of Stmts.        *)
ExprShape(e, Exprs) ==
    \/ e.kind \in Literals /\ e.value \in Int
    \/ e.kind = "ident" /\ e.name \in Names
    \/ e.kind = "unary" /\ e.op \in UnOps /\ e.expr \in Exprs
    \/ e.kind = "binary" /\ e.op \in BinOps /\ e.left \in Exprs /\ e.right \in Exprs
    \/ e.kind = "assign" /\ e.name \in Names /\ e.value \in Exprs
    \/ e.kind = "call" /\ e.name \in Names /\ e.args \in Seq(Exprs)

(* The branches of an "if" and the body of a loop may be the empty         *)
(* statement; a block never holds one (StmtList drops NULL).               *)
StmtShape(s, Exprs, Stmts) ==
    LET Body == Stmts \cup {NullNode}
    IN  \/ s.kind = "expr" /\ s.expr \in Exprs
        \/ /\ s.kind = "decl" /\ s.type \in TypeTags /\ s.name \in Names
           /\ s.init \in Exprs \cup {NullNode}
        \/ s.kind = "block" /\ s.stmts \in Seq(Stmts)
        \/ s.kind = "if" /\ s.cond \in Exprs /\ s.then \in Body /\ s.else \in Body
        \/ s.kind = "while" /\ s.cond \in Exprs /\ s.body \in Body
        \/ /\ s.kind = "for" /\ s.init \in Exprs /\ s.cond \in Exprs /\ s.step \in Exprs
           /\ s.body \in Body
        \/ s.kind = "return" /\ s.expr \in Exprs \cup {NullNode}
        \/ /\ s.kind = "function" /\ s.ret_type \in TypeTags /\ s.name \in Names
           /\ s.params \in Seq({d \in Stmts : d.kind = "decl"})
           /\ s.body \in {b \in Stmts : b.kind = "block"}
=============================================================================
