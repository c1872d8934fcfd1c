------------------------------- MODULE Typing -------------------------------
(***************************************************************************)
(* Which programs are correct: the typing rules of the language as a       *)
(* judgement on trees, for comparison with what the analyzer accepts.  An  *)
(* environment maps the visible names to their types; no stack, no table.  *)
(*                                                                         *)
(* The rules are those the semantic tests exercise (tests/semantic).  Two  *)
(* of them are lax on purpose, as the analyzer is: an operator applied to  *)
(* wrong types is an error only where a type is required of the result,    *)
(* and the first and last part of a "for" are checked if they assign.      *)
(***************************************************************************)
EXTENDS Ast, TLC

Numeric == {"int", "float"}

(* <<operator, left, right, result>>                                       *)
BinaryRules ==
    {<<op, "int", "int", "int">> : op \in {"add", "sub", "mul"}}
    \cup {r \in {"add", "sub", "mul"} \X Numeric \X Numeric \X {"float"} : "float" \in {r[2], r[3]}}
    \cup {"div"} \X Numeric \X Numeric \X {"float"}
    \cup RelOps \X Numeric \X Numeric \X {"bool"}
    \cup {<<op, t, t, "bool">> : op \in {"eq", "ne"}, t \in {"bool", "string"}}
    \cup {<<op, "bool", "bool", "bool">> : op \in {"and", "or"}}
UnaryRules == {<<"neg", "int", "int">>, <<"neg", "float", "float">>, <<"not", "bool", "bool">>}

Assignable(got, want) == <<got, want>> \in {<<t, t>> : t \in TypeTags} \cup Numeric \X Numeric

RECURSIVE TypeOf(_, _), Clean(_, _)

(* The type of an expression in an environment of variables and functions. *)
TypeOf(e, in) ==
    CASE e.kind \in Literals -> e.kind
      [] e.kind = "ident"    -> IF e.name \in DOMAIN in.env THEN in.env[e.name] ELSE "invalid"
      [] e.kind = "assign"   -> TypeOf(e.value, in)
      [] e.kind = "call"     -> IF e.name \in DOMAIN in.sigs THEN in.sigs[e.name].ret ELSE "invalid"
      [] e.kind = "unary"    ->
            LET T == {r[3] : r \in {q \in UnaryRules : q[1] = e.op /\ q[2] = TypeOf(e.expr, in)}}
            IN  IF T = {} THEN "invalid" ELSE CHOOSE t \in T : TRUE
      [] e.kind = "binary"   ->
            LET T == {r[4] : r \in {q \in BinaryRules :
                         q[1] = e.op /\ q[2] = TypeOf(e.left, in) /\ q[3] = TypeOf(e.right, in)}}
            IN  IF T = {} THEN "invalid" ELSE CHOOSE t \in T : TRUE

(* Every name below the expression is declared, every assignment and every *)
(* call in it is one of fitting types.                                     *)
Clean(e, in) ==
    CASE e.kind \in Literals -> TRUE
      [] e.kind = "ident"    -> e.name \in DOMAIN in.env
      [] e.kind = "unary"    -> Clean(e.expr, in)
      [] e.kind = "binary"   -> Clean(e.left, in) /\ Clean(e.right, in)
      [] e.kind = "assign"   ->
            /\ e.name \in DOMAIN in.env
            /\ Clean(e.value, in)
            /\ Assignable(TypeOf(e.value, in), in.env[e.name])
      [] e.kind = "call"     ->
            /\ e.name \in DOMAIN in.sigs
            /\ Len(in.sigs[e.name].params) = Len(e.args)
            /\ \A i \in DOMAIN e.args :
                  Clean(e.args[i], in) /\ Assignable(TypeOf(e.args[i], in), in.sigs[e.name].params[i])

(* Clean and of a type that fits.                                          *)
Has(e, type, in) == Clean(e, in) /\ Assignable(TypeOf(e, in), type)

-----------------------------------------------------------------------------
(* What is known after a statement: ok, the variables visible, those of    *)
(* this very block, the functions so far, and the return type.             *)
Nothing == [ok |-> TRUE, env |-> [n \in {} |-> ""], here |-> {}, sigs |-> [n \in {} |-> ""], ret |-> "void"]

Require(in, cond) == [in EXCEPT !.ok = @ /\ cond]
Leave(out, inside) == [out EXCEPT !.ok = inside.ok, !.sigs = inside.sigs]

Params(n) ==
    [p \in {n.params[j].name : j \in DOMAIN n.params} |->
        LET last == CHOOSE j \in DOMAIN n.params :
                        /\ n.params[j].name = p
                        /\ \A i \in DOMAIN n.params : n.params[i].name = p => i <= j
        IN  n.params[last].type]
SignatureOf(n) == [ret |-> n.ret_type, params |-> [j \in DOMAIN n.params |-> n.params[j].type]]

RECURSIVE After(_, _), AfterAll(_, _)

AfterAll(stmts, in) ==
    IF stmts = <<>> THEN in ELSE AfterAll(Tail(stmts), After(Head(stmts), in))

After(s, in) ==
    CASE s.kind = "assign" -> Require(in, Clean(s, in))
      [] s.kind = "expr"   -> Require(in, Clean(s.expr, in))
      [] s.kind = "decl"   ->
            LET checked == Require(in, /\ s.name \notin in.here
                                       /\ s.init = NullNode \/ Has(s.init, s.type, in))
            IN  [checked EXCEPT !.env = (s.name :> s.type) @@ @, !.here = @ \cup {s.name}]
      [] s.kind = "block"  -> Leave(in, AfterAll(s.stmts, [in EXCEPT !.here = {}]))
      [] s.kind = "if"     -> AfterAll(<<s.then, s.else>>, Require(in, Has(s.cond, "bool", in)))
      [] s.kind = "while"  -> After(s.body, Require(in, Has(s.cond, "bool", in)))
      [] s.kind = "for"    ->
            AfterAll(<<s.step, s.body>>, Require(After(s.init, in), Has(s.cond, "bool", in)))
      [] s.kind = "return" ->
            Require(in, IF s.expr = NullNode THEN in.ret = "void"
                        ELSE in.ret # "void" /\ Has(s.expr, in.ret, in))
      [] s.kind = "function" ->
            Leave(in, After(s.body, [in EXCEPT !.env = Params(s) @@ @, !.ret = s.ret_type,
                                               !.sigs = (s.name :> SignatureOf(s)) @@ @]))
      [] OTHER             -> in

Valid(program) == After(program, Nothing).ok
=============================================================================
