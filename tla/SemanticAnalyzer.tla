-------------------------- MODULE SemanticAnalyzer --------------------------
(***************************************************************************)
(* check_semantics (semantic_analyzer.c): types and scopes of a tree.      *)
(*                                                                         *)
(* As in IrBuilder the C call stack is the variable todo: a frame names    *)
(* the point its activation resumes at (k), the node (n), a loop index (i) *)
(* and the C local that survives the call (l).  ret is the type the last   *)
(* infer returned.  g_scope holds the tables of the open scopes, the       *)
(* injected one first; they are linked as SymbolTable says.                *)
(***************************************************************************)
EXTENDS SymbolTable, FiniteSets

CONSTANTS Exprs, Stmts, Programs,     \* nodes, as in IrBuilder
          MAX_FUN_STACK               \* capacity of g_fun_ret_stack

ASSUME CheckedAssumption ==
    /\ \A e \in Exprs : ExprShape(e, Exprs)
    /\ \A s \in Stmts : StmtShape(s, Exprs, Stmts)
    /\ \A p \in Programs : p \in Stmts /\ p.kind = "block"
    /\ MAX_FUN_STACK \in Nat

VARIABLES ast,               \* the root of the tree
          todo,              \* the C call stack
          ret,               \* the result of the last infer
          g_scope,           \* the tables of the open scopes
          g_funs,            \* registered signatures, the newest first
          g_fun_ret_stack,   \* return types of the open functions
          errors             \* the messages printed so far

vars   == <<ast, todo, ret, g_scope, g_funs, g_fun_ret_stack, errors>>
scopes == <<g_scope, g_funs, g_fun_ret_stack>>

Types == TypeTags \cup {"invalid"}

-----------------------------------------------------------------------------
(* The call stack.                                                         *)
NoLocal        == [local |-> "none"]
Holding(k, n, l) == [k |-> k, n |-> n, i |-> 1, l |-> l]
Frame(k, n)    == Holding(k, n, NoLocal)

Top        == Head(todo)
On(k)      == todo # <<>> /\ Top.k = k
OnStmt(kinds) == On("check") /\ Top.n.kind \in kinds
OnExpr(kinds) == On("infer") /\ Top.n.kind \in kinds
Continue(frames) == todo' = frames \o Tail(todo)

(* Every message is printed and counted.                                   *)
Message(what, n) == [what |-> what, n |-> n]
Report(what, n)  == errors' = Append(errors, Message(what, n))
ReportIf(wrong, what, n) ==
    errors' = IF wrong THEN Append(errors, Message(what, n)) ELSE errors

-----------------------------------------------------------------------------
(* Scopes.                                                                 *)
Inner == Len(g_scope)

(* Slip: the new scope does not see the ones around it.                    *)
Slip_push_scope_new == g_scope' = <<st_create>>
push_scope_new == g_scope' = Append(g_scope, st_create)
pop_scope      == g_scope' = SubSeq(g_scope, 1, Inner - 1)

Declare(name, type) ==
    g_scope' = [g_scope EXCEPT ![Inner] = st_insert(@, name, type, NullNode)]

(* Slip: a declaration in an outer block counts as one in this block.      *)
Slip_exists_local(name) == st_lookup_type_recursive(g_scope, Inner, name).found
exists_local(name) == st_lookup_type(g_scope[Inner], name).found
lookup_type(name)  == st_lookup_type_recursive(g_scope, Inner, name)

(* Slip: the return type is not popped.                                    *)
Slip_pop_fun_ret == UNCHANGED g_fun_ret_stack

push_fun_ret(type) ==
    g_fun_ret_stack' = IF Len(g_fun_ret_stack) < MAX_FUN_STACK
                       THEN Append(g_fun_ret_stack, type) ELSE g_fun_ret_stack
pop_fun_ret ==
    g_fun_ret_stack' = IF g_fun_ret_stack = <<>> THEN <<>>
                       ELSE SubSeq(g_fun_ret_stack, 1, Len(g_fun_ret_stack) - 1)
current_fun_ret ==
    IF g_fun_ret_stack = <<>> THEN "void" ELSE g_fun_ret_stack[Len(g_fun_ret_stack)]

(* The signatures of a name; find_fun returns the newest.                  *)
Sigs(name) == {i \in DOMAIN g_funs : g_funs[i].name = name}

find_fun(name) ==
    g_funs[CHOOSE i \in Sigs(name) : \A j \in Sigs(name) : i <= j]

(* Slip: the signature holds the names of the parameters.                  *)
Slip_FunSig(n) == [name |-> n.name, ret |-> n.ret_type,
                   params |-> [j \in DOMAIN n.params |-> n.params[j].name]]
FunSig(n) == [name |-> n.name, ret |-> n.ret_type,
              params |-> [j \in DOMAIN n.params |-> n.params[j].type]]
register_fun(n) == g_funs' = <<FunSig(n)>> \o g_funs

-----------------------------------------------------------------------------
(* Types.                                                                  *)
is_numeric(t) == t \in {"int", "float"}

(* The test of initialisations, assignments, arguments and returns.        *)
Fits(got, want) == got = want \/ (is_numeric(got) /\ is_numeric(want))

infer_unary(op, t) ==
    IF \/ op = "neg" /\ is_numeric(t)
       \/ op = "not" /\ t = "bool"
    THEN t ELSE "invalid"

infer_binary(op, L, R) ==
    LET numeric == is_numeric(L) /\ is_numeric(R)
    IN  CASE op \in {"add", "sub", "mul"} /\ numeric ->
                IF "float" \in {L, R} THEN "float" ELSE "int"
          [] op = "div" /\ numeric -> "float"
          [] op \in {"lt", "le", "gt", "ge"} /\ numeric -> "bool"
          [] op \in {"eq", "ne"} /\ (numeric \/ (L = R /\ L \in {"bool", "string"})) -> "bool"
          [] op \in {"and", "or"} /\ L = "bool" /\ R = "bool" -> "bool"
          [] OTHER -> "invalid"

-----------------------------------------------------------------------------
(* infer.                                                                  *)

(* An expression without pending work returns its type.                    *)
Infer(type) == ret' = type /\ Continue(<<>>)

InferLiteral ==
    /\ OnExpr(Literals)
    /\ Infer(Top.n.kind)
    /\ UNCHANGED <<ast, scopes, errors>>

InferIdent ==
    /\ OnExpr({"ident"})
    /\ Infer(lookup_type(Top.n.name).type)
    /\ ReportIf(~lookup_type(Top.n.name).found, "identifier not declared", Top.n)
    /\ UNCHANGED <<ast, scopes>>

InferOperand ==
    /\ OnExpr({"unary", "binary"})
    /\ Continue(<<Frame("infer", IF Top.n.kind = "unary" THEN Top.n.expr ELSE Top.n.left),
                  Frame(Top.n.kind, Top.n)>>)
    /\ UNCHANGED <<ast, ret, scopes, errors>>

InferUnary ==
    /\ On("unary")
    /\ Infer(infer_unary(Top.n.op, ret))
    /\ UNCHANGED <<ast, scopes, errors>>

InferRight ==
    /\ On("binary")
    /\ Continue(<<Frame("infer", Top.n.right), Holding("apply", Top.n, ret)>>)
    /\ UNCHANGED <<ast, ret, scopes, errors>>

InferBinary ==
    /\ On("apply")
    /\ Infer(infer_binary(Top.n.op, Top.l, ret))
    /\ UNCHANGED <<ast, scopes, errors>>

(* The value is checked with the assignment, and inferred once more for    *)
(* the type of the whole.                                                  *)
InferAssign ==
    /\ OnExpr({"assign"})
    /\ Continue(<<Frame("check", Top.n), Frame("infer", Top.n.value)>>)
    /\ UNCHANGED <<ast, ret, scopes, errors>>

(* Slip: the number of arguments is not compared.                          *)
Slip_InferCall ==
    /\ OnExpr({"call"})
    /\ Sigs(Top.n.name) # {}
    /\ Continue(<<Holding("args", Top.n, find_fun(Top.n.name))>>)
    /\ UNCHANGED <<ast, ret, scopes, errors>>

InferCall ==
    /\ OnExpr({"call"})
    /\ Sigs(Top.n.name) # {}
    /\ LET sig == find_fun(Top.n.name)
       IN  /\ ReportIf(Len(sig.params) # Len(Top.n.args), "wrong number of arguments", Top.n)
           /\ Continue(<<Holding("args", Top.n, sig)>>)
    /\ UNCHANGED <<ast, ret, scopes>>

(* The arguments of a call to nothing are inferred for their errors.       *)
InferUnknownCall ==
    /\ OnExpr({"call"})
    /\ Sigs(Top.n.name) = {}
    /\ Report("function not declared", Top.n)
    /\ Continue([i \in DOMAIN Top.n.args |-> Frame("infer", Top.n.args[i])]
                \o <<Frame("unknown", Top.n)>>)
    /\ UNCHANGED <<ast, ret, scopes>>

InferUnknown ==
    /\ On("unknown")
    /\ Infer("invalid")
    /\ UNCHANGED <<ast, scopes, errors>>

(* Arguments are inferred as long as there is a parameter for them.        *)
InferArg ==
    /\ On("args") /\ Top.i <= Len(Top.l.params) /\ Top.i <= Len(Top.n.args)
    /\ Continue(<<Frame("infer", Top.n.args[Top.i]), [Top EXCEPT !.k = "arg"]>>)
    /\ UNCHANGED <<ast, ret, scopes, errors>>

CheckArg ==
    /\ On("arg")
    /\ ReportIf(~Fits(ret, Top.l.params[Top.i]), "incompatible argument", Top.n)
    /\ Continue(<<[Top EXCEPT !.k = "args", !.i = @ + 1]>>)
    /\ UNCHANGED <<ast, ret, scopes>>

InferResult ==
    /\ On("args") /\ (Top.i > Len(Top.l.params) \/ Top.i > Len(Top.n.args))
    /\ Infer(Top.l.ret)
    /\ UNCHANGED <<ast, scopes, errors>>

infer ==
    \/ InferLiteral \/ InferIdent \/ InferOperand \/ InferUnary \/ InferRight \/ InferBinary
    \/ InferAssign \/ InferCall \/ InferUnknownCall \/ InferUnknown \/ InferArg \/ CheckArg
    \/ InferResult

-----------------------------------------------------------------------------
(* check_stmt.                                                             *)

(* Slip: a statement that is ignored stays on the stack.                   *)
Slip_IgnoreStmt ==
    /\ OnStmt({"null", "ident", "unary", "binary", "call"} \cup Literals)
    /\ UNCHANGED vars

(* The empty statement, and the expressions a "for" may have as its first  *)
(* and last part: only an assignment is looked at.                         *)
IgnoreStmt ==
    /\ OnStmt({"null", "ident", "unary", "binary", "call"} \cup Literals)
    /\ Continue(<<>>)
    /\ UNCHANGED <<ast, ret, scopes, errors>>

CheckExpr ==
    /\ OnStmt({"expr"})
    /\ Continue(<<Frame("infer", Top.n.expr)>>)
    /\ UNCHANGED <<ast, ret, scopes, errors>>

check_block ==
    /\ OnStmt({"block"})
    /\ push_scope_new
    /\ Continue(<<Frame("block", Top.n)>>)
    /\ UNCHANGED <<ast, ret, g_funs, g_fun_ret_stack, errors>>

NextStmt ==
    /\ On("block") /\ Top.i <= Len(Top.n.stmts)
    /\ Continue(<<Frame("check", Top.n.stmts[Top.i]), [Top EXCEPT !.i = @ + 1]>>)
    /\ UNCHANGED <<ast, ret, scopes, errors>>

LeaveBlock ==
    /\ On("block") /\ Top.i > Len(Top.n.stmts)
    /\ pop_scope
    /\ Continue(<<>>)
    /\ UNCHANGED <<ast, ret, g_funs, g_fun_ret_stack, errors>>

(* The initial value is inferred before the name is declared.              *)
CheckInit ==
    /\ OnStmt({"decl"}) /\ Top.n.init # NullNode
    /\ Continue(<<Frame("infer", Top.n.init), Frame("decl", Top.n)>>)
    /\ UNCHANGED <<ast, ret, scopes, errors>>

check_decl ==
    /\ On("decl") \/ (OnStmt({"decl"}) /\ Top.n.init = NullNode)
    /\ LET n         == Top.n
           mismatch  == On("decl") /\ ~Fits(ret, n.type)
           duplicate == exists_local(n.name)
           Printed(wrong, what) == IF wrong THEN <<Message(what, n)>> ELSE <<>>
       IN  /\ errors' = errors \o Printed(mismatch, "incompatible initial value")
                               \o Printed(duplicate, "declared twice")
           /\ IF duplicate THEN UNCHANGED g_scope ELSE Declare(n.name, n.type)
    /\ Continue(<<>>)
    /\ UNCHANGED <<ast, ret, g_funs, g_fun_ret_stack>>

AssignTarget ==
    /\ OnStmt({"assign"})
    /\ LET target == lookup_type(Top.n.name)
       IN  /\ ReportIf(~target.found, "variable not declared", Top.n)
           /\ Continue(IF target.found
                       THEN <<Frame("infer", Top.n.value), Holding("assign", Top.n, target.type)>>
                       ELSE <<>>)
    /\ UNCHANGED <<ast, ret, scopes>>

check_assign ==
    /\ On("assign")
    /\ ReportIf(~Fits(ret, Top.l), "incompatible assignment", Top.n)
    /\ Continue(<<>>)
    /\ UNCHANGED <<ast, ret, scopes>>

InferCond ==
    /\ OnStmt({"if", "while", "for"})
    /\ Continue((IF Top.n.kind = "for" THEN <<Frame("check", Top.n.init)>> ELSE <<>>)
                \o <<Frame("infer", Top.n.cond), Frame("cond", Top.n)>>)
    /\ UNCHANGED <<ast, ret, scopes, errors>>

(* What is checked after the condition, in this order.                     *)
Checked(n) ==
    CASE n.kind = "if"    -> <<n.then, n.else>>
      [] n.kind = "while" -> <<n.body>>
      [] n.kind = "for"   -> <<n.step, n.body>>

CheckCond ==                              \* check_if, check_while, check_for
    /\ On("cond")
    /\ ReportIf(ret # "bool", "condition not bool", Top.n)
    /\ Continue([i \in DOMAIN Checked(Top.n) |-> Frame("check", Checked(Top.n)[i])])
    /\ UNCHANGED <<ast, ret, scopes>>

(* A value returned from a void function is not looked at.                 *)
ReturnVoid ==
    /\ OnStmt({"return"}) /\ (Top.n.expr = NullNode \/ current_fun_ret = "void")
    /\ ReportIf((Top.n.expr = NullNode) # (current_fun_ret = "void"), "wrong return", Top.n)
    /\ Continue(<<>>)
    /\ UNCHANGED <<ast, ret, scopes>>

ReturnExpr ==
    /\ OnStmt({"return"}) /\ Top.n.expr # NullNode /\ current_fun_ret # "void"
    /\ Continue(<<Frame("infer", Top.n.expr), Holding("return", Top.n, current_fun_ret)>>)
    /\ UNCHANGED <<ast, ret, scopes, errors>>

check_return ==
    /\ On("return")
    /\ ReportIf(~Fits(ret, Top.l), "incompatible return", Top.n)
    /\ Continue(<<>>)
    /\ UNCHANGED <<ast, ret, scopes>>

(* The signature is known in the body, and stays known ever after.         *)
check_function ==
    /\ OnStmt({"function"})
    /\ register_fun(Top.n)
    /\ push_fun_ret(Top.n.ret_type)
    /\ push_scope_new
    /\ Continue(<<Frame("params", Top.n)>>)
    /\ UNCHANGED <<ast, ret, errors>>

(* A parameter whose name is taken overwrites the other one.               *)
DeclareParam ==
    /\ On("params") /\ Top.i <= Len(Top.n.params)
    /\ Declare(Top.n.params[Top.i].name, Top.n.params[Top.i].type)
    /\ Continue(<<[Top EXCEPT !.i = @ + 1]>>)
    /\ UNCHANGED <<ast, ret, g_funs, g_fun_ret_stack, errors>>

CheckBody ==
    /\ On("params") /\ Top.i > Len(Top.n.params)
    /\ Continue(<<Frame("check", Top.n.body), Frame("function", Top.n)>>)
    /\ UNCHANGED <<ast, ret, scopes, errors>>

LeaveFunction ==
    /\ On("function")
    /\ pop_scope
    /\ pop_fun_ret
    /\ Continue(<<>>)
    /\ UNCHANGED <<ast, ret, g_funs, errors>>

check_stmt ==
    \/ IgnoreStmt \/ CheckExpr \/ check_block \/ NextStmt \/ LeaveBlock \/ CheckInit
    \/ check_decl \/ AssignTarget \/ check_assign \/ InferCond \/ CheckCond
    \/ ReturnVoid \/ ReturnExpr \/ check_return
    \/ check_function \/ DeclareParam \/ CheckBody \/ LeaveFunction

-----------------------------------------------------------------------------
(* check_semantics: the injected table, then the root block in a scope of  *)
(* its own.                                                                *)
Start ==
    /\ todo = <<Frame("check", ast), Frame("root", ast)>>
    /\ ret = "invalid"
    /\ g_scope = <<st_create>>
    /\ g_funs = <<>>
    /\ g_fun_ret_stack = <<>>
    /\ errors = <<>>

Init == ast \in Programs /\ Start

LeaveRoot ==
    /\ On("root")
    /\ pop_scope
    /\ Continue(<<>>)
    /\ UNCHANGED <<ast, ret, g_funs, g_fun_ret_stack, errors>>

Done == todo = <<>>
semantics_ok == errors = <<>>

(* The caller takes over.                                                  *)
Finish == Done /\ UNCHANGED vars

Next == check_stmt \/ infer \/ LeaveRoot \/ Finish

(* The analyzer is one thread: it takes its next step.                     *)
Spec == Init /\ [][Next]_vars /\ WF_vars(Next)

-----------------------------------------------------------------------------
(* The node and the C local of each kind of activation.                    *)
ExprsOf(kinds) == {e \in Exprs : e.kind \in kinds}
StmtsOf(kinds) == {s \in Stmts : s.kind \in kinds}

NodesOf(k) ==
    CASE k = "check"                         -> Exprs \cup Stmts \cup {NullNode}
      [] k = "infer"                         -> Exprs
      [] k \in {"unary", "binary", "assign"} -> ExprsOf({k})
      [] k = "apply"                         -> ExprsOf({"binary"})
      [] k \in {"args", "arg", "unknown"}    -> ExprsOf({"call"})
      [] k \in {"block", "decl", "return", "function"} -> StmtsOf({k})
      [] k = "params"                        -> StmtsOf({"function"})
      [] k = "cond"                          -> StmtsOf({"if", "while", "for"})
      [] k = "root"                          -> Programs

Signature == [name : Names, ret : TypeTags, params : Seq(TypeTags)]
Table     == [buckets : [Buckets -> Seq([name : Names, type : TypeTags, value : {NullNode}])],
              size : Nat]

(* The state is well typed; in particular a signature is at hand where     *)
(* arguments are checked, and a type where one is to be compared.          *)
TypeOK ==
    /\ ast \in Programs
    /\ \A j \in DOMAIN todo :
          /\ todo[j].n \in NodesOf(todo[j].k)
          /\ todo[j].i \in Nat \ {0}
          /\ CASE todo[j].k \in {"args", "arg"}              -> todo[j].l \in Signature
               [] todo[j].k \in {"apply", "assign", "return"} -> todo[j].l \in Types
               [] OTHER                                       -> todo[j].l = NoLocal
    /\ ret \in Types
    /\ g_scope \in Seq(Table)
    /\ g_funs \in Seq(Signature)
    /\ g_fun_ret_stack \in Seq(TypeTags) /\ Len(g_fun_ret_stack) <= MAX_FUN_STACK

-----------------------------------------------------------------------------
(* The activations of some kinds.  Counted from the bottom of the call     *)
(* stack, the level of one is the number of those opened before it and 1.  *)
Open(kinds)     == {j \in DOMAIN todo : todo[j].k \in kinds}
Level(j, kinds) == Cardinality({i \in Open(kinds) : i >= j})

ScopeKinds    == {"block", "params", "function", "root"}
FunctionKinds == {"params", "function"}

Bound(table)   == {n \in Names : Holds(table, n)}
ParamNames(n)  == {n.params[p].name : p \in DOMAIN n.params}

(* At every step of the descent there is one table for each block and      *)
(* function that is open, in the order they were opened, and the injected  *)
(* one around them, which stays empty.  The table of a function holds its  *)
(* parameters and nothing else while its body is checked.                  *)
ScopesFollowDescent ==
    /\ Inner = Cardinality(Open(ScopeKinds))
    /\ \A j \in Open(ScopeKinds) :
          LET level == Level(j, ScopeKinds)
          IN  /\ todo[j].k = "root" <=> level = 1
              /\ todo[j].k = "root" => g_scope[level] = st_create
              /\ todo[j].k = "function" => Bound(g_scope[level]) = ParamNames(todo[j].n)

(* A "return" is compared with the type of the function around it: the     *)
(* stack of return types is that of the open functions.  (Of programs that *)
(* nest functions less deep than MAX_FUN_STACK.)                           *)
ReturnTypesMatch ==
    /\ Len(g_fun_ret_stack) = Cardinality(Open(FunctionKinds))
    /\ \A j \in Open(FunctionKinds) :
          g_fun_ret_stack[Level(j, FunctionKinds)] = todo[j].n.ret_type

(* The descent ends, whatever the program and its errors.                  *)
Termination == <>Done
=============================================================================
