----------------------------- MODULE IrBuilder -----------------------------
(***************************************************************************)
(* irb_build_program (ir_builder.c): the translation of a checked AST into *)
(* IR functions.                                                           *)
(*                                                                         *)
(* The C code is a recursive descent over the tree with the static state   *)
(* g_vars and g_scope_depth.  Here the C call stack is the variable todo,  *)
(* a sequence of frames whose head is the running activation: a frame      *)
(* names the point its function resumes at, the node it works on and the   *)
(* locals it still needs.  The straight-line code between two recursive    *)
(* calls is one action.  ret is the value the last irb_emit_expr returned. *)
(***************************************************************************)
EXTENDS Ir, FiniteSets

CONSTANTS Exprs,     \* the expression nodes
          Stmts,     \* the statement nodes
          Programs   \* the root blocks the parser may hand over

ASSUME AstAssumption ==
    /\ \A e \in Exprs : ExprShape(e, Exprs)
    /\ \A s \in Stmts : StmtShape(s, Exprs, Stmts)
    /\ \A p \in Programs : p.kind = "block" /\ p.stmts \in Seq(Stmts)

VARIABLES ast,            \* the root of the tree
          funcs,          \* IrProgram.funcs that are complete
          f,              \* the IrFunc under construction
          g_vars,         \* name -> current temporary and depth of declaration
          g_scope_depth,
          todo,           \* the C call stack
          ret             \* the result of the last irb_emit_expr

vars  == <<ast, funcs, f, g_vars, g_scope_depth, todo, ret>>
unit  == <<ast, funcs>>
scope == <<g_vars, g_scope_depth>>

-----------------------------------------------------------------------------
(* The call stack.                                                         *)

Labelled(k, n, l) == [k |-> k, n |-> n, l |-> l, i |-> 1, ts |-> <<>>]
Frame(k, n)       == Labelled(k, n, 0)

Top        == Head(todo)
On(k)      == todo # <<>> /\ Top.k = k
OnStmt(kind) == On("stmt") /\ Top.n.kind = kind
OnExpr(kinds) == On("expr") /\ Top.n.kind \in kinds
Continue(frames) == todo' = frames \o Tail(todo)

-----------------------------------------------------------------------------
(* The map from variables to temporaries.  The list g_vars holds a name at *)
(* most once, because vt_get inserts only the names it does not find: it   *)
(* is a function on the names it holds.                                    *)

NoVars == [n \in {} |-> 0]

(* vt_get with create_if_missing: the temporary returned, and f and g_vars *)
(* after the call.  The lookup ignores the depth.                          *)
vt_get(name)      == IF name \in DOMAIN g_vars THEN g_vars[name].temp ELSE f.temp_count
(* Slip: a missing name is entered without ir_new_temp.                    *)
Slip_vt_get_func(name) == f
vt_get_func(name) == IF name \in DOMAIN g_vars THEN f ELSE ir_new_temp(f)
vt_get_vars(name) ==
    [n \in DOMAIN g_vars \cup {name} |->
        IF n \in DOMAIN g_vars THEN g_vars[n]
        ELSE [temp |-> f.temp_count, depth |-> g_scope_depth]]

irb_reset_state == g_vars' = NoVars /\ g_scope_depth' = 0
irb_enter_scope == g_scope_depth' = g_scope_depth + 1 /\ UNCHANGED g_vars
(* Slip: the depth is lowered before the bindings are removed.             *)
Slip_irb_leave_scope ==
    /\ g_vars' = [n \in {m \in DOMAIN g_vars : g_vars[m].depth # g_scope_depth - 1} |-> g_vars[n]]
    /\ g_scope_depth' = IF g_scope_depth > 0 THEN g_scope_depth - 1 ELSE 0
irb_leave_scope ==
    /\ g_vars' = [n \in {m \in DOMAIN g_vars : g_vars[m].depth # g_scope_depth} |-> g_vars[n]]
    /\ g_scope_depth' = IF g_scope_depth > 0 THEN g_scope_depth - 1 ELSE 0

-----------------------------------------------------------------------------
(* irb_emit_expr.                                                          *)

(* What an expression without pending work does with its value.            *)
Yield(func) == f' = func /\ ret' = LastTemp(func)

EmitLiteral ==
    /\ OnExpr(Literals)
    /\ Yield(ir_emit_mov(f, ir_lit(Top.n.kind, Top.n.value)))
    /\ Continue(<<>>)
    /\ UNCHANGED <<unit, scope>>

EmitIdent ==
    /\ OnExpr({"ident"})
    /\ ret' = vt_get(Top.n.name)
    /\ f' = vt_get_func(Top.n.name)
    /\ g_vars' = vt_get_vars(Top.n.name)
    /\ Continue(<<>>)
    /\ UNCHANGED <<unit, g_scope_depth>>

(* The operations whose first step is to evaluate their first operand.     *)
FirstOperand(n) ==
    CASE n.kind = "unary"  -> Frame("expr", n.expr)
      [] n.kind = "binary" -> Frame("expr", n.left)
      [] n.kind = "assign" -> Frame("expr", n.value)

EmitOperand ==
    /\ OnExpr({"unary", "binary", "assign"})
    /\ Continue(<<FirstOperand(Top.n), Frame(Top.n.kind, Top.n)>>)
    /\ UNCHANGED <<unit, scope, f, ret>>

emit_unary ==
    /\ On("unary")
    /\ LET zero == ir_emit_mov(f, ir_lit("int", 0))
           z    == ir_temp(LastTemp(zero))
           v    == ir_temp(ret)
       IN  Yield(IF Top.n.op = "neg" THEN ir_emit_bin_like(zero, "sub", z, v)
                                     ELSE ir_emit_bin_like(zero, "eq", v, z))
    /\ Continue(<<>>)
    /\ UNCHANGED <<unit, scope>>

(* Slip: an assignment does not register the value under the name.         *)
Slip_EmitAssign ==
    /\ On("assign")
    /\ g_vars' = [vt_get_vars(Top.n.name) EXCEPT ![Top.n.name].temp = ret]
    /\ f' = vt_get_func(Top.n.name)
    /\ Continue(<<>>)
    /\ UNCHANGED <<unit, g_scope_depth, ret>>

EmitAssign ==
    /\ On("assign")
    /\ LET name == Top.n.name
       IN  /\ g_vars' = [vt_get_vars(name) EXCEPT ![name].temp = ret]
           /\ f' = ir_register_local(vt_get_func(name), name, ret)
    /\ Continue(<<>>)
    /\ UNCHANGED <<unit, g_scope_depth, ret>>

(* emit_binary: both operands are evaluated before the operator is looked  *)
(* at; AND and OR then evaluate the right one a second time.               *)
EmitRight ==
    /\ On("binary")
    /\ Continue(<<Frame("expr", Top.n.right), [Frame("apply", Top.n) EXCEPT !.ts = <<ret>>]>>)
    /\ UNCHANGED <<unit, scope, f, ret>>

EmitBinCmp ==
    /\ On("apply") /\ Top.n.op \in ArithOps \cup RelOps
    /\ Yield(ir_emit_bin_like(f, Top.n.op, ir_temp(Top.ts[1]), ir_temp(ret)))
    /\ Continue(<<>>)
    /\ UNCHANGED <<unit, scope>>

BranchAnd ==                              \* l = Lfalse, l + 1 = Lend
    /\ On("apply") /\ Top.n.op = "and"
    /\ LET l == f.label_count
       IN  /\ f' = ir_emit_brfalse(ir_new_labels(f, 2), ir_temp(Top.ts[1]), l)
           /\ Continue(<<Frame("expr", Top.n.right), Labelled("and", Top.n, l)>>)
    /\ UNCHANGED <<unit, scope, ret>>

BranchOr ==                               \* l = Ltrue, l + 1 = Lend, l + 2 = Lskip
    /\ On("apply") /\ Top.n.op = "or"
    /\ LET l    == f.label_count
           skip == ir_emit_brfalse(ir_new_labels(f, 3), ir_temp(Top.ts[1]), l + 2)
       IN  /\ f' = ir_emit_label(ir_emit_br(skip, l), l + 2)
           /\ Continue(<<Frame("expr", Top.n.right), Labelled("or", Top.n, l)>>)
    /\ UNCHANGED <<unit, scope, ret>>

(* The tail of AND and OR: tres is the copy of the right operand, and the  *)
(* constant of the other path goes to a temporary nobody reads.            *)
EmitShortCircuit(k, constant) ==
    /\ On(k)
    /\ LET tres  == ir_emit_mov(f, ir_temp(ret))
           other == ir_emit_label(ir_emit_br(tres, Top.l + 1), Top.l)
       IN  /\ f' = ir_emit_label(ir_emit_mov(other, ir_lit("int", constant)), Top.l + 1)
           /\ ret' = LastTemp(tres)
    /\ Continue(<<>>)
    /\ UNCHANGED <<unit, scope>>

EmitAnd == EmitShortCircuit("and", 0)
EmitOr  == EmitShortCircuit("or", 1)

(* Calls: the arguments from left to right, argv in ts, i the argument     *)
(* being evaluated.                                                        *)
ArgFrame(n, i, argv) == [k |-> "arg", n |-> n, l |-> 0, i |-> i, ts |-> argv]

CallNoArgs ==
    /\ OnExpr({"call"}) /\ Top.n.args = <<>>
    /\ Yield(ir_emit_call(f, Top.n.name, <<>>))
    /\ Continue(<<>>)
    /\ UNCHANGED <<unit, scope>>

FirstArg ==
    /\ OnExpr({"call"}) /\ Top.n.args # <<>>
    /\ Continue(<<Frame("expr", Top.n.args[1]), ArgFrame(Top.n, 1, <<>>)>>)
    /\ UNCHANGED <<unit, scope, f, ret>>

NextArg ==
    /\ On("arg") /\ Top.i < Len(Top.n.args)
    /\ Continue(<<Frame("expr", Top.n.args[Top.i + 1]),
                  ArgFrame(Top.n, Top.i + 1, Append(Top.ts, ret))>>)
    /\ UNCHANGED <<unit, scope, f, ret>>

(* Slip: the last argument is put in front of the others.                  *)
Slip_EmitCall ==
    /\ On("arg") /\ Top.i = Len(Top.n.args)
    /\ Yield(ir_emit_call(f, Top.n.name, <<ret>> \o Top.ts))
    /\ Continue(<<>>)
    /\ UNCHANGED <<unit, scope>>

EmitCall ==
    /\ On("arg") /\ Top.i = Len(Top.n.args)
    /\ Yield(ir_emit_call(f, Top.n.name, Append(Top.ts, ret)))
    /\ Continue(<<>>)
    /\ UNCHANGED <<unit, scope>>

irb_emit_expr ==
    \/ EmitLiteral \/ EmitIdent \/ EmitOperand \/ emit_unary \/ EmitAssign
    \/ EmitRight \/ EmitBinCmp \/ BranchAnd \/ BranchOr \/ EmitAnd \/ EmitOr
    \/ CallNoArgs \/ FirstArg \/ NextArg \/ EmitCall

-----------------------------------------------------------------------------
(* irb_emit_stmt.                                                          *)

(* No code: the empty statement, a nested function, and the kinds that fall *)
(* into the default of the switch (a "for" may hold any expression).       *)
SkipStmt ==
    /\ On("stmt")
    /\ Top.n.kind \in Literals \cup {"null", "function", "ident", "unary", "binary", "call"}
    /\ Continue(<<>>)
    /\ UNCHANGED <<unit, scope, f, ret>>

EmitExprStmt ==
    /\ On("stmt") /\ Top.n.kind \in {"expr", "assign"}
    /\ Continue(<<Frame("expr", IF Top.n.kind = "expr" THEN Top.n.expr ELSE Top.n)>>)
    /\ UNCHANGED <<unit, scope, f, ret>>

emit_block ==
    /\ OnStmt("block")
    /\ irb_enter_scope
    /\ Continue(<<Frame("block", Top.n)>>)
    /\ UNCHANGED <<unit, f, ret>>

(* The next statement of the block (i is its index), or the end of it.     *)
NextStmt ==
    /\ On("block") /\ Top.i <= Len(Top.n.stmts)
    /\ Continue(<<Frame("stmt", Top.n.stmts[Top.i]), [Top EXCEPT !.i = @ + 1]>>)
    /\ UNCHANGED <<unit, scope, f, ret>>

LeaveBlock ==
    /\ On("block") /\ Top.i > Len(Top.n.stmts)
    /\ irb_leave_scope
    /\ Continue(<<>>)
    /\ UNCHANGED <<unit, f, ret>>

(* A declaration binds the name even when an outer scope already did: then *)
(* vt_get returns the outer binding.                                       *)
EmitDecl ==
    /\ OnStmt("decl")
    /\ LET name == Top.n.name
       IN  /\ g_vars' = vt_get_vars(name)
           /\ f' = ir_register_local(vt_get_func(name), name, vt_get(name))
    /\ Continue(IF Top.n.init = NullNode THEN <<>>
                ELSE <<Frame("expr", Top.n.init), Frame("init", Top.n)>>)
    /\ UNCHANGED <<unit, g_scope_depth, ret>>

EmitInit ==
    /\ On("init")
    /\ g_vars' = [g_vars EXCEPT ![Top.n.name].temp = ret]
    /\ f' = ir_register_local(f, Top.n.name, ret)
    /\ Continue(<<>>)
    /\ UNCHANGED <<unit, g_scope_depth, ret>>

(* emit_if: l = Lelse, l + 1 = Lend.                                       *)
EmitIf ==
    /\ OnStmt("if")
    /\ f' = ir_new_labels(f, 2)
    /\ Continue(<<Frame("expr", Top.n.cond), Labelled("then", Top.n, f.label_count)>>)
    /\ UNCHANGED <<unit, scope, ret>>

EmitThen ==
    /\ On("then")
    /\ f' = ir_emit_brfalse(f, ir_temp(ret), Top.l)
    /\ Continue(<<Frame("stmt", Top.n.then), Labelled("else", Top.n, Top.l)>>)
    /\ UNCHANGED <<unit, scope, ret>>

(* Slip: the else branch is not labelled.                                  *)
Slip_EmitElse ==
    /\ On("else")
    /\ f' = ir_emit_br(f, Top.l + 1)
    /\ Continue(<<Frame("stmt", Top.n.else), Labelled("endif", Top.n, Top.l)>>)
    /\ UNCHANGED <<unit, scope, ret>>

EmitElse ==
    /\ On("else")
    /\ f' = ir_emit_label(ir_emit_br(f, Top.l + 1), Top.l)
    /\ Continue(<<Frame("stmt", Top.n.else), Labelled("endif", Top.n, Top.l)>>)
    /\ UNCHANGED <<unit, scope, ret>>

EmitEndIf ==
    /\ On("endif")
    /\ f' = ir_emit_label(f, Top.l + 1)
    /\ Continue(<<>>)
    /\ UNCHANGED <<unit, scope, ret>>

(* emit_while and ND_FOR: l = Lcond, l + 1 = Lbody, l + 2 = Lend.          *)
EmitForInit ==
    /\ OnStmt("for")
    /\ Continue(<<Frame("stmt", Top.n.init), Frame("for", Top.n)>>)
    /\ UNCHANGED <<unit, scope, f, ret>>

EmitLoop ==
    /\ OnStmt("while") \/ On("for")
    /\ f' = ir_emit_label(ir_new_labels(f, 3), f.label_count)
    /\ Continue(<<Frame("expr", Top.n.cond), Labelled("test", Top.n, f.label_count)>>)
    /\ UNCHANGED <<unit, scope, ret>>

EmitTest ==
    /\ On("test")
    /\ f' = ir_emit_label(ir_emit_brfalse(f, ir_temp(ret), Top.l + 2), Top.l + 1)
    /\ Continue(<<Frame("stmt", Top.n.body),
                  Labelled(IF Top.n.kind = "for" THEN "step" ELSE "loop", Top.n, Top.l)>>)
    /\ UNCHANGED <<unit, scope, ret>>

EmitStep ==
    /\ On("step")
    /\ Continue(<<Frame("stmt", Top.n.step), Labelled("loop", Top.n, Top.l)>>)
    /\ UNCHANGED <<unit, scope, f, ret>>

(* Slip: the loop ends at Lbody instead of Lend.                           *)
Slip_EmitLoopEnd ==
    /\ On("loop")
    /\ f' = ir_emit_label(ir_emit_br(f, Top.l), Top.l + 1)
    /\ Continue(<<>>)
    /\ UNCHANGED <<unit, scope, ret>>

EmitLoopEnd ==
    /\ On("loop")
    /\ f' = ir_emit_label(ir_emit_br(f, Top.l), Top.l + 2)
    /\ Continue(<<>>)
    /\ UNCHANGED <<unit, scope, ret>>

ReturnVoid ==
    /\ OnStmt("return") /\ Top.n.expr = NullNode
    /\ f' = ir_emit_ret(f, NoOper)
    /\ Continue(<<>>)
    /\ UNCHANGED <<unit, scope, ret>>

ReturnExpr ==
    /\ OnStmt("return") /\ Top.n.expr # NullNode
    /\ Continue(<<Frame("expr", Top.n.expr), Frame("return", Top.n)>>)
    /\ UNCHANGED <<unit, scope, f, ret>>

ReturnValue ==
    /\ On("return")
    /\ f' = ir_emit_ret(f, ir_temp(ret))
    /\ Continue(<<>>)
    /\ UNCHANGED <<unit, scope, ret>>

irb_emit_stmt ==
    \/ SkipStmt \/ EmitExprStmt \/ emit_block \/ NextStmt \/ LeaveBlock
    \/ EmitDecl \/ EmitInit \/ EmitIf \/ EmitThen \/ EmitElse \/ EmitEndIf
    \/ EmitForInit \/ EmitLoop \/ EmitTest \/ EmitStep \/ EmitLoopEnd
    \/ ReturnVoid \/ ReturnExpr \/ ReturnValue

-----------------------------------------------------------------------------
(* irb_build_program: one pass over the root block for the functions, then *)
(* one for the code of _entry.                                             *)

(* Slip: the type of a parameter is read from the wrong field.             *)
Slip_param_types(n) == [j \in DOMAIN n.params |-> n.params[j].name]
param_types(n) == [j \in DOMAIN n.params |-> n.params[j].type]

RootNode(kinds) == Top.i <= Len(ast.stmts) /\ ast.stmts[Top.i].kind \in kinds
NotAFunction    == {"expr", "decl", "block", "if", "while", "for", "return"}

BeginFunction ==
    /\ On("functions") /\ RootNode({"function"})
    /\ LET n == ast.stmts[Top.i]
       IN  /\ f' = ir_func_begin(n.name, n.ret_type, param_types(n))
           /\ Continue(<<Frame("stmt", n.body), Frame("end", n), [Top EXCEPT !.i = @ + 1]>>)
    /\ irb_reset_state
    /\ UNCHANGED <<unit, ret>>

EndFunction ==
    /\ On("end")
    /\ funcs' = Append(funcs, f)
    /\ Continue(<<>>)
    /\ UNCHANGED <<ast, scope, f, ret>>

(* Slip: a node that is not of this pass is looked at again.               *)
Slip_SkipRootNode ==
    /\ \/ On("functions") /\ RootNode(NotAFunction)
       \/ On("_entry") /\ RootNode({"function"})
    /\ UNCHANGED vars

SkipRootNode ==
    /\ \/ On("functions") /\ RootNode(NotAFunction)
       \/ On("_entry") /\ RootNode({"function"})
    /\ Continue(<<[Top EXCEPT !.i = @ + 1]>>)
    /\ UNCHANGED <<unit, scope, f, ret>>

BeginEntry ==
    /\ On("functions") /\ Top.i > Len(ast.stmts)
    /\ f' = ir_func_begin("_entry", "void", <<>>)
    /\ Continue(<<Frame("_entry", ast)>>)
    /\ irb_reset_state
    /\ UNCHANGED <<unit, ret>>

EntryStmt ==
    /\ On("_entry") /\ RootNode(NotAFunction)
    /\ Continue(<<Frame("stmt", ast.stmts[Top.i]), [Top EXCEPT !.i = @ + 1]>>)
    /\ UNCHANGED <<unit, scope, f, ret>>

(* Slip: _entry does not return.                                           *)
Slip_EndEntry ==
    /\ On("_entry") /\ Top.i > Len(ast.stmts)
    /\ funcs' = Append(funcs, f)
    /\ Continue(<<>>)
    /\ UNCHANGED <<ast, scope, f, ret>>

EndEntry ==
    /\ On("_entry") /\ Top.i > Len(ast.stmts)
    /\ f' = ir_emit_ret(f, NoOper)
    /\ funcs' = Append(funcs, f')
    /\ Continue(<<>>)
    /\ UNCHANGED <<ast, scope, ret>>

irb_build_program ==
    \/ BeginFunction \/ EndFunction \/ SkipRootNode \/ BeginEntry \/ EntryStmt \/ EndEntry

Init ==
    /\ ast \in Programs
    /\ funcs = <<>>
    /\ f = ir_func_begin("", "void", <<>>)
    /\ g_vars = NoVars
    /\ g_scope_depth = 0
    /\ todo = <<Frame("functions", ast)>>
    /\ ret = -1

Done == todo = <<>>

(* The program is built: codegen_js takes over.                            *)
Finish == Done /\ UNCHANGED vars

Next == irb_build_program \/ irb_emit_stmt \/ irb_emit_expr \/ Finish

(* The builder is one thread: it takes its next step.                      *)
Spec == Init /\ [][Next]_vars /\ WF_vars(Next)

-----------------------------------------------------------------------------
(* Types.                                                                  *)

FrameKinds ==
    {"functions", "_entry", "end", "stmt", "block", "init", "then", "else", "endif",
     "for", "test", "step", "loop", "return",
     "expr", "unary", "assign", "binary", "apply", "and", "or", "arg"}

(* The nodes an activation of each kind works on.                          *)
ExprsOf(kinds) == {e \in Exprs : e.kind \in kinds}
StmtsOf(kinds) == {s \in Stmts : s.kind \in kinds}

NodesOf == [k \in FrameKinds |->
    CASE k \in {"functions", "_entry"}        -> Programs
      [] k = "end"                            -> StmtsOf({"function"})
      [] k = "stmt"                           -> Exprs \cup Stmts \cup {NullNode}
      [] k \in {"block", "for", "return"}     -> StmtsOf({k})
      [] k = "init"                           -> StmtsOf({"decl"})
      [] k \in {"then", "else", "endif"}      -> StmtsOf({"if"})
      [] k \in {"test", "loop"}               -> StmtsOf({"while", "for"})
      [] k = "step"                           -> StmtsOf({"for"})
      [] k = "expr"                           -> Exprs
      [] k \in {"unary", "assign", "binary"}  -> ExprsOf({k})
      [] k \in {"apply", "and", "or"}         -> ExprsOf({"binary"})
      [] k = "arg"                            -> ExprsOf({"call"})]

Nodes     == Exprs \cup Stmts \cup Programs \cup {NullNode}
FrameType == [k : FrameKinds, n : Nodes, l : Nat, i : Nat \ {0}, ts : Seq(Int)]
VarTemp   == [temp : Int, depth : Nat]

(* The state is well typed: an activation resumes on a node of its kind,   *)
(* and an instruction holds operands and not bare temporaries.             *)
TypeOK ==
    /\ ast \in Programs
    /\ funcs \in Seq(IrFunc)
    /\ f \in IrFunc
    /\ g_vars = [n \in DOMAIN g_vars |-> g_vars[n]]
    /\ \A n \in DOMAIN g_vars : n \in Names /\ g_vars[n] \in VarTemp
    /\ g_scope_depth \in Nat
    /\ todo \in Seq(FrameType)
    /\ \A j \in DOMAIN todo :
          /\ todo[j].n \in NodesOf[todo[j].k]
          /\ todo[j].k = "apply" => Len(todo[j].ts) = 1
    /\ ret \in Int

-----------------------------------------------------------------------------
(* Labels.                                                                 *)

(* The labels a suspended activation has allocated and has yet to emit.    *)
Pending(fr) ==
    CASE fr.k \in {"then", "else", "and", "or"} -> {fr.l, fr.l + 1}
      [] fr.k = "endif"                         -> {fr.l + 1}
      [] fr.k = "test"                          -> {fr.l + 1, fr.l + 2}
      [] fr.k \in {"step", "loop"}              -> {fr.l + 2}
      [] OTHER                                  -> {}

(* At every step of the descent, with activations nested to any depth,     *)
(* each label ir_new_label returned is either emitted once or is still     *)
(* owed by exactly one activation, and no branch names another label.      *)
LabelsAccounted ==
    /\ LabelsOnce(f)
    /\ \A j \in DOMAIN todo : Pending(todo[j]) \cap Placed(f) = {}
    /\ \A j, k \in DOMAIN todo : j # k => Pending(todo[j]) \cap Pending(todo[k]) = {}
    /\ Labels(f) = Placed(f) \cup UNION {Pending(todo[j]) : j \in DOMAIN todo}
    /\ Targets(f) \subseteq Labels(f)

(* label_to_case of codegen_js.c and the printer rely on it: in a finished *)
(* function every branch goes to a label that occurs once in its code.     *)
BranchesResolve ==
    \A i \in DOMAIN funcs : LabelsOnce(funcs[i]) /\ Targets(funcs[i]) \subseteq Placed(funcs[i])

-----------------------------------------------------------------------------
(* Temporaries.                                                            *)

(* The activations that read ret when they resume; those that compute a    *)
(* value of their own.                                                     *)
Consumers == {"unary", "assign", "binary", "apply", "and", "or", "arg",
              "init", "then", "test", "return"}
Producers == {"expr", "unary", "assign", "binary", "apply", "and", "or", "arg"}

(* An activation that waits for a value waits for one that yields it: the  *)
(* -1 irb_emit_expr returns for a NULL node is never read as a temporary.  *)
ValuesAvailable ==
    /\ \A j \in DOMAIN todo :
          /\ todo[j].k \in Consumers =>
                IF j = 1 THEN ret \in Temps(f) ELSE todo[j - 1].k \in Producers
          /\ \A m \in DOMAIN todo[j].ts : todo[j].ts[m] \in Temps(f)
    /\ \A n \in DOMAIN g_vars : g_vars[n].temp \in Temps(f)

(* Static single assignment in code order: destinations are allocated and  *)
(* strictly increase, and an operand is a temporary defined further up or  *)
(* the placeholder of a variable that no instruction defines.              *)
SingleAssignment ==
    LET code == f.code
        DefinedAt(t) == {i \in DOMAIN code : code[i].dst = t}
    IN  /\ \A i, j \in DOMAIN code :
              i < j /\ code[i].dst # -1 /\ code[j].dst # -1 => code[i].dst < code[j].dst
        /\ \A i \in DOMAIN code :
              /\ code[i].dst \in Temps(f) \cup {-1}
              /\ \A t \in Uses(code[i]) : t \in Temps(f) /\ \A d \in DefinedAt(t) : d < i

-----------------------------------------------------------------------------
(* Scopes and names.                                                       *)

(* g_scope_depth counts the blocks being emitted, bindings of a closed     *)
(* block are gone, and both are back to nothing between two functions.     *)
ScopesBalanced ==
    /\ g_scope_depth = Cardinality({j \in DOMAIN todo : todo[j].k = "block"})
    /\ \A n \in DOMAIN g_vars : g_vars[n].depth <= g_scope_depth
    /\ \A j \in DOMAIN todo : todo[j].k = "end" => j = Len(todo) - 1

(* codegen_js.c names a temporary after f.locals: the value a variable has *)
(* now is registered under its name, unless no instruction computes it.    *)
VariablesNamed ==
    \A n \in DOMAIN g_vars :
        \/ \E i \in DOMAIN f.locals : f.locals[i] = [name |-> n, temp |-> g_vars[n].temp]
        \/ \A i \in DOMAIN f.code : f.code[i].dst # g_vars[n].temp

-----------------------------------------------------------------------------
(* The whole program.                                                      *)

(* The functions among the first i nodes of the root block.                *)
FunctionsIn(i) == {j \in 1 .. i : ast.stmts[j].kind = "function"}

(* The descent of irb_build_program ends.                                  *)
Termination == <>Done

EndsInRet(func) == func.code # <<>> /\ func.code[Len(func.code)].op = "ret"

(* The place in funcs of the function at node j, _entry being the k-th.    *)
PlaceOf(j, k) ==
    LET n == Cardinality(FunctionsIn(j))
    IN  IF n < k THEN n ELSE n + 1

(* And then the two passes over the root block have taken every function   *)
(* once, in source order among themselves, and have made one _entry, whose *)
(* last instruction returns.  Where it stands among them is left open: the *)
(* golden files of tests/intermediate print it first, the code last.       *)
ProgramComplete ==
    Done => LET fns == FunctionsIn(Len(ast.stmts))
            IN  /\ Len(funcs) = Cardinality(fns) + 1
                /\ \E k \in DOMAIN funcs :
                      /\ funcs[k].name = "_entry" /\ EndsInRet(funcs[k])
                      /\ \A j \in fns : funcs[PlaceOf(j, k)].name = ast.stmts[j].name

=============================================================================
