------------------------------- MODULE Driver -------------------------------
(***************************************************************************)
(* jsgen, the whole program: main of codegen_js_driver.c runs the parser,  *)
(* the semantic analyzer, the IR builder and the JavaScript generator one  *)
(* after the other on the same tree, and leaves with 1 when one of the     *)
(* first two fails.  (irgen, ir_driver.c, differs in what it prints only.) *)
(***************************************************************************)
EXTENDS Ast, FiniteSets, TLC

CONSTANTS Inputs,                       \* the files: token sequences
          INITIAL_CAPACITY, hash,       \* of the symbol tables
          MAX_FUN_STACK                 \* of the analyzer

VARIABLES stage, code,                  \* where main is; the exit code
          input, rest, stack, g_params_buf, g_program_ast, g_parse_errors, parsing,
          checking, type, g_scope, g_funs, g_fun_ret_stack, errors,
          building, temp, funcs, f, g_vars, g_scope_depth,
          fi, pos, g_label_map, g_temps, has_instructions, last_was_br_or_ret, out, js

parser    == <<input, rest, stack, g_params_buf, g_program_ast, g_parse_errors, parsing>>
analyzer  == <<checking, type, g_scope, g_funs, g_fun_ret_stack, errors>>
builder   == <<building, temp, funcs, f, g_vars, g_scope_depth>>
generator == <<fi, pos, g_label_map, g_temps, has_instructions, last_was_br_or_ret, out, js>>
stages    == <<parser, analyzer, builder, generator>>
vars      == <<stage, code, stages>>

Parser    == INSTANCE Parser WITH status <- parsing
Analyzer  == INSTANCE SemanticAnalyzer WITH
                 ast <- g_program_ast, todo <- checking, ret <- type,
                 Exprs <- {}, Stmts <- {}, Programs <- {}
Builder   == INSTANCE IrBuilder WITH
                 ast <- g_program_ast, todo <- building, ret <- temp,
                 Exprs <- {}, Stmts <- {}, Programs <- {}
Generator == INSTANCE CodegenJs WITH prog <- funcs

-----------------------------------------------------------------------------
Init ==
    /\ stage = "parse" /\ code = -1
    /\ input \in Inputs /\ Parser!Start
    /\ checking = <<>> /\ type = "invalid" /\ g_scope = <<>>
    /\ g_funs = <<>> /\ g_fun_ret_stack = <<>> /\ errors = <<>>
    /\ building = <<>> /\ temp = -1 /\ funcs = <<>>
    /\ f = Builder!ir_func_begin("", "void", <<>>)
    /\ g_vars = Builder!NoVars /\ g_scope_depth = 0
    /\ Generator!codegen_js_init

Exit(n)  == stage' = "exited" /\ code' = n
Enter(s) == stage' = s /\ UNCHANGED code
Exited   == stage = "exited"

(* 1) The syntax.                                                          *)
syntax_parse_path ==
    /\ stage = "parse" /\ ~Parser!Done
    /\ Parser!Next
    /\ UNCHANGED <<stage, code, analyzer, builder, generator>>

SyntaxFailed ==
    ~Parser!result.parse_ok \/ Parser!result.ast = NullNode \/ g_parse_errors > 0

(* A failure, or the exit of the scanner, ends the process with 1.         *)
AbortSyntax ==
    /\ stage = "parse" /\ Parser!Done /\ SyntaxFailed
    /\ Exit(1)
    /\ UNCHANGED stages

EnterAnalyzer ==
    /\ stage = "parse" /\ Parser!Done /\ ~SyntaxFailed
    /\ Enter("check")
    /\ checking' = <<Analyzer!Frame("check", g_program_ast), Analyzer!Frame("root", g_program_ast)>>
    /\ g_scope' = <<Analyzer!st_create>>
    /\ UNCHANGED <<type, g_funs, g_fun_ret_stack, errors, parser, builder, generator>>

(* 2) The semantics.                                                       *)
semantics_ok ==
    /\ stage = "check" /\ ~Analyzer!Done
    /\ Analyzer!Next
    /\ UNCHANGED <<stage, code, parser, builder, generator>>

AbortSemantics ==
    /\ stage = "check" /\ Analyzer!Done /\ ~Analyzer!semantics_ok
    /\ Exit(1)
    /\ UNCHANGED stages

(* Slip: the number of errors is taken for the truth value.                *)
Slip_EnterBuilder ==
    /\ stage = "check" /\ Analyzer!Done
    /\ Enter("build")
    /\ building' = <<Builder!Frame("functions", g_program_ast)>>
    /\ UNCHANGED <<temp, funcs, f, g_vars, g_scope_depth, parser, analyzer, generator>>

EnterBuilder ==
    /\ stage = "check" /\ Analyzer!Done /\ Analyzer!semantics_ok
    /\ Enter("build")
    /\ building' = <<Builder!Frame("functions", g_program_ast)>>
    /\ UNCHANGED <<temp, funcs, f, g_vars, g_scope_depth, parser, analyzer, generator>>

(* 3) The IR; 4) the JavaScript.                                           *)
irb_build_program ==
    /\ stage = "build" /\ ~Builder!Done
    /\ Builder!Next
    /\ UNCHANGED <<stage, code, parser, analyzer, generator>>

EnterGenerator ==
    /\ stage = "build" /\ Builder!Done
    /\ Enter("print")
    /\ UNCHANGED stages

codegen_js_program ==
    /\ stage = "print" /\ ~Generator!Printed
    /\ Generator!codegen_js_func
    /\ UNCHANGED <<stage, code, parser, analyzer, building, temp, f, g_vars, g_scope_depth>>

Succeed ==
    /\ stage = "print" /\ Generator!Printed
    /\ Exit(0)
    /\ UNCHANGED stages

Finish == Exited /\ UNCHANGED vars

Next ==
    \/ syntax_parse_path \/ AbortSyntax \/ EnterAnalyzer
    \/ semantics_ok \/ AbortSemantics \/ EnterBuilder
    \/ irb_build_program \/ EnterGenerator \/ codegen_js_program \/ Succeed
    \/ Finish

(* One process, one thread.                                                *)
Spec == Init /\ [][Next]_vars /\ WF_vars(Next)

-----------------------------------------------------------------------------
(* The builder has no error path for a name it does not know: it invents a *)
(* temporary no instruction computes.  The analyzer guarantees that it     *)
(* never does in global code: whatever the parser hands over and the       *)
(* analyzer accepts, an identifier read or assigned has a binding, though  *)
(* the two keep their scopes apart and by different rules.                 *)
Binds(action) == action => Builder!Top.n.name \in DOMAIN g_vars
InGlobalCode  == f.name = "_entry"
NoInventedNames ==
    [][InGlobalCode => Binds(Builder!EmitIdent) /\ Binds(Builder!EmitAssign)]_vars

(* What is printed calls functions that are printed, with as many          *)
(* arguments as they have parameters; the analyzer knows the signatures,   *)
(* the generator no longer does.                                           *)
Calls == {ins \in UNION {{funcs[i].code[j] : j \in DOMAIN funcs[i].code} : i \in DOMAIN funcs} :
             ins.op = "call"}
CallsResolve ==
    code = 0 => \A c \in Calls :
        /\ \E i \in DOMAIN js : js[i].name = c.callee
        /\ \A i \in DOMAIN funcs : funcs[i].name = c.callee => Len(funcs[i].params) = Len(c.args)

(* The same in the functions, which may use their parameters               *)
(* (tests/intermediate/ok/ok_030_simple_func.golden gives them temporaries *)
(* of their own) and the variables declared before them.                   *)
NamesBound == [][Binds(Builder!EmitIdent) /\ Binds(Builder!EmitAssign)]_vars
=============================================================================
