------------------------------ MODULE Compiler ------------------------------
(***************************************************************************)
(* jsgen.c after the semantic check: irb_build_program builds the IR of    *)
(* the whole program, codegen_js_program prints it, and an engine runs one *)
(* of the functions.                                                       *)
(***************************************************************************)
EXTENDS Ast

CONSTANTS Exprs, Stmts, Programs

VARIABLES ast, funcs, f, g_vars, g_scope_depth, todo, ret,
          fi, pos, g_label_map, g_temps, has_instructions, last_was_br_or_ret, out, js,
          run, pc, at, status

building   == <<ast, funcs, f, g_vars, g_scope_depth, todo, ret>>
generating == <<fi, pos, g_label_map, g_temps, has_instructions, last_was_br_or_ret, out, js,
                run, pc, at, status>>
vars       == <<building, generating>>

Builder == INSTANCE IrBuilder
Back    == INSTANCE Backend WITH prog <- funcs, IrPrograms <- {}

(* The parser hands over trees of the shape the grammar gives them.        *)
ASSUME TreesAssumption == Builder!AstAssumption

Init == Builder!Init /\ Back!Start

Build    == ~Builder!Done /\ Builder!Next /\ UNCHANGED generating
Generate == Builder!Done /\ Back!Next /\ UNCHANGED building

Next == Build \/ Generate

(* One process, one thread.                                                *)
Spec == Init /\ [][Next]_vars /\ WF_vars(Next)

-----------------------------------------------------------------------------
(* What the run of the whole compiler checks; the definitions are in the   *)
(* modules of the components.                                              *)

(* Any function: what is printed takes the steps of its IR, up to its end. *)
StepsFollowIr        == Back!StepsFollowIr
(* "let" is on the first assignment of a name and on no other.             *)
LetAtFirstAssignment == Back!LetAtFirstAssignment

(* A finding: a void function gets an implicit ret, so its activation      *)
(* returns.                                                                *)
ActivationReturns == Back!ActivationReturns
=============================================================================
