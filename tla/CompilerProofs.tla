---------------------------- MODULE CompilerProofs ----------------------------
(***************************************************************************)
(* Builder and back end put together.  What irb_build_program hands over   *)
(* is what BackendProofs asks of an IR program, so its results hold for    *)
(* every program that is compiled.                                         *)
(***************************************************************************)
EXTENDS Compiler, TLAPS

BuilderP == INSTANCE IrBuilderProofs
BackP    == INSTANCE BackendProofs WITH prog <- funcs, IrPrograms <- {}

-----------------------------------------------------------------------------
(* The modules of the proofs are about the components of Compiler.         *)
LEMMA SameBuilder ==
    /\ Builder!Init = BuilderP!Init /\ Builder!Next = BuilderP!Next
    /\ Builder!Done = BuilderP!Done /\ Builder!vars = BuilderP!vars
BY DEF Builder!NullNode, BuilderP!NullNode, Builder!Literals, BuilderP!Literals,
       Builder!ArithOps, BuilderP!ArithOps, Builder!RelOps, BuilderP!RelOps, Builder!NoOper,
       BuilderP!NoOper, Builder!ir_temp, BuilderP!ir_temp, Builder!ir_lit, BuilderP!ir_lit,
       Builder!Instr, BuilderP!Instr, Builder!LabelInstr, BuilderP!LabelInstr,
       Builder!CallInstr, BuilderP!CallInstr, Builder!ir_func_begin, BuilderP!ir_func_begin,
       Builder!ir_new_temp, BuilderP!ir_new_temp, Builder!ir_new_labels,
       BuilderP!ir_new_labels, Builder!LastTemp, BuilderP!LastTemp, Builder!ir_push,
       BuilderP!ir_push, Builder!ir_emit_label, BuilderP!ir_emit_label, Builder!ir_emit_br,
       BuilderP!ir_emit_br, Builder!ir_emit_brfalse, BuilderP!ir_emit_brfalse,
       Builder!ir_emit_ret, BuilderP!ir_emit_ret, Builder!ir_emit_mov, BuilderP!ir_emit_mov,
       Builder!ir_emit_bin_like, BuilderP!ir_emit_bin_like, Builder!ir_emit_call,
       BuilderP!ir_emit_call, Builder!ir_register_local, BuilderP!ir_register_local,
       Builder!vars, BuilderP!vars, Builder!unit, BuilderP!unit, Builder!scope,
       BuilderP!scope, Builder!Labelled, BuilderP!Labelled, Builder!Frame, BuilderP!Frame,
       Builder!Top, BuilderP!Top, Builder!On, BuilderP!On, Builder!OnStmt, BuilderP!OnStmt,
       Builder!OnExpr, BuilderP!OnExpr, Builder!Continue, BuilderP!Continue, Builder!NoVars,
       BuilderP!NoVars, Builder!vt_get, BuilderP!vt_get, Builder!vt_get_func,
       BuilderP!vt_get_func, Builder!vt_get_vars, BuilderP!vt_get_vars,
       Builder!irb_reset_state, BuilderP!irb_reset_state, Builder!irb_enter_scope,
       BuilderP!irb_enter_scope, Builder!irb_leave_scope, BuilderP!irb_leave_scope,
       Builder!Yield, BuilderP!Yield, Builder!EmitLiteral, BuilderP!EmitLiteral,
       Builder!EmitIdent, BuilderP!EmitIdent, Builder!FirstOperand, BuilderP!FirstOperand,
       Builder!EmitOperand, BuilderP!EmitOperand, Builder!emit_unary, BuilderP!emit_unary,
       Builder!EmitAssign, BuilderP!EmitAssign, Builder!EmitRight, BuilderP!EmitRight,
       Builder!EmitBinCmp, BuilderP!EmitBinCmp, Builder!BranchAnd, BuilderP!BranchAnd,
       Builder!BranchOr, BuilderP!BranchOr, Builder!EmitShortCircuit,
       BuilderP!EmitShortCircuit, Builder!EmitAnd, BuilderP!EmitAnd, Builder!EmitOr,
       BuilderP!EmitOr, Builder!ArgFrame, BuilderP!ArgFrame, Builder!CallNoArgs,
       BuilderP!CallNoArgs, Builder!FirstArg, BuilderP!FirstArg, Builder!NextArg,
       BuilderP!NextArg, Builder!EmitCall, BuilderP!EmitCall, Builder!irb_emit_expr,
       BuilderP!irb_emit_expr, Builder!SkipStmt, BuilderP!SkipStmt, Builder!EmitExprStmt,
       BuilderP!EmitExprStmt, Builder!emit_block, BuilderP!emit_block, Builder!NextStmt,
       BuilderP!NextStmt, Builder!LeaveBlock, BuilderP!LeaveBlock, Builder!EmitDecl,
       BuilderP!EmitDecl, Builder!EmitInit, BuilderP!EmitInit, Builder!EmitIf,
       BuilderP!EmitIf, Builder!EmitThen, BuilderP!EmitThen, Builder!EmitElse,
       BuilderP!EmitElse, Builder!EmitEndIf, BuilderP!EmitEndIf, Builder!EmitForInit,
       BuilderP!EmitForInit, Builder!EmitLoop, BuilderP!EmitLoop, Builder!EmitTest,
       BuilderP!EmitTest, Builder!EmitStep, BuilderP!EmitStep, Builder!EmitLoopEnd,
       BuilderP!EmitLoopEnd, Builder!ReturnVoid, BuilderP!ReturnVoid, Builder!ReturnExpr,
       BuilderP!ReturnExpr, Builder!ReturnValue, BuilderP!ReturnValue,
       Builder!irb_emit_stmt, BuilderP!irb_emit_stmt, Builder!param_types,
       BuilderP!param_types, Builder!RootNode, BuilderP!RootNode, Builder!NotAFunction,
       BuilderP!NotAFunction, Builder!BeginFunction, BuilderP!BeginFunction,
       Builder!EndFunction, BuilderP!EndFunction, Builder!SkipRootNode,
       BuilderP!SkipRootNode, Builder!BeginEntry, BuilderP!BeginEntry, Builder!EntryStmt,
       BuilderP!EntryStmt, Builder!EndEntry, BuilderP!EndEntry, Builder!irb_build_program,
       BuilderP!irb_build_program, Builder!Init, BuilderP!Init, Builder!Done, BuilderP!Done,
       Builder!Finish, BuilderP!Finish, Builder!Next, BuilderP!Next

(* The map of the labels is made with CHOOSE.                              *)
LEMMA SameLabelMap == \A code : Back!LabelMap(code) = BackP!LabelMap(code)
BY DEF Back!LabelMap, BackP!LabelMap, Back!Cardinality, BackP!Cardinality

(* The actions of the generator.                                           *)
LEMMA SameBegin == Back!BeginFunc = BackP!BeginFunc
BY SameLabelMap DEF Back!Func, BackP!Func, Back!has_labels, BackP!has_labels, Back!Line, BackP!Line,
       Back!CaseLine, BackP!CaseLine, Back!BeginFunc, BackP!BeginFunc

(* A label.                                                                *)
LEMMA SameGenLabel == Back!GenLabel = BackP!GenLabel
BY DEF Back!Func, BackP!Func, Back!Line, BackP!Line, Back!CaseLine, BackP!CaseLine,
       Back!GotoLine, BackP!GotoLine, Back!label_to_case, BackP!label_to_case, Back!InCode,
       BackP!InCode, Back!Ins, BackP!Ins, Back!Emit, BackP!Emit, Back!GenLabel,
       BackP!GenLabel

(* An instruction of a state machine.                                      *)
LEMMA SameGenMachineInstr == Back!GenStateMachineInstr = BackP!GenStateMachineInstr
BY DEF Back!Func, BackP!Func, Back!has_labels, BackP!has_labels, Back!js_temp,
       BackP!js_temp, Back!js_name, BackP!js_name, Back!JsId, BackP!JsId, Back!js_operand,
       BackP!js_operand, Back!js_operands, BackP!js_operands, Back!Present, BackP!Present,
       Back!Line, BackP!Line, Back!GotoLine, BackP!GotoLine, Back!UnlessLine,
       BackP!UnlessLine, Back!ReturnLine, BackP!ReturnLine, Back!js_reads, BackP!js_reads,
       Back!AssignLine, BackP!AssignLine, Back!label_to_case, BackP!label_to_case,
       Back!InCode, BackP!InCode, Back!Ins, BackP!Ins, Back!Emit, BackP!Emit,
       Back!InstrLines, BackP!InstrLines, Back!GenStateMachineInstr,
       BackP!GenStateMachineInstr

(* An instruction of a sequence.                                           *)
LEMMA SameGenSequentialInstr == Back!GenSequentialInstr = BackP!GenSequentialInstr
BY DEF Back!Func, BackP!Func, Back!has_labels, BackP!has_labels, Back!js_temp,
       BackP!js_temp, Back!js_name, BackP!js_name, Back!JsId, BackP!JsId, Back!js_operand,
       BackP!js_operand, Back!js_operands, BackP!js_operands, Back!Present, BackP!Present,
       Back!Line, BackP!Line, Back!ReturnLine, BackP!ReturnLine, Back!js_reads,
       BackP!js_reads, Back!AssignLine, BackP!AssignLine, Back!InCode, BackP!InCode,
       Back!Ins, BackP!Ins, Back!Emit, BackP!Emit, Back!GenSequentialInstr,
       BackP!GenSequentialInstr

(* The end of a function.                                                  *)
LEMMA SameEndFunc == Back!EndFunc = BackP!EndFunc
BY DEF Back!Temps, BackP!Temps, Back!Func, BackP!Func, Back!has_labels, BackP!has_labels,
       Back!js_temp, BackP!js_temp, Back!Line, BackP!Line, Back!NoLabels, BackP!NoLabels,
       Back!Params, BackP!Params, Back!Declared, BackP!Declared, Back!EndFunc, BackP!EndFunc

(* The engine.                                                             *)
LEMMA SameEngine ==
    /\ Back!JsCall = BackP!JsCall /\ Back!JsStep = BackP!JsStep
    /\ Back!EndOfSwitch = BackP!EndOfSwitch
BY DEF Back!Lines, BackP!Lines, Back!Here, BackP!Here, Back!JsCall, BackP!JsCall,
       Back!Cases, BackP!Cases, Back!Running, BackP!Running, Back!OnLine, BackP!OnLine,
       Back!PastEnd, BackP!PastEnd, Back!Switch, BackP!Switch, Back!FallThrough,
       BackP!FallThrough, Back!SetPcAndBreak, BackP!SetPcAndBreak, Back!EndOfSwitch,
       BackP!EndOfSwitch, Back!JsReturn, BackP!JsReturn, Back!JsStep, BackP!JsStep

(* The back end.                                                           *)
LEMMA SameBack ==
    /\ Back!Start = BackP!Start /\ Back!Next = BackP!Next
    /\ Back!vars = BackP!vars /\ Back!exec = BackP!exec
<1>1. Back!codegen_js_func = BackP!codegen_js_func
  BY SameBegin, SameGenLabel, SameGenMachineInstr, SameGenSequentialInstr, SameEndFunc
     DEF Back!codegen_js_func, BackP!codegen_js_func
<1>2. /\ Back!vars = BackP!vars /\ Back!exec = BackP!exec /\ Back!cgvars = BackP!cgvars
      /\ Back!Start = BackP!Start /\ Back!Printed = BackP!Printed
  BY DEF Back!state, BackP!state, Back!cgvars, BackP!cgvars, Back!NoLabels, BackP!NoLabels,
       Back!codegen_js_init, BackP!codegen_js_init, Back!Printed, BackP!Printed,
       Back!JsIdle, BackP!JsIdle, Back!exec, BackP!exec, Back!vars, BackP!vars, Back!Start,
       BackP!Start
<1>3. Back!Next = BackP!Next
  BY <1>1, <1>2, SameEngine
     DEF Back!Next, BackP!Next, Back!Execute, BackP!Execute, Back!Finish, BackP!Finish,
       Back!vars, BackP!vars, Back!exec, BackP!exec, Back!cgvars, BackP!cgvars, Back!state,
       BackP!state
<1>. QED BY <1>2, <1>3

(* The machine of the IR.                                                  *)
LEMMA SameMachine ==
    /\ Back!Machine!Next = BackP!Machine!Next
    /\ (UNCHANGED Back!Machine!vars) = (UNCHANGED BackP!Machine!vars)
BY DEF Back!Lines, BackP!Lines, Back!Here, BackP!Here, Back!Cases, BackP!Cases, Back!Code,
       BackP!Code, Back!EndIp, BackP!EndIp, Back!IpOf, BackP!IpOf, Back!Machine!vars,
       BackP!Machine!vars, Back!Machine!Next, BackP!Machine!Next, Back!Machine!Start,
       BackP!Machine!Start, Back!Machine!Step, BackP!Machine!Step, Back!Machine!LabelAt,
       BackP!Machine!LabelAt, Back!Machine!Jump, BackP!Machine!Jump, Back!Machine!Advance,
       BackP!Machine!Advance, Back!Machine!Return, BackP!Machine!Return,
       Back!Machine!IrInstr, BackP!Machine!IrInstr, Back!Machine!IrOps, BackP!Machine!IrOps,
       Back!Machine!Operand, BackP!Machine!Operand, Back!Machine!ArithOps,
       BackP!Machine!ArithOps, Back!Machine!RelOps, BackP!Machine!RelOps,
       Back!Machine!Literals, BackP!Machine!Literals

(* The turn behind the end of the code.                                    *)
LEMMA SameTurn == Back!TurnsPastCode = BackP!TurnsPastCode
BY SameEngine
   DEF Back!Lines, BackP!Lines, Back!Here, BackP!Here, Back!Cases, BackP!Cases, Back!Code,
       BackP!Code, Back!EndIp, BackP!EndIp, Back!IpOf, BackP!IpOf, Back!TurnsPastCode,
       BackP!TurnsPastCode

(* What is claimed of the printed text.                                    *)
LEMMA SameClaims ==
    /\ Back!JumpsLand = BackP!JumpsLand
    /\ Back!LetAtFirstAssignment = BackP!LetAtFirstAssignment
BY DEF Back!JumpsLand, BackP!JumpsLand, Back!LetAtFirstAssignment,
       BackP!LetAtFirstAssignment, Back!Cardinality, BackP!Cardinality

-----------------------------------------------------------------------------
(* The invariant: while the builder runs, the generator has not begun, and *)
(* from then on what it prints is a program whose labels are in order.     *)
CInv ==
    /\ BuilderP!IInv
    /\ ~Builder!Done => Back!Start
    /\ Builder!Done => BackP!BInv

(* What the generator is given.                                            *)
LEMMA LabelsInOrder == BuilderP!IInv => BackP!GoodProgram(funcs)
<1>1. BackP!IrFunc = BuilderP!IrFunc
  BY DEF BackP!IrFunc, BuilderP!IrFunc, BackP!IrLocal, BuilderP!IrLocal, BackP!IrInstr,
       BuilderP!IrInstr, BackP!IrOps, BuilderP!IrOps, BackP!Operand, BuilderP!Operand,
       BackP!TypeTags, BuilderP!TypeTags, BackP!ArithOps, BuilderP!ArithOps, BackP!RelOps,
       BuilderP!RelOps, BackP!Literals, BuilderP!Literals
<1>2. /\ \A func : BackP!LabelsOnce(func) = BuilderP!LabelsOnce(func)
      /\ \A func : BackP!Targets(func) = BuilderP!Targets(func)
      /\ \A func : BackP!Placed(func) = BuilderP!Placed(func)
  BY DEF BackP!LabelsOnce, BuilderP!LabelsOnce, BackP!Targets, BuilderP!Targets, BackP!Placed,
       BuilderP!Placed
<1>. QED
  BY <1>1, <1>2 DEF BuilderP!IInv, BuilderP!TypeOK, BuilderP!BranchesResolve, BackP!GoodProgram

(* The builder returns, and the back end begins.                           *)
LEMMA BackBegins == BuilderP!IInv /\ Back!Start => BackP!BInv
<1>1. BackP!GoodProgram(funcs) /\ BackP!Start => BackP!BInv
  BY NamesAssumption, BackP!StartBInv, Zenon
<1>. QED BY <1>1, LabelsInOrder, SameBack

(* What the proofs about the builder assume.                               *)
LEMMA Trees == BuilderP!AstAssumption
BY TreesAssumption
   DEF Builder!AstAssumption, BuilderP!AstAssumption, Builder!NullNode, BuilderP!NullNode,
       Builder!Literals, BuilderP!Literals, Builder!TypeTags, BuilderP!TypeTags,
       Builder!ArithOps, BuilderP!ArithOps, Builder!RelOps, BuilderP!RelOps, Builder!BinOps,
       BuilderP!BinOps, Builder!UnOps, BuilderP!UnOps, Builder!ExprShape,
       BuilderP!ExprShape, Builder!StmtShape, BuilderP!StmtShape

(* Before the first step.                                                  *)
LEMMA InitCInv == Init => CInv
<1>1. BuilderP!Init => BuilderP!IInv BY Trees, NamesAssumption, BuilderP!InitIInv, Zenon
<1>. QED BY <1>1, SameBuilder, BackBegins DEF Init, CInv

(* A step of the builder.                                                  *)
LEMMA BuilderKeeps == BuilderP!IInv /\ [BuilderP!Next]_(BuilderP!vars) => BuilderP!IInv'
BY Trees, NamesAssumption, BuilderP!NextIInv, Zenon

(* It leaves the generator alone.                                          *)
LEMMA BuildKeeps == CInv /\ Build => CInv'
<1>. SUFFICES ASSUME CInv, Build PROVE CInv'
  OBVIOUS
<1>1. BuilderP!IInv' BY SameBuilder, BuilderKeeps DEF CInv, Build
<1>2. Back!Start' BY DEF CInv, Build, generating, Back!Start, Back!codegen_js_init, Back!JsIdle
<1>3. (BuilderP!IInv /\ Back!Start => BackP!BInv)' BY BackBegins, PTL
<1>. QED BY <1>1, <1>2, <1>3 DEF CInv

(* A step of the back end.                                                 *)
LEMMA GenerateKeeps == CInv /\ Generate => CInv'
<1>. SUFFICES ASSUME CInv, Generate PROVE CInv'
  OBVIOUS
<1>1. BuilderP!vars' = BuilderP!vars /\ Builder!Done' = Builder!Done
  BY DEF Generate, building, BuilderP!vars, Builder!Done
<1>2. BuilderP!IInv' BY <1>1, BuilderKeeps DEF CInv
<1>3. BackP!BInv /\ [BackP!Next]_(BackP!vars) => BackP!BInv'
  BY NamesAssumption, BackP!NextBInv, Zenon
<1>4. BackP!BInv' BY <1>3, SameBack DEF CInv, Generate
<1>. QED BY <1>1, <1>2, <1>4 DEF CInv, Generate

(* Every step.                                                             *)
LEMMA NextCInv == CInv /\ [Next]_vars => CInv'
<1>1. CInv /\ UNCHANGED vars => CInv'
  <2>. SUFFICES ASSUME CInv, UNCHANGED vars PROVE CInv'
    OBVIOUS
  <2>1. /\ BuilderP!vars' = BuilderP!vars /\ Builder!Done' = Builder!Done
        /\ BackP!vars' = BackP!vars
    BY DEF vars, building, generating, BuilderP!vars, Builder!Done,
           BackP!vars, BackP!cgvars, BackP!state, BackP!exec
  <2>2. BuilderP!IInv' BY <2>1, BuilderKeeps DEF CInv
  <2>3. Back!Start => Back!Start'
    BY DEF vars, generating, Back!Start, Back!codegen_js_init, Back!JsIdle
  <2>4. BackP!BInv /\ [BackP!Next]_(BackP!vars) => BackP!BInv'
    BY NamesAssumption, BackP!NextBInv, Zenon
  <2>5. BackP!BInv => BackP!BInv' BY <2>1, <2>4
  <2>. QED BY <2>1, <2>2, <2>3, <2>5 DEF CInv
<1>. QED BY <1>1, BuildKeeps, GenerateKeeps DEF Next

(* The invariant of the compiler.                                          *)
LEMMA Invariant == Spec => []CInv
BY InitCInv, NextCInv, PTL DEF Spec

-----------------------------------------------------------------------------
(* Nothing is printed before the program is built.                         *)
LEMMA NothingPrinted == Back!Start => Back!JumpsLand /\ Back!LetAtFirstAssignment
BY DEF Back!Start, Back!codegen_js_init, Back!JumpsLand, Back!LetAtFirstAssignment

(* Every jump the compiler prints goes to a case that it prints.           *)
THEOREM JumpsCorrect == Spec => []Back!JumpsLand
<1>1. BackP!BInv => BackP!JumpsLand BY NamesAssumption, BackP!JumpsPrinted, Zenon
<1>2. CInv => Back!JumpsLand BY <1>1, NothingPrinted, SameClaims DEF CInv
<1>. QED BY <1>2, Invariant, PTL

(* The compiler prints "let" at the first assignment of a name only.       *)
THEOREM LetsCorrect == Spec => []LetAtFirstAssignment
<1>1. BackP!BInv => BackP!LetAtFirstAssignment BY NamesAssumption, BackP!LetsPrinted, Zenon
<1>2. CInv => LetAtFirstAssignment
  BY <1>1, NothingPrinted, SameClaims DEF CInv, LetAtFirstAssignment
<1>. QED BY <1>2, Invariant, PTL

(* While the builder runs, no function does.                               *)
LEMMA BuildStays == CInv /\ Build => BackP!MachineStays
<1>1. CInv /\ Build => run = 0 /\ UNCHANGED BackP!exec
  BY DEF CInv, Build, generating, BackP!exec, Back!Start, Back!JsIdle
<1>2. run = 0 /\ UNCHANGED BackP!exec => BackP!MachineStays
  BY NamesAssumption, BackP!IdleStays, Zenon
<1>. QED BY <1>1, <1>2

(* A step of the back end is one of the machine, a turn behind the end of  *)
(* the code, or none.                                                      *)
LEMMA GenerateFollows ==
    CInv /\ BackP!AllStraight /\ Generate
    => Back!TurnsPastCode \/ BackP!Machine!Next \/ BackP!MachineStays
<1>1. BackP!BInv /\ BackP!AllStraight /\ [BackP!Next]_(BackP!vars)
      => BackP!TurnsPastCode \/ BackP!Machine!Next \/ BackP!MachineStays
  BY NamesAssumption, BackP!StepFollows, Zenon
<1>. QED BY <1>1, SameBack, SameTurn DEF CInv, Generate

(* Whatever the program, every step of a printed function is one of the IR *)
(* irb_build_program made, or none, but for a turn of the loop when        *)
(* control is behind its last instruction.  "Straight" leaves out a        *)
(* "return;" of the global code before its end.                            *)
THEOREM StepsCorrect == Spec /\ []BackP!AllStraight => StepsFollowIr
<1>1. CInv /\ BackP!AllStraight /\ [Next]_vars
      => [Back!TurnsPastCode \/ [Back!Machine!Next]_(Back!Machine!vars)]_(Back!vars)
  <2>. SUFFICES ASSUME CInv, BackP!AllStraight, [Next]_vars
                PROVE  \/ Back!TurnsPastCode \/ Back!Machine!Next
                       \/ UNCHANGED Back!Machine!vars \/ UNCHANGED Back!vars
    OBVIOUS
  <2>1. BackP!MachineStays => UNCHANGED Back!Machine!vars
    BY SameMachine DEF BackP!MachineStays
  <2>2. CASE Build BY <2>1, <2>2, BuildStays
  <2>3. CASE Generate BY <2>1, <2>3, GenerateFollows, SameMachine
  <2>4. CASE UNCHANGED vars
    BY <2>4 DEF vars, building, generating, Back!vars, Back!cgvars, Back!state, Back!exec
  <2>. QED BY <2>2, <2>3, <2>4 DEF Next
<1>. QED BY <1>1, Invariant, PTL DEF Spec, StepsFollowIr, Back!StepsFollowIr

==============================================================================
