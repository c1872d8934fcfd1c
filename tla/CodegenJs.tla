----------------------------- MODULE CodegenJs -----------------------------
(***************************************************************************)
(* codegen_js_program (codegen_js.c): one JavaScript function for every    *)
(* IR function, printed instruction by instruction.                        *)
(*                                                                         *)
(* A function whose code holds a label becomes a state machine             *)
(*     while (true) { switch (pc) { case 0: ... } }                        *)
(* and any other function a straight sequence of statements.  The printed  *)
(* text is a sequence of lines; a line keeps the control it stands for,    *)
(* the identifiers it writes and reads and, as src, the index of the IR    *)
(* instruction that is next to execute when control reaches the line.      *)
(***************************************************************************)
EXTENDS Ir, FiniteSets, TLC

VARIABLES prog,               \* IrProgram.funcs
          fi,                 \* the function being printed
          pos,                \* the instruction being printed; 0 between functions
          g_label_map,        \* label -> case
          g_temps,            \* the names declared with "let"
          has_instructions, last_was_br_or_ret,
          out,                \* the lines of the function being printed
          js                  \* the functions printed so far

state == <<g_label_map, g_temps, has_instructions, last_was_br_or_ret>>
cgvars == <<prog, fi, pos, state, out, js>>

Func == prog[fi]

has_labels(func) == \E i \in DOMAIN func.code : func.code[i].op = "label"

-----------------------------------------------------------------------------
(* Names.                                                                  *)

js_temp(t) == "t" \o ToString(t)

(* js_print_temp: the first local registered for the temporary, or tN.     *)
js_name(t) ==
    LET named == {i \in DOMAIN Func.locals : Func.locals[i].temp = t}
    IN  IF named = {} THEN js_temp(t)
        ELSE Func.locals[CHOOSE i \in named : \A j \in named : i <= j].name

(* js_print_operand: a temporary prints an identifier, a literal itself.   *)
JsId(name)    == [kind |-> "id", v |-> name]
js_operand(o) == IF o.kind = "temp" THEN JsId(js_name(o.v)) ELSE o
js_operands(os) == [i \in DOMAIN os |-> js_operand(os[i])]
Present(os)   == SelectSeq(os, LAMBDA o : o.kind # "none")

-----------------------------------------------------------------------------
(* Lines.                                                                  *)

(* An assignment has the operator or, of a call, the callee; reads are the *)
(* operands in the order they are printed.                                 *)
Line(j, src) == [j |-> j, src |-> src, pc |-> -1, let |-> FALSE, dst |-> "",
                 op |-> "", callee |-> "", reads |-> <<>>]
CaseLine(n, src)          == [Line("case", src) EXCEPT !.pc = n]
GotoLine(n, src)          == [Line("goto", src) EXCEPT !.pc = n]
UnlessLine(n, cond, src)  == [Line("unless", src) EXCEPT !.pc = n, !.reads = js_operands(<<cond>>)]
ReturnLine(val, src)      == [Line("return", src) EXCEPT !.reads = js_operands(Present(<<val>>))]

(* The arguments of a call are printed as tN, whatever their name.         *)
js_reads(ins) ==
    IF ins.op = "call" THEN [i \in DOMAIN ins.args |-> JsId(js_temp(ins.args[i]))]
                       ELSE js_operands(Present(<<ins.a, ins.b>>))

(* Slip: "let" is decided by the temporary and not by the printed name.    *)
Slip_AssignLine(ins, seq_mode) ==
    [Line("assign", pos) EXCEPT !.let = seq_mode /\ js_temp(ins.dst) \notin g_temps,
                                !.dst = js_name(ins.dst), !.op = ins.op,
                                !.callee = ins.callee, !.reads = js_reads(ins)]

AssignLine(ins, seq_mode) ==
    LET name == js_name(ins.dst)
    IN  [Line("assign", pos) EXCEPT !.let = seq_mode /\ name \notin g_temps,
                                    !.dst = name, !.op = ins.op,
                                    !.callee = ins.callee, !.reads = js_reads(ins)]

label_to_case(l) == IF l \in DOMAIN g_label_map THEN g_label_map[l] ELSE -1

-----------------------------------------------------------------------------
(* codegen_js_func.                                                        *)

(* Slip: the labels are numbered from 0, the case of the function's start. *)
Slip_LabelMap(code) ==
    LET LabelAt == {i \in DOMAIN code : code[i].op = "label"}
        At(l)   == CHOOSE i \in LabelAt : code[i].label = l
    IN  [l \in {code[i].label : i \in LabelAt} |-> Cardinality({i \in LabelAt : i < At(l)})]

(* The n-th label of the code gets case n; the list is searched from the   *)
(* newest entry, so the last occurrence of a label decides.                *)
LabelMap(code) ==
    LET LabelAt    == {i \in DOMAIN code : code[i].op = "label"}
        Last(l)    == CHOOSE i \in LabelAt :
                          code[i].label = l /\ \A j \in LabelAt : code[j].label = l => j <= i
    IN  [l \in {code[i].label : i \in LabelAt} |-> Cardinality({i \in LabelAt : i <= Last(l)})]

NoLabels == [l \in {} |-> 0]

(* Slip: the names declared in the previous function stay.                 *)
Slip_BeginFunc ==
    /\ pos = 0 /\ fi <= Len(prog)
    /\ pos' = 1
    /\ g_label_map' = LabelMap(Func.code)
    /\ out' = IF has_labels(Func) THEN <<CaseLine(0, 1)>> ELSE <<>>
    /\ has_instructions' = FALSE /\ last_was_br_or_ret' = FALSE
    /\ UNCHANGED <<prog, fi, g_temps, js>>

BeginFunc ==
    /\ pos = 0 /\ fi <= Len(prog)
    /\ pos' = 1
    /\ g_temps' = {}
    /\ g_label_map' = LabelMap(Func.code)
    /\ out' = IF has_labels(Func) THEN <<CaseLine(0, 1)>> ELSE <<>>
    /\ has_instructions' = FALSE /\ last_was_br_or_ret' = FALSE
    /\ UNCHANGED <<prog, fi, js>>

InCode    == pos > 0 /\ pos <= Len(Func.code)
Ins       == Func.code[pos]
Emit(lines) == out' = out \o lines /\ pos' = pos + 1

(* Slip: an open case is closed by "break" without setting pc.             *)
Slip_GenLabel ==
    /\ InCode /\ Ins.op = "label"
    /\ Emit((IF has_instructions THEN <<Line("break", pos)>> ELSE <<>>)
                \o <<CaseLine(label_to_case(Ins.label), pos)>>)
    /\ has_instructions' = FALSE /\ last_was_br_or_ret' = FALSE
    /\ UNCHANGED <<prog, fi, g_label_map, g_temps, js>>

(* A label ends the open case, which falls into the next one explicitly    *)
(* unless a branch or a return already left it.                            *)
GenLabel ==
    /\ InCode /\ Ins.op = "label"
    /\ LET n     == label_to_case(Ins.label)
           close == IF ~has_instructions       THEN <<>>
                    ELSE IF last_was_br_or_ret THEN <<Line("break", pos)>>
                    ELSE <<GotoLine(n, pos)>>
       IN  Emit(close \o <<CaseLine(n, pos)>>)
    /\ has_instructions' = FALSE /\ last_was_br_or_ret' = FALSE
    /\ UNCHANGED <<prog, fi, g_label_map, g_temps, js>>

InstrLines ==
    CASE Ins.op = "br"      -> <<GotoLine(label_to_case(Ins.label), pos)>>
      [] Ins.op = "brfalse" -> <<UnlessLine(label_to_case(Ins.label), Ins.a, pos)>>
      [] Ins.op = "ret"     -> <<ReturnLine(Ins.a, pos)>>
      [] OTHER              -> <<AssignLine(Ins, FALSE)>>

(* Slip: a conditional branch counts as one that leaves the case.          *)
Slip_GenStateMachineInstr ==
    /\ InCode /\ has_labels(Func) /\ Ins.op # "label"
    /\ Emit(InstrLines)
    /\ has_instructions' = TRUE
    /\ last_was_br_or_ret' = (Ins.op \in {"br", "brfalse", "ret"})
    /\ UNCHANGED <<prog, fi, g_label_map, g_temps, js>>

(* codegen_js_instr with seq_mode = 0.                                     *)
GenStateMachineInstr ==
    /\ InCode /\ has_labels(Func) /\ Ins.op # "label"
    /\ Emit(InstrLines)
    /\ has_instructions' = TRUE
    /\ last_was_br_or_ret' = (Ins.op \in {"br", "ret"})
    /\ UNCHANGED <<prog, fi, g_label_map, g_temps, js>>

(* codegen_js_instr with seq_mode = 1: branches print nothing, and neither *)
(* does a return without value in _entry.                                  *)
GenSequentialInstr ==
    /\ InCode /\ ~has_labels(Func)
    /\ CASE Ins.op \in {"br", "brfalse"} -> Emit(<<>>) /\ UNCHANGED g_temps
         [] Ins.op = "ret" ->
              /\ Emit(IF Func.name = "_entry" /\ Ins.a.kind = "none" THEN <<>>
                       ELSE <<ReturnLine(Ins.a, pos)>>)
              /\ UNCHANGED g_temps
         [] OTHER -> Emit(<<AssignLine(Ins, TRUE)>>) /\ g_temps' = g_temps \cup {js_name(Ins.dst)}
    /\ UNCHANGED <<prog, fi, g_label_map, has_instructions, last_was_br_or_ret, js>>

(* What the header of the function declares: the parameters p0, p1, ...    *)
(* and, in a state machine, every temporary and pc.                        *)
Params(func)   == {"p" \o ToString(i - 1) : i \in DOMAIN func.params}
Declared(func) ==
    Params(func) \cup IF has_labels(func) THEN {js_temp(t) : t \in Temps(func)} \cup {"pc"} ELSE {}

EndFunc ==
    /\ pos > 0 /\ pos > Len(Func.code)
    /\ LET last == IF has_labels(Func) /\ has_instructions THEN <<Line("break", pos)>> ELSE <<>>
       IN  js' = Append(js, [name |-> Func.name, machine |-> has_labels(Func),
                             declared |-> Declared(Func), lines |-> out \o last])
    /\ out' = <<>> /\ g_label_map' = NoLabels
    /\ pos' = 0 /\ fi' = fi + 1
    /\ UNCHANGED <<prog, g_temps, has_instructions, last_was_br_or_ret>>

codegen_js_func == BeginFunc \/ GenLabel \/ GenStateMachineInstr \/ GenSequentialInstr \/ EndFunc

codegen_js_init ==
    /\ fi = 1 /\ pos = 0
    /\ g_label_map = NoLabels /\ g_temps = {}
    /\ has_instructions = FALSE /\ last_was_br_or_ret = FALSE
    /\ out = <<>> /\ js = <<>>

Printed == pos = 0 /\ fi > Len(prog)

(* The last line of the output, "_entry();", is there when the program has *)
(* a function of that name.                                                *)
has_entry == \E i \in DOMAIN prog : prog[i].name = "_entry"
=============================================================================
