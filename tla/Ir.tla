--------------------------------- MODULE Ir ---------------------------------
(***************************************************************************)
(* The intermediate representation (ir.h, ir.c): instructions, operands,   *)
(* the function under construction and the ir_* operations on it.          *)
(*                                                                         *)
(* An IrFunc is a record; an operation maps the record before the call to  *)
(* the record after it.  The operations that return a fresh temporary      *)
(* return the last one they allocate, which is LastTemp of their result.   *)
(* Growth of the code and locals arrays is the growth of a sequence.       *)
(***************************************************************************)
EXTENDS Ast

NoOper       == [kind |-> "none", v |-> 0]
ir_temp(t)   == [kind |-> "temp", v |-> t]
(* ir_int, ir_float, ir_bool and ir_string: a literal of the given kind.   *)
ir_lit(kind, value) == [kind |-> kind, v |-> value]

(* The instructions, with -1 and NONE where a field is not used.           *)
Instr(op, dst, a, b) ==
    [op |-> op, dst |-> dst, a |-> a, b |-> b, label |-> 0, callee |-> "", args |-> <<>>]
LabelInstr(op, a, l) ==
    [op |-> op, dst |-> -1, a |-> a, b |-> NoOper, label |-> l, callee |-> "", args |-> <<>>]
CallInstr(dst, name, args) ==
    [op |-> "call", dst |-> dst, a |-> NoOper, b |-> NoOper, label |-> 0,
     callee |-> name, args |-> args]

ir_func_begin(name, ret_type, params) ==
    [name |-> name, ret_type |-> ret_type, params |-> params, code |-> <<>>,
     temp_count |-> 0, label_count |-> 0, locals |-> <<>>]

ir_new_temp(f)   == [f EXCEPT !.temp_count = @ + 1]
ir_new_labels(f, n) == [f EXCEPT !.label_count = @ + n]
LastTemp(f)      == f.temp_count - 1

ir_push(f, ins)  == [f EXCEPT !.code = Append(@, ins)]

ir_emit_label(f, l)         == ir_push(f, LabelInstr("label", NoOper, l))
ir_emit_br(f, l)            == ir_push(f, LabelInstr("br", NoOper, l))
ir_emit_brfalse(f, cond, l) == ir_push(f, LabelInstr("brfalse", cond, l))
ir_emit_ret(f, val)         == ir_push(f, Instr("ret", -1, val, NoOper))
(* Slip: the destination is the last temporary and not a fresh one.        *)
Slip_ir_emit_mov(f, a)      == ir_push(f, Instr("mov", LastTemp(f), a, NoOper))
ir_emit_mov(f, a)           == ir_push(ir_new_temp(f), Instr("mov", f.temp_count, a, NoOper))
(* ir_emit_bin and ir_emit_cmp *)
ir_emit_bin_like(f, op, a, b) == ir_push(ir_new_temp(f), Instr(op, f.temp_count, a, b))
(* The builder always passes TY_INT as the return type: dst is never -1.   *)
ir_emit_call(f, name, arg_temps) ==
    ir_push(ir_new_temp(f), CallInstr(f.temp_count, name, arg_temps))

(* A pair (name, temp) is registered once; older pairs are never replaced. *)
ir_register_local(f, name, temp) ==
    LET pair == [name |-> name, temp |-> temp]
    IN  IF \E i \in DOMAIN f.locals : f.locals[i] = pair
        THEN f
        ELSE [f EXCEPT !.locals = Append(@, pair)]

-----------------------------------------------------------------------------
(* Types.                                                                  *)

IrOps   == {"label", "br", "brfalse", "mov", "call", "ret"} \cup ArithOps \cup RelOps
Operand == [kind : {"none", "temp"} \cup Literals, v : Int]
IrInstr == [op : IrOps, dst : Int, a : Operand, b : Operand,
            label : Nat, callee : Names, args : Seq(Int)]
IrLocal == [name : Names, temp : Int]
IrFunc  == [name : Names, ret_type : TypeTags, params : Seq(TypeTags), code : Seq(IrInstr),
            temp_count : Nat, label_count : Nat, locals : Seq(IrLocal)]

-----------------------------------------------------------------------------
(* What the code of a function defines and refers to.                      *)

Labels(f)  == 0 .. f.label_count - 1
Temps(f)   == 0 .. f.temp_count - 1

Placed(f)  == {f.code[i].label : i \in {j \in DOMAIN f.code : f.code[j].op = "label"}}
Targets(f) == {f.code[i].label : i \in {j \in DOMAIN f.code : f.code[j].op \in {"br", "brfalse"}}}

LabelsOnce(f) ==
    \A i, j \in DOMAIN f.code :
        /\ f.code[i].op = "label" /\ f.code[j].op = "label"
        /\ f.code[i].label = f.code[j].label
        => i = j

(* The temporaries an instruction reads.                                   *)
Uses(ins) ==
    {o.v : o \in {x \in {ins.a, ins.b} : x.kind = "temp"}}
        \cup {ins.args[i] : i \in DOMAIN ins.args}
=============================================================================
