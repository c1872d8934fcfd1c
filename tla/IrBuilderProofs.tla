--------------------------- MODULE IrBuilderProofs ---------------------------
(***************************************************************************)
(* Proofs about the IR builder for every program, every depth of nesting   *)
(* and every set of names: the state is well typed, the labels are         *)
(* accounted for at every step, and so the branches of a finished function *)
(* resolve; temporaries, scopes and names are in order; the program that   *)
(* comes out has the functions that went in.                               *)
(*                                                                         *)
(* Every action pops the running activation and pushes a few frames.       *)
(* Advances says what such a step owes to the types and to the labels; one *)
(* lemma per action shows it, and two lemmas (StepKeepsTypes and           *)
(* StepKeepsLabels) show that it suffices.                                 *)
(***************************************************************************)
EXTENDS IrBuilder, StackTheorems

-----------------------------------------------------------------------------
(* What the ir_* operations preserve: the type of the function and the     *)
(* account of its labels.                                                  *)

(* An instruction that is not a label.                                     *)
Plain(ins) == ins \in IrInstr /\ ins.op # "label"
Branch(ins) == ins.op \in {"br", "brfalse"}

(* h is fn with code that ends in more instructions: they place the labels *)
(* of new and branch to labels of fn, and each label is still placed once. *)
Extends(fn, h, new) ==
    /\ h \in IrFunc
    /\ h.label_count = fn.label_count
    /\ Placed(h) = Placed(fn) \cup new
    /\ Targets(fn) \subseteq Labels(fn) => Targets(h) \subseteq Labels(fn)
    /\ LabelsOnce(fn) => LabelsOnce(h)

-----------------------------------------------------------------------------
(* The instructions the builder makes are IR instructions.                 *)
LEMMA Blanks == NoOper \in Operand /\ <<>> \in Seq(Int) /\ "" \in Names /\ -1 \in Int
<1>1. NoOper \in Operand BY DEF NoOper, Operand
<1>2. <<>> \in Seq(Int) BY EmptySeq
<1>3. "" \in Names BY NamesAssumption
<1>4. -1 \in Int OBVIOUS
<1>. QED BY <1>1, <1>2, <1>3, <1>4

(* Instructions with two operands.                                         *)
LEMMA InstrType ==
    ASSUME NEW op \in IrOps, NEW dst \in Int, NEW a \in Operand, NEW b \in Operand
    PROVE  Instr(op, dst, a, b) \in IrInstr
BY Blanks DEF Instr, IrInstr

(* Instructions with a label.                                              *)
LEMMA LabelInstrType ==
    ASSUME NEW op \in IrOps, NEW a \in Operand, NEW l \in Nat
    PROVE  LabelInstr(op, a, l) \in IrInstr
BY Blanks DEF LabelInstr, IrInstr

(* Calls.                                                                  *)
LEMMA CallInstrType ==
    ASSUME NEW dst \in Int, NEW name \in Names, NEW args \in Seq(Int)
    PROVE  CallInstr(dst, name, args) \in IrInstr
BY Blanks DEF CallInstr, IrInstr, IrOps

(* ir_push appends one instruction to the code and changes nothing else.   *)
LEMMA PushCode ==
    ASSUME NEW fn \in IrFunc, NEW ins \in IrInstr, NEW h, h = ir_push(fn, ins)
    PROVE  /\ h \in IrFunc
           /\ h.temp_count = fn.temp_count /\ h.label_count = fn.label_count
           /\ h.locals = fn.locals /\ h.code = Append(fn.code, ins)
           /\ DOMAIN fn.code = 1 .. Len(fn.code) /\ DOMAIN h.code = 1 .. Len(fn.code) + 1
           /\ Len(fn.code) \in Nat
           /\ h.code[Len(fn.code) + 1] = ins
           /\ \A i \in DOMAIN fn.code : h.code[i] = fn.code[i]
<1>1. fn.code \in Seq(IrInstr) BY DEF IrFunc
<1>2. Append(fn.code, ins) \in Seq(IrInstr) BY <1>1
<1>3. h = [fn EXCEPT !.code = Append(fn.code, ins)] BY DEF ir_push
<1>4. h \in IrFunc BY <1>2, <1>3 DEF IrFunc
<1>5. /\ h.temp_count = fn.temp_count /\ h.label_count = fn.label_count
      /\ h.locals = fn.locals /\ h.code = Append(fn.code, ins)
  BY <1>3 DEF IrFunc
<1>. QED BY <1>1, <1>4, <1>5

(* A plain instruction places no label; a branch adds its target.          *)
LEMMA PushPlain ==
    ASSUME NEW fn \in IrFunc, NEW ins, Plain(ins), Branch(ins) => ins.label \in Labels(fn)
    PROVE  Extends(fn, ir_push(fn, ins), {})
<1>. DEFINE h == ir_push(fn, ins)
<1>0. ins \in IrInstr /\ ins.op # "label" BY DEF Plain
<1>. HIDE DEF h
<1>1. /\ h \in IrFunc /\ h.label_count = fn.label_count
      /\ DOMAIN fn.code = 1 .. Len(fn.code) /\ DOMAIN h.code = 1 .. Len(fn.code) + 1
      /\ Len(fn.code) \in Nat /\ h.code[Len(fn.code) + 1] = ins
      /\ \A i \in DOMAIN fn.code : h.code[i] = fn.code[i]
  BY <1>0, PushCode DEF h
<1>2. Placed(h) = Placed(fn)
  BY <1>0, <1>1 DEF Placed
<1>3. Targets(fn) \subseteq Labels(fn) => Targets(h) \subseteq Labels(fn)
  BY <1>0, <1>1 DEF Targets, Branch
<1>4. LabelsOnce(fn) => LabelsOnce(h)
  BY <1>0, <1>1 DEF LabelsOnce
<1>. QED BY <1>1, <1>2, <1>3, <1>4 DEF Extends, h

(* A label that was not placed before is placed once.                      *)
LEMMA PushLabel ==
    ASSUME NEW fn \in IrFunc, NEW l \in Nat, l \notin Placed(fn)
    PROVE  Extends(fn, ir_emit_label(fn, l), {l})
<1>. DEFINE ins == LabelInstr("label", NoOper, l)
            h == ir_push(fn, ins)
<1>0. ins \in IrInstr /\ ins.op = "label" /\ ins.label = l
  <2>1. "label" \in IrOps BY DEF IrOps
  <2>2. ins \in IrInstr BY <2>1, Blanks, LabelInstrType
  <2>. QED BY <2>2 DEF LabelInstr
<1>. HIDE DEF ins, h
<1>1. /\ h \in IrFunc /\ h.label_count = fn.label_count
      /\ DOMAIN fn.code = 1 .. Len(fn.code) /\ DOMAIN h.code = 1 .. Len(fn.code) + 1
      /\ Len(fn.code) \in Nat /\ h.code[Len(fn.code) + 1] = ins
      /\ \A i \in DOMAIN fn.code : h.code[i] = fn.code[i]
  BY <1>0, PushCode DEF h
<1>2. Placed(h) = Placed(fn) \cup {l}
  BY <1>0, <1>1 DEF Placed
<1>3. Targets(fn) \subseteq Labels(fn) => Targets(h) \subseteq Labels(fn)
  BY <1>0, <1>1 DEF Targets
<1>4. LabelsOnce(fn) => LabelsOnce(h)
  <2>1. \A i \in DOMAIN fn.code : fn.code[i].op = "label" => fn.code[i].label # l
    BY DEF Placed
  <2>2. ASSUME LabelsOnce(fn), NEW i \in DOMAIN h.code, NEW j \in DOMAIN h.code,
               h.code[i].op = "label", h.code[j].op = "label", h.code[i].label = h.code[j].label
        PROVE  i = j
    <3>1. CASE i \in DOMAIN fn.code /\ j \in DOMAIN fn.code
      BY <3>1, <2>2, <1>1 DEF LabelsOnce
    <3>2. CASE i \in DOMAIN fn.code /\ j = Len(fn.code) + 1
      BY <3>2, <2>1, <2>2, <1>0, <1>1
    <3>3. CASE i = Len(fn.code) + 1 /\ j \in DOMAIN fn.code
      BY <3>3, <2>1, <2>2, <1>0, <1>1
    <3>. QED BY <3>1, <3>2, <3>3, <2>2, <1>1
  <2>. QED BY <2>2 DEF LabelsOnce
<1>. QED BY <1>1, <1>2, <1>3, <1>4 DEF Extends, h, ins, ir_emit_label

-----------------------------------------------------------------------------
(* One operation after the other.                                          *)
LEMMA ExtendsTwice ==
    ASSUME NEW fn, NEW g, NEW h, NEW A, NEW B, Extends(fn, g, A), Extends(g, h, B)
    PROVE  Extends(fn, h, A \cup B)
<1>1. Labels(g) = Labels(fn) BY DEF Extends, Labels
<1>. QED BY <1>1 DEF Extends

(* A fresh temporary and a local leave code and labels alone.              *)
LEMMA SameCode ==
    ASSUME NEW fn \in IrFunc, NEW h \in IrFunc,
           h.label_count = fn.label_count, h.code = fn.code
    PROVE  Extends(fn, h, {})
BY DEF Extends, Placed, Targets, LabelsOnce

(* A temporary more.                                                       *)
LEMMA NewTemp ==
    ASSUME NEW fn \in IrFunc
    PROVE  Extends(fn, ir_new_temp(fn), {}) /\ fn.temp_count \in Int
<1>. DEFINE n == fn.temp_count + 1
            h == [fn EXCEPT !.temp_count = n]
<1>1. n \in Nat /\ fn.temp_count \in Int BY DEF IrFunc
<1>. HIDE DEF n
<1>2. h \in IrFunc /\ h.label_count = fn.label_count /\ h.code = fn.code
  BY <1>1 DEF IrFunc
<1>3. Extends(fn, h, {}) BY <1>2, SameCode
<1>. QED BY <1>1, <1>3 DEF n, ir_new_temp

(* A local more.                                                           *)
LEMMA RegisterLocal ==
    ASSUME NEW fn \in IrFunc, NEW name \in Names, NEW t \in Int
    PROVE  Extends(fn, ir_register_local(fn, name, t), {})
<1>. DEFINE pair == [name |-> name, temp |-> t]
            h    == [fn EXCEPT !.locals = Append(@, pair)]
<1>1. pair \in IrLocal BY DEF IrLocal
<1>2. Append(fn.locals, pair) \in Seq(IrLocal) BY <1>1 DEF IrFunc
<1>3. h \in IrFunc /\ h.label_count = fn.label_count /\ h.code = fn.code
  BY <1>2 DEF IrFunc
<1>4. Extends(fn, h, {}) /\ Extends(fn, fn, {}) BY <1>3, SameCode
<1>5. ir_register_local(fn, name, t) = fn \/ ir_register_local(fn, name, t) = h
  BY DEF ir_register_local
<1>. QED BY <1>4, <1>5

(* ir_new_label: the labels grow, nothing is placed yet.                   *)
LEMMA NewLabels ==
    ASSUME NEW fn \in IrFunc, NEW n \in Nat, NEW h, h = ir_new_labels(fn, n)
    PROVE  /\ h \in IrFunc /\ fn.label_count \in Nat
           /\ h.label_count = fn.label_count + n
           /\ Labels(fn) \subseteq Labels(h)
           /\ Placed(h) = Placed(fn) /\ Targets(h) = Targets(fn)
           /\ LabelsOnce(fn) => LabelsOnce(h)
<1>1. /\ h \in IrFunc /\ h.label_count = fn.label_count + n /\ h.code = fn.code
      /\ fn.label_count \in Nat
  BY DEF ir_new_labels, IrFunc
<1>. QED BY <1>1 DEF Labels, Placed, Targets, LabelsOnce

-----------------------------------------------------------------------------
(* The emitting operations.                                                *)
LEMMA EmitBranch ==
    ASSUME NEW fn \in IrFunc, NEW l \in Labels(fn), NEW c \in Operand
    PROVE  /\ Extends(fn, ir_emit_br(fn, l), {})
           /\ Extends(fn, ir_emit_brfalse(fn, c, l), {})
<1>1. l \in Nat BY DEF Labels, IrFunc
<1>2. Plain(LabelInstr("br", NoOper, l)) /\ Plain(LabelInstr("brfalse", c, l))
  <2>1. "br" \in IrOps /\ "brfalse" \in IrOps BY DEF IrOps
  <2>2. LabelInstr("br", NoOper, l) \in IrInstr BY <1>1, <2>1, Blanks, LabelInstrType
  <2>3. LabelInstr("brfalse", c, l) \in IrInstr BY <1>1, <2>1, LabelInstrType
  <2>. QED BY <2>2, <2>3 DEF Plain, LabelInstr
<1>3. LabelInstr("br", NoOper, l).label = l /\ LabelInstr("brfalse", c, l).label = l
  BY DEF LabelInstr
<1>. QED BY <1>2, <1>3, PushPlain DEF ir_emit_br, ir_emit_brfalse

(* ir_emit_ret.                                                            *)
LEMMA EmitRet ==
    ASSUME NEW fn \in IrFunc, NEW c \in Operand
    PROVE  Extends(fn, ir_emit_ret(fn, c), {})
<1>. DEFINE ins == Instr("ret", -1, c, NoOper)
<1>1. "ret" \in IrOps BY DEF IrOps
<1>2. ins \in IrInstr BY <1>1, Blanks, InstrType
<1>3. Plain(ins) /\ ~Branch(ins) BY <1>2 DEF Plain, Branch, Instr
<1>. QED BY <1>3, PushPlain DEF ir_emit_ret

(* An operation that defines a fresh temporary and returns it.             *)
LEMMA EmitInto ==
    ASSUME NEW fn \in IrFunc, NEW ins, Plain(ins), ~Branch(ins),
           NEW h, h = ir_push(ir_new_temp(fn), ins)
    PROVE  Extends(fn, h, {}) /\ LastTemp(h) \in Int
<1>1. Extends(fn, ir_new_temp(fn), {}) /\ ir_new_temp(fn) \in IrFunc
  BY NewTemp DEF Extends
<1>2. Extends(ir_new_temp(fn), h, {}) BY <1>1, PushPlain
<1>3. Extends(fn, h, {} \cup {}) BY <1>1, <1>2, ExtendsTwice
<1>4. h \in IrFunc BY <1>2 DEF Extends
<1>. QED BY <1>3, <1>4 DEF LastTemp, IrFunc

(* ir_emit_mov.                                                            *)
LEMMA EmitMov ==
    ASSUME NEW fn \in IrFunc, NEW a \in Operand
    PROVE  Extends(fn, ir_emit_mov(fn, a), {}) /\ LastTemp(ir_emit_mov(fn, a)) \in Int
<1>. DEFINE ins == Instr("mov", fn.temp_count, a, NoOper)
<1>1. "mov" \in IrOps BY DEF IrOps
<1>2. ins \in IrInstr BY <1>1, NewTemp, Blanks, InstrType
<1>3. Plain(ins) /\ ~Branch(ins) BY <1>2 DEF Plain, Branch, Instr
<1>. QED BY <1>3, EmitInto DEF ir_emit_mov

(* ir_emit_bin_like.                                                       *)
LEMMA EmitBinLike ==
    ASSUME NEW fn \in IrFunc, NEW op \in ArithOps \cup RelOps, NEW a \in Operand, NEW b \in Operand
    PROVE  /\ Extends(fn, ir_emit_bin_like(fn, op, a, b), {})
           /\ LastTemp(ir_emit_bin_like(fn, op, a, b)) \in Int
<1>. DEFINE ins == Instr(op, fn.temp_count, a, b)
<1>1. op \in IrOps BY DEF IrOps
<1>2. ins \in IrInstr BY <1>1, NewTemp, InstrType
<1>3. Plain(ins) /\ ~Branch(ins) BY <1>2 DEF Plain, Branch, Instr, ArithOps, RelOps
<1>. QED BY <1>3, EmitInto DEF ir_emit_bin_like

(* ir_emit_call.                                                           *)
LEMMA EmitCallInstr ==
    ASSUME NEW fn \in IrFunc, NEW name \in Names, NEW args \in Seq(Int)
    PROVE  /\ Extends(fn, ir_emit_call(fn, name, args), {})
           /\ LastTemp(ir_emit_call(fn, name, args)) \in Int
<1>. DEFINE ins == CallInstr(fn.temp_count, name, args)
<1>1. ins \in IrInstr BY NewTemp, CallInstrType
<1>2. Plain(ins) /\ ~Branch(ins) BY <1>1 DEF Plain, Branch, CallInstr
<1>. QED BY <1>2, EmitInto DEF ir_emit_call

(* Operands, and the empty function every construction starts from.        *)
LEMMA Operands ==
    /\ \A t \in Int : ir_temp(t) \in Operand
    /\ \A kind \in Literals, v \in Int : ir_lit(kind, v) \in Operand
BY DEF ir_temp, ir_lit, Operand

(* A function begins without code and labels.                              *)
LEMMA FuncBegin ==
    ASSUME NEW name \in Names, NEW ret_type \in TypeTags, NEW params \in Seq(TypeTags),
           NEW h, h = ir_func_begin(name, ret_type, params)
    PROVE  /\ h \in IrFunc /\ Placed(h) = {} /\ Targets(h) = {} /\ Labels(h) = {} /\ LabelsOnce(h)
<1>1. <<>> \in Seq(IrInstr) /\ <<>> \in Seq(IrLocal) BY EmptySeq
<1>2. h \in IrFunc BY <1>1 DEF ir_func_begin, IrFunc
<1>3. h.code = <<>> /\ h.label_count = 0 BY DEF ir_func_begin
<1>. QED BY <1>2, <1>3 DEF Placed, Targets, Labels, LabelsOnce

-----------------------------------------------------------------------------
(* Temporaries.                                                            *)

(* The code of fn is in static single assignment form.                     *)
Assigned(fn) ==
    /\ \A i, j \in DOMAIN fn.code :
          i < j /\ fn.code[i].dst # -1 /\ fn.code[j].dst # -1 => fn.code[i].dst < fn.code[j].dst
    /\ \A i \in DOMAIN fn.code :
          /\ fn.code[i].dst \in Temps(fn) \cup {-1}
          /\ \A t \in Uses(fn.code[i]) :
                t \in Temps(fn) /\ \A d \in DOMAIN fn.code : fn.code[d].dst = t => d < i

Registered(fn, name, t) ==
    \E i \in DOMAIN fn.locals : fn.locals[i] = [name |-> name, temp |-> t]

(* h is fn after some operations: what they define is fresh, what they     *)
(* read is there already, and no local is lost.                            *)
Grows(fn, h) ==
    /\ h \in IrFunc
    /\ fn.temp_count <= h.temp_count
    /\ Assigned(fn) => Assigned(h)
    /\ \A name, t : Registered(fn, name, t) => Registered(h, name, t)
    /\ \A i \in DOMAIN h.code : h.code[i].dst \in Temps(fn) =>
          \E j \in DOMAIN fn.code : fn.code[j].dst = h.code[i].dst

(* The operand, if it is a temporary, is one of fn.                        *)
Reads(o, fn) == o.kind = "temp" => o.v \in Temps(fn)

(* The temporaries of a function that grows are there afterwards.          *)
LEMMA GrowsTemps ==
    ASSUME NEW fn \in IrFunc, NEW h, Grows(fn, h)
    PROVE  Temps(fn) \subseteq Temps(h)
BY DEF Grows, Temps, IrFunc

(* One operation after the other.                                          *)
LEMMA GrowsTwice ==
    ASSUME NEW fn \in IrFunc, NEW g, NEW h, Grows(fn, g), Grows(g, h)
    PROVE  Grows(fn, h)
<1>1. g \in IrFunc /\ h \in IrFunc BY DEF Grows
<1>2. fn.temp_count <= h.temp_count BY <1>1 DEF Grows, IrFunc
<1>3. Temps(fn) \subseteq Temps(g) BY GrowsTemps
<1>4. ASSUME NEW i \in DOMAIN h.code, h.code[i].dst \in Temps(fn)
      PROVE  \E j \in DOMAIN fn.code : fn.code[j].dst = h.code[i].dst
  <2>1. PICK k \in DOMAIN g.code : g.code[k].dst = h.code[i].dst BY <1>3, <1>4 DEF Grows
  <2>. QED BY <1>4, <2>1 DEF Grows
<1>. QED BY <1>1, <1>2, <1>4 DEF Grows

(* The operations on the counters and the locals leave the code alone.     *)
LEMMA SameCodeGrows ==
    ASSUME NEW fn \in IrFunc, NEW h \in IrFunc, h.code = fn.code, fn.temp_count <= h.temp_count,
           \A name, t : Registered(fn, name, t) => Registered(h, name, t)
    PROVE  Grows(fn, h)
<1>1. Temps(fn) \subseteq Temps(h) BY DEF Temps, IrFunc
<1>2. Assigned(fn) => Assigned(h) BY <1>1 DEF Assigned
<1>. QED BY <1>2 DEF Grows

(* ir_new_temp counts.                                                     *)
LEMMA TempMore ==
    ASSUME NEW fn \in IrFunc
    PROVE  LET h == ir_new_temp(fn)
           IN  /\ h \in IrFunc /\ h.code = fn.code /\ h.locals = fn.locals
               /\ h.temp_count = fn.temp_count + 1 /\ fn.temp_count \in Nat
<1>. DEFINE n == fn.temp_count + 1
            h == [fn EXCEPT !.temp_count = n]
<1>1. n \in Nat /\ fn.temp_count \in Nat BY DEF IrFunc
<1>. HIDE DEF n
<1>2. h \in IrFunc /\ h.code = fn.code /\ h.locals = fn.locals /\ h.temp_count = n
  BY <1>1 DEF IrFunc
<1>. QED BY <1>1, <1>2 DEF n, ir_new_temp

(* ir_new_temp and ir_new_label.                                           *)
LEMMA NewGrows ==
    ASSUME NEW fn \in IrFunc
    PROVE  /\ Grows(fn, fn)
           /\ Grows(fn, ir_new_temp(fn)) /\ fn.temp_count \in Temps(ir_new_temp(fn))
           /\ \A n \in Nat : Grows(fn, ir_new_labels(fn, n))
<1>1. Grows(fn, fn) BY SameCodeGrows DEF IrFunc
<1>2. /\ ir_new_temp(fn) \in IrFunc /\ ir_new_temp(fn).code = fn.code
      /\ ir_new_temp(fn).temp_count = fn.temp_count + 1 /\ ir_new_temp(fn).locals = fn.locals
      /\ fn.temp_count \in Nat
  BY TempMore
<1>3. Grows(fn, ir_new_temp(fn)) BY <1>2, SameCodeGrows DEF Registered
<1>4. fn.temp_count \in Temps(ir_new_temp(fn)) BY <1>2 DEF Temps
<1>5. ASSUME NEW n \in Nat PROVE Grows(fn, ir_new_labels(fn, n))
  <2>. DEFINE m == fn.label_count + n
              h == [fn EXCEPT !.label_count = m]
  <2>1. m \in Nat BY DEF IrFunc
  <2>. HIDE DEF m
  <2>2. /\ h \in IrFunc /\ h.code = fn.code /\ h.temp_count = fn.temp_count
        /\ h.locals = fn.locals /\ fn.temp_count \in Nat
    BY <2>1 DEF IrFunc
  <2>. HIDE DEF h
  <2>3. fn.temp_count <= h.temp_count /\ \A name, t : Registered(fn, name, t) => Registered(h, name, t)
    BY <2>2 DEF Registered
  <2>4. Grows(fn, h) BY <2>2, <2>3, SameCodeGrows
  <2>. QED BY <2>4 DEF h, m, ir_new_labels
<1>. QED BY <1>1, <1>3, <1>4, <1>5

(* ir_register_local adds the pair and keeps the others.                   *)
LEMMA RegisterGrows ==
    ASSUME NEW fn \in IrFunc, NEW name \in Names, NEW t \in Int
    PROVE  /\ Grows(fn, ir_register_local(fn, name, t))
           /\ Registered(ir_register_local(fn, name, t), name, t)
           /\ ir_register_local(fn, name, t).temp_count = fn.temp_count
<1>. DEFINE pair == [name |-> name, temp |-> t]
            h    == [fn EXCEPT !.locals = Append(@, pair)]
<1>1. pair \in IrLocal BY DEF IrLocal
<1>2. fn.locals \in Seq(IrLocal) BY DEF IrFunc
<1>3. /\ Append(fn.locals, pair) \in Seq(IrLocal)
      /\ DOMAIN fn.locals = 1 .. Len(fn.locals) /\ Len(fn.locals) \in Nat
      /\ DOMAIN Append(fn.locals, pair) = 1 .. Len(fn.locals) + 1
      /\ Append(fn.locals, pair)[Len(fn.locals) + 1] = pair
      /\ \A i \in 1 .. Len(fn.locals) : Append(fn.locals, pair)[i] = fn.locals[i]
  BY <1>1, <1>2
<1>4. /\ h \in IrFunc /\ h.code = fn.code /\ h.temp_count = fn.temp_count
      /\ h.locals = Append(fn.locals, pair) /\ fn.temp_count \in Nat
  BY <1>3 DEF IrFunc
<1>5. CASE Registered(fn, name, t)
  <2>1. ir_register_local(fn, name, t) = fn BY <1>5 DEF ir_register_local, Registered
  <2>. QED BY <1>5, <2>1, NewGrows
<1>6. CASE ~Registered(fn, name, t)
  <2>1. ir_register_local(fn, name, t) = h BY <1>6 DEF ir_register_local, Registered
  <2>. HIDE DEF h
  <2>2. Len(fn.locals) + 1 \in DOMAIN h.locals /\ h.locals[Len(fn.locals) + 1] = pair
    BY <1>3, <1>4
  <2>3. Registered(h, name, t) BY <2>2 DEF Registered
  <2>4. ASSUME NEW m, NEW u, Registered(fn, m, u) PROVE Registered(h, m, u)
    <3>1. PICK i \in DOMAIN fn.locals : fn.locals[i] = [name |-> m, temp |-> u]
      BY <2>4 DEF Registered
    <3>2. i \in DOMAIN h.locals /\ h.locals[i] = fn.locals[i] BY <1>3, <1>4
    <3>. QED BY <3>1, <3>2 DEF Registered
  <2>5. Grows(fn, h) BY <1>4, <2>4, SameCodeGrows
  <2>. QED BY <1>4, <2>1, <2>3, <2>5
<1>. QED BY <1>5, <1>6

(* An instruction without a destination.                                   *)
LEMMA PushQuiet ==
    ASSUME NEW fn \in IrFunc, NEW ins \in IrInstr, ins.dst = -1, Uses(ins) \subseteq Temps(fn)
    PROVE  Grows(fn, ir_push(fn, ins))
<1>. DEFINE h == ir_push(fn, ins)
            n == Len(fn.code)
<1>1. /\ h \in IrFunc /\ h.temp_count = fn.temp_count /\ h.locals = fn.locals
      /\ DOMAIN fn.code = 1 .. n /\ DOMAIN h.code = 1 .. n + 1
      /\ n \in Nat /\ h.code[n + 1] = ins
      /\ \A i \in DOMAIN fn.code : h.code[i] = fn.code[i]
  BY PushCode
<1>2. fn.temp_count \in Nat /\ Temps(h) = Temps(fn) BY <1>1 DEF IrFunc, Temps
<1>. HIDE DEF h, n
<1>3. \A i \in DOMAIN h.code : i \in DOMAIN fn.code \/ i = n + 1 BY <1>1
<1>4. \A i \in DOMAIN fn.code : i < n + 1 /\ i \in DOMAIN h.code BY <1>1
<1>5. -1 \notin Temps(fn) BY DEF Temps
<1>6. ASSUME Assigned(fn) PROVE Assigned(h)
  <2>1. ASSUME NEW i \in DOMAIN h.code, NEW j \in DOMAIN h.code,
               i < j, h.code[i].dst # -1, h.code[j].dst # -1
        PROVE  h.code[i].dst < h.code[j].dst
    BY <1>1, <1>3, <1>6, <2>1 DEF Assigned
  <2>2. ASSUME NEW i \in DOMAIN h.code
        PROVE  /\ h.code[i].dst \in Temps(h) \cup {-1}
               /\ \A t \in Uses(h.code[i]) :
                     t \in Temps(h) /\ \A d \in DOMAIN h.code : h.code[d].dst = t => d < i
    <3>1. CASE i \in DOMAIN fn.code
      BY <1>1, <1>2, <1>3, <1>5, <1>6, <3>1 DEF Assigned
    <3>2. CASE i = n + 1
      BY <1>1, <1>2, <1>3, <1>4, <1>5, <3>2
    <3>. QED BY <1>3, <3>1, <3>2
  <2>. QED BY <2>1, <2>2 DEF Assigned
<1>7. \A i \in DOMAIN h.code : h.code[i].dst \in Temps(fn) =>
         \E j \in DOMAIN fn.code : fn.code[j].dst = h.code[i].dst
  BY <1>1, <1>3, <1>5
<1>8. Grows(fn, h) BY <1>1, <1>2, <1>6, <1>7 DEF Grows, Registered
<1>. QED BY <1>8 DEF h

(* An instruction into a fresh temporary, which is then the last one.      *)
LEMMA PushInto ==
    ASSUME NEW fn \in IrFunc, NEW ins \in IrInstr, ins.dst = fn.temp_count,
           Uses(ins) \subseteq Temps(fn)
    PROVE  LET h == ir_push(ir_new_temp(fn), ins)
           IN  Grows(fn, h) /\ LastTemp(h) \in Temps(h)
<1>. DEFINE g == ir_new_temp(fn)
            h == ir_push(g, ins)
            n == Len(fn.code)
<1>1. /\ g \in IrFunc /\ g.code = fn.code /\ g.locals = fn.locals
      /\ g.temp_count = fn.temp_count + 1 /\ fn.temp_count \in Nat
  BY TempMore
<1>. HIDE DEF g
<1>2. /\ h \in IrFunc /\ h.temp_count = fn.temp_count + 1 /\ h.locals = fn.locals
      /\ DOMAIN fn.code = 1 .. n /\ DOMAIN h.code = 1 .. n + 1
      /\ n \in Nat /\ h.code[n + 1] = ins
      /\ \A i \in DOMAIN fn.code : h.code[i] = fn.code[i]
  BY <1>1, PushCode
<1>. HIDE DEF h, n
<1>3. /\ \A t \in Temps(fn) : t \in Temps(h) /\ t # fn.temp_count /\ t < fn.temp_count
      /\ fn.temp_count \in Temps(h) /\ LastTemp(h) = fn.temp_count
      /\ fn.temp_count \notin Temps(fn) /\ -1 \notin Temps(h) /\ fn.temp_count # -1
  BY <1>1, <1>2 DEF Temps, LastTemp
<1>4. \A i \in DOMAIN h.code : i \in DOMAIN fn.code \/ i = n + 1 BY <1>2
<1>5. \A i \in DOMAIN fn.code : i < n + 1 /\ ~(n + 1 < i) /\ i \in DOMAIN h.code BY <1>2
<1>6. ASSUME Assigned(fn) PROVE Assigned(h)
  <2>1. \A i \in DOMAIN fn.code : fn.code[i].dst \in Temps(fn) \cup {-1} BY <1>6 DEF Assigned
  <2>2. ASSUME NEW i \in DOMAIN h.code, NEW j \in DOMAIN h.code,
               i < j, h.code[i].dst # -1, h.code[j].dst # -1
        PROVE  h.code[i].dst < h.code[j].dst
    <3>1. CASE i \in DOMAIN fn.code /\ j \in DOMAIN fn.code
      BY <1>2, <1>6, <2>2, <3>1 DEF Assigned
    <3>2. CASE i \in DOMAIN fn.code /\ j = n + 1
      BY <1>2, <1>3, <2>1, <2>2, <3>2
    <3>3. i # n + 1 BY <1>2, <1>5, <2>2
    <3>. QED BY <1>4, <3>1, <3>2, <3>3
  <2>3. ASSUME NEW i \in DOMAIN h.code
        PROVE  /\ h.code[i].dst \in Temps(h) \cup {-1}
               /\ \A t \in Uses(h.code[i]) :
                     t \in Temps(h) /\ \A d \in DOMAIN h.code : h.code[d].dst = t => d < i
    <3>1. CASE i \in DOMAIN fn.code
      BY <1>2, <1>3, <1>4, <1>6, <3>1 DEF Assigned
    <3>2. CASE i = n + 1
      BY <1>2, <1>3, <1>4, <1>5, <2>1, <3>2
    <3>. QED BY <1>4, <3>1, <3>2
  <2>. QED BY <2>2, <2>3 DEF Assigned
<1>7. \A i \in DOMAIN h.code : h.code[i].dst \in Temps(fn) =>
         \E j \in DOMAIN fn.code : fn.code[j].dst = h.code[i].dst
  BY <1>2, <1>3, <1>4
<1>8. Grows(fn, h) /\ LastTemp(h) \in Temps(h)
  BY <1>1, <1>2, <1>3, <1>6, <1>7 DEF Grows, Registered
<1>. QED BY <1>8 DEF g, h

(* What an instruction reads.                                              *)
LEMMA UsesOf ==
    ASSUME NEW fn, NEW a, NEW b, NEW op, NEW dst, NEW l, Reads(a, fn), Reads(b, fn)
    PROVE  Uses(Instr(op, dst, a, b)) \subseteq Temps(fn)
           /\ Uses(LabelInstr(op, a, l)) \subseteq Temps(fn)
BY DEF Uses, Instr, LabelInstr, Reads, NoOper

(* The operands the builder passes.                                        *)
LEMMA ReadsOf ==
    ASSUME NEW fn
    PROVE  /\ Reads(NoOper, fn)
           /\ \A t \in Temps(fn) : ir_temp(t) \in Operand /\ Reads(ir_temp(t), fn)
           /\ \A kind \in Literals, v \in Int :
                 ir_lit(kind, v) \in Operand /\ Reads(ir_lit(kind, v), fn)
BY DEF Reads, NoOper, ir_temp, ir_lit, Operand, Temps, Literals

(* The operations that emit a value.                                       *)
LEMMA MovGrows ==
    ASSUME NEW fn \in IrFunc, NEW a \in Operand, Reads(a, fn)
    PROVE  LET h == ir_emit_mov(fn, a) IN Grows(fn, h) /\ LastTemp(h) \in Temps(h)
<1>. DEFINE ins == Instr("mov", fn.temp_count, a, NoOper)
<1>1. "mov" \in IrOps BY DEF IrOps
<1>2. ins \in IrInstr BY <1>1, NewTemp, Blanks, InstrType
<1>3. ins.dst = fn.temp_count BY DEF Instr
<1>4. Uses(ins) \subseteq Temps(fn) BY ReadsOf, UsesOf
<1>. HIDE DEF ins
<1>5. Grows(fn, ir_push(ir_new_temp(fn), ins))
      /\ LastTemp(ir_push(ir_new_temp(fn), ins)) \in Temps(ir_push(ir_new_temp(fn), ins))
  BY <1>2, <1>3, <1>4, PushInto
<1>. QED BY <1>5 DEF ins, ir_emit_mov

(* ir_emit_bin_like reads what is assigned, and assigns one more.          *)
LEMMA BinLikeGrows ==
    ASSUME NEW fn \in IrFunc, NEW op \in ArithOps \cup RelOps,
           NEW a \in Operand, NEW b \in Operand, Reads(a, fn), Reads(b, fn)
    PROVE  LET h == ir_emit_bin_like(fn, op, a, b) IN Grows(fn, h) /\ LastTemp(h) \in Temps(h)
<1>. DEFINE ins == Instr(op, fn.temp_count, a, b)
<1>1. op \in IrOps BY DEF IrOps
<1>2. ins \in IrInstr BY <1>1, NewTemp, InstrType
<1>3. ins.dst = fn.temp_count BY DEF Instr
<1>4. Uses(ins) \subseteq Temps(fn) BY UsesOf
<1>. HIDE DEF ins
<1>5. Grows(fn, ir_push(ir_new_temp(fn), ins))
      /\ LastTemp(ir_push(ir_new_temp(fn), ins)) \in Temps(ir_push(ir_new_temp(fn), ins))
  BY <1>2, <1>3, <1>4, PushInto
<1>. QED BY <1>5 DEF ins, ir_emit_bin_like

(* ir_emit_call reads what is assigned, and assigns one more.              *)
LEMMA CallGrows ==
    ASSUME NEW fn \in IrFunc, NEW name \in Names, NEW args \in Seq(Int),
           \A m \in DOMAIN args : args[m] \in Temps(fn)
    PROVE  LET h == ir_emit_call(fn, name, args) IN Grows(fn, h) /\ LastTemp(h) \in Temps(h)
<1>. DEFINE ins == CallInstr(fn.temp_count, name, args)
<1>1. ins \in IrInstr BY NewTemp, CallInstrType
<1>2. ins.dst = fn.temp_count BY DEF CallInstr
<1>3. Uses(ins) \subseteq Temps(fn) BY DEF Uses, CallInstr, NoOper
<1>. HIDE DEF ins
<1>4. Grows(fn, ir_push(ir_new_temp(fn), ins))
      /\ LastTemp(ir_push(ir_new_temp(fn), ins)) \in Temps(ir_push(ir_new_temp(fn), ins))
  BY <1>1, <1>2, <1>3, PushInto
<1>. QED BY <1>4 DEF ins, ir_emit_call

(* The operations that emit a label, a branch or a return.                 *)
LEMMA FlowGrows ==
    ASSUME NEW fn \in IrFunc, NEW l \in Nat, NEW c \in Operand, Reads(c, fn)
    PROVE  /\ Grows(fn, ir_emit_label(fn, l)) /\ Grows(fn, ir_emit_br(fn, l))
           /\ Grows(fn, ir_emit_brfalse(fn, c, l)) /\ Grows(fn, ir_emit_ret(fn, c))
<1>1. "label" \in IrOps /\ "br" \in IrOps /\ "brfalse" \in IrOps /\ "ret" \in IrOps
  BY DEF IrOps
<1>2. Reads(NoOper, fn) BY ReadsOf
<1>3. ASSUME NEW op \in {"label", "br", "brfalse"}, NEW a \in {NoOper, c}
      PROVE  Grows(fn, ir_push(fn, LabelInstr(op, a, l)))
  <2>1. LabelInstr(op, a, l) \in IrInstr BY <1>1, Blanks, LabelInstrType
  <2>2. Uses(LabelInstr(op, a, l)) \subseteq Temps(fn) BY <1>2, UsesOf
  <2>3. LabelInstr(op, a, l).dst = -1 BY DEF LabelInstr
  <2>. QED BY <2>1, <2>2, <2>3, PushQuiet
<1>4. Grows(fn, ir_push(fn, Instr("ret", -1, c, NoOper)))
  <2>1. Instr("ret", -1, c, NoOper) \in IrInstr BY <1>1, Blanks, InstrType
  <2>2. Uses(Instr("ret", -1, c, NoOper)) \subseteq Temps(fn) BY <1>2, UsesOf
  <2>3. Instr("ret", -1, c, NoOper).dst = -1 BY DEF Instr
  <2>. QED BY <2>1, <2>2, <2>3, PushQuiet
<1>. QED BY <1>3, <1>4 DEF ir_emit_label, ir_emit_br, ir_emit_brfalse, ir_emit_ret

-----------------------------------------------------------------------------
(* The machine.                                                            *)

(* Well-typed activations and variable maps.                               *)
GoodFrames == {fr \in FrameType : fr.n \in NodesOf[fr.k] /\ (fr.k = "apply" => Len(fr.ts) = 1)}
GoodVars(v) ==
    /\ v = [n \in DOMAIN v |-> v[n]]
    /\ \A n \in DOMAIN v : n \in Names /\ v[n] \in VarTemp

(* TypeOK with the condition on the stack as membership in a set.          *)
TypeInv ==
    /\ ast \in Programs /\ funcs \in Seq(IrFunc) /\ f \in IrFunc
    /\ GoodVars(g_vars) /\ g_scope_depth \in Nat
    /\ todo \in Seq(GoodFrames) /\ ret \in Int

RootKinds == {"functions", "_entry"}

(* irb_build_program stays at the bottom of the stack for ever, and the    *)
(* end of a function is right above it.                                    *)
Shape ==
    /\ \A j \in DOMAIN todo : todo[j].k \in RootKinds <=> j = Len(todo)
    /\ \A j \in DOMAIN todo : todo[j].k = "end" => j = Len(todo) - 1

IInv == TypeOK /\ Shape /\ LabelsAccounted /\ BranchesResolve

(* Only the last of the frames owes labels, those of P.                    *)
Owing(frames, P) ==
    /\ \A j \in DOMAIN frames : j < Len(frames) => Pending(frames[j]) = {}
    /\ P = IF frames = <<>> THEN {} ELSE Pending(frames[Len(frames)])

(* The activations inside one function, and a step among them.             *)
InnerFrames == {fr \in GoodFrames : fr.k \notin RootKinds \cup {"end"}}
Around ==
    /\ todo # <<>> /\ UNCHANGED unit
    /\ ret' \in Int /\ GoodVars(g_vars') /\ g_scope_depth' \in Nat
Typed(frames) ==
    /\ Around /\ f' \in IrFunc
    /\ frames \in Seq(GoodFrames)
    /\ \A j \in DOMAIN frames : frames[j] \in InnerFrames
    /\ Continue(frames)

Balanced(frames, placed, P) ==
    /\ Owing(frames, P)
    /\ LabelsOnce(f') /\ Targets(f') \subseteq Labels(f')
    /\ Labels(f) \subseteq Labels(f')
    /\ Placed(f') = Placed(f) \cup placed
    /\ placed \cup P = Pending(Top) \cup (Labels(f') \ Labels(f))
    /\ placed \cap P = {}

Advances == \E frames, placed, P : Typed(frames) /\ Balanced(frames, placed, P)

-----------------------------------------------------------------------------
(* The nodes of the tree.                                                  *)
LEMMA ExprNodes ==
    ASSUME NEW e \in Exprs
    PROVE  /\ e.kind \in Literals \cup {"ident", "unary", "binary", "assign", "call"}
           /\ e.kind \in Literals => e.value \in Int
           /\ e.kind \in {"ident", "assign", "call"} => e.name \in Names
           /\ e.kind = "unary" => e.op \in UnOps /\ e.expr \in Exprs
           /\ e.kind = "binary" => e.op \in BinOps /\ e.left \in Exprs /\ e.right \in Exprs
           /\ e.kind = "assign" => e.value \in Exprs
           /\ e.kind = "call" => e.args \in Seq(Exprs)
<1>1. ExprShape(e, Exprs) BY AstAssumption
<1>. QED BY <1>1 DEF ExprShape, Literals

(* The statements of the tree.                                             *)
LEMMA StmtNodes ==
    ASSUME NEW s \in Stmts
    PROVE  /\ s.kind \in {"expr", "decl", "block", "if", "while", "for", "return", "function"}
           /\ s.kind = "expr" => s.expr \in Exprs
           /\ s.kind = "decl" => /\ s.type \in TypeTags /\ s.name \in Names
                                 /\ s.init \in Exprs \cup {NullNode}
           /\ s.kind = "block" => s.stmts \in Seq(Stmts)
           /\ s.kind = "if" => /\ s.cond \in Exprs /\ s.then \in Stmts \cup {NullNode}
                               /\ s.else \in Stmts \cup {NullNode}
           /\ s.kind \in {"while", "for"} => s.cond \in Exprs /\ s.body \in Stmts \cup {NullNode}
           /\ s.kind = "for" => s.init \in Exprs /\ s.step \in Exprs
           /\ s.kind = "return" => s.expr \in Exprs \cup {NullNode}
           /\ s.kind = "function" =>
                 /\ s.ret_type \in TypeTags /\ s.name \in Names
                 /\ s.params \in Seq({d \in Stmts : d.kind = "decl"})
                 /\ s.body \in Stmts
<1>1. StmtShape(s, Exprs, Stmts) BY AstAssumption
<1>. QED BY <1>1 DEF StmtShape

(* The nodes of each kind of frame.                                        *)
LEMMA NodesAt ==
    /\ NodesOf["functions"] = Programs /\ NodesOf["_entry"] = Programs
    /\ NodesOf["end"] = {s \in Stmts : s.kind = "function"}
    /\ NodesOf["stmt"] = Exprs \cup Stmts \cup {NullNode}
    /\ NodesOf["block"] = {s \in Stmts : s.kind = "block"}
    /\ NodesOf["for"] = {s \in Stmts : s.kind = "for"}
    /\ NodesOf["return"] = {s \in Stmts : s.kind = "return"}
    /\ NodesOf["init"] = {s \in Stmts : s.kind = "decl"}
    /\ \A k \in {"then", "else", "endif"} : NodesOf[k] = {s \in Stmts : s.kind = "if"}
    /\ \A k \in {"test", "loop"} : NodesOf[k] = {s \in Stmts : s.kind \in {"while", "for"}}
    /\ NodesOf["step"] = {s \in Stmts : s.kind = "for"}
    /\ NodesOf["expr"] = Exprs
    /\ NodesOf["unary"] = {e \in Exprs : e.kind = "unary"}
    /\ NodesOf["assign"] = {e \in Exprs : e.kind = "assign"}
    /\ NodesOf["binary"] = {e \in Exprs : e.kind = "binary"}
    /\ \A k \in {"apply", "and", "or"} : NodesOf[k] = {e \in Exprs : e.kind = "binary"}
    /\ NodesOf["arg"] = {e \in Exprs : e.kind = "call"}
BY DEF NodesOf, FrameKinds, StmtsOf, ExprsOf

(* The nodes of a frame are nodes of the tree.                             *)
LEMMA NodesOfNodes == \A k \in FrameKinds : NodesOf[k] \subseteq Nodes
BY DEF NodesOf, FrameKinds, StmtsOf, ExprsOf, Nodes

-----------------------------------------------------------------------------
(* Frames.                                                                 *)
LEMMA FrameGood ==
    ASSUME NEW k \in FrameKinds, k # "apply", NEW n \in NodesOf[k], NEW l \in Nat
    PROVE  Labelled(k, n, l) \in GoodFrames
<1>1. n \in Nodes BY NodesOfNodes
<1>2. <<>> \in Seq(Int) BY EmptySeq
<1>3. Labelled(k, n, l) \in FrameType BY <1>1, <1>2 DEF Labelled, FrameType
<1>. QED BY <1>3 DEF Labelled, GoodFrames

(* A frame without labels of its own owes none.                            *)
LEMMA FramePending ==
    ASSUME NEW k \in FrameKinds, NEW n, NEW l \in Nat,
           k \notin {"then", "else", "and", "or", "endif", "test", "step", "loop"}
    PROVE  Pending(Frame(k, n)) = {}
BY DEF Frame, Labelled, Pending

(* The frames are typed if and only if TypeOK says so.                     *)
LEMMA TypedStack == TypeOK <=> TypeInv
<1>1. todo \in Seq(GoodFrames) <=>
        /\ todo \in Seq(FrameType)
        /\ \A j \in DOMAIN todo : /\ todo[j].n \in NodesOf[todo[j].k]
                                  /\ todo[j].k = "apply" => Len(todo[j].ts) = 1
  <2>1. ASSUME todo \in Seq(GoodFrames)
        PROVE  todo \in Seq(FrameType)
    BY <2>1, SeqDef DEF GoodFrames
  <2>2. ASSUME todo \in Seq(GoodFrames), NEW j \in DOMAIN todo
        PROVE  todo[j] \in GoodFrames
    BY <2>2
  <2>3. ASSUME todo \in Seq(FrameType), \A j \in DOMAIN todo : todo[j] \in GoodFrames
        PROVE  todo \in Seq(GoodFrames)
    BY <2>3, SeqDef
  <2>4. ASSUME todo \in Seq(FrameType), NEW j \in DOMAIN todo
        PROVE  todo[j] \in FrameType
    BY <2>4
  <2>. QED BY <2>1, <2>2, <2>3, <2>4 DEF GoodFrames
<1>. QED BY <1>1 DEF TypeOK, TypeInv, GoodVars

-----------------------------------------------------------------------------
(* A step that replaces the head of the stack keeps the types.             *)
LEMMA StepKeepsTypes ==
    ASSUME TypeOK, todo # <<>>, NEW frames, Typed(frames)
    PROVE  TypeOK'
<1>1. todo \in Seq(GoodFrames) /\ ast \in Programs /\ funcs \in Seq(IrFunc) BY TypedStack DEF TypeInv
<1>2. todo' \in Seq(GoodFrames) BY <1>1, Replaced DEF Typed, Continue
<1>3. /\ ast' \in Programs /\ funcs' \in Seq(IrFunc) /\ f' \in IrFunc
      /\ GoodVars(g_vars') /\ g_scope_depth' \in Nat /\ ret' \in Int
  BY <1>1 DEF Typed, Around, unit
<1>4. TypeOK' <=> TypeInv' BY TypedStack, PTL
<1>. QED BY <1>2, <1>3, <1>4 DEF TypeInv, GoodVars

(* The bottom of the stack stays where it is.                              *)
LEMMA StepKeepsShape ==
    ASSUME TypeOK, Shape, todo # <<>>, Top.k \notin RootKinds \cup {"end"},
           NEW frames, Typed(frames)
    PROVE  Shape'
<1>. DEFINE m == Len(frames)
            n == Len(todo)
            t == todo'
<1>1. todo \in Seq(GoodFrames) BY TypedStack DEF TypeInv
<1>2. frames \in Seq(GoodFrames) /\ t = frames \o Tail(todo) BY DEF Typed, Continue
<1>3. /\ n \in Nat \ {0} /\ m \in Nat /\ Len(t) = m + n - 1
      /\ DOMAIN todo = 1 .. n /\ DOMAIN frames = 1 .. m /\ DOMAIN t = 1 .. Len(t)
      /\ Head(todo) = todo[1]
      /\ \A i \in 1 .. m : t[i] = frames[i]
      /\ \A i \in m + 1 .. Len(t) : t[i] = todo[i - m + 1]
  BY <1>1, <1>2, Replaced
<1>4. \A i \in 1 .. m : t[i].k \notin RootKinds \cup {"end"} BY <1>3 DEF Typed, InnerFrames
<1>5. n # 1 BY <1>3 DEF Shape, Top
<1>6. ASSUME NEW j \in DOMAIN t
      PROVE  (t[j].k \in RootKinds <=> j = Len(t)) /\ (t[j].k = "end" => j = Len(t) - 1)
  <2>1. CASE j \in 1 .. m
    BY <2>1, <1>3, <1>4, <1>5
  <2>2. CASE j \in m + 1 .. Len(t)
    <3>1. t[j] = todo[j - m + 1] /\ j - m + 1 \in DOMAIN todo BY <2>2, <1>3
    <3>2. /\ todo[j - m + 1].k \in RootKinds <=> j - m + 1 = n
          /\ todo[j - m + 1].k = "end" => j - m + 1 = n - 1
      BY <3>1 DEF Shape
    <3>3. m \in Nat /\ n \in Nat /\ Len(t) = m + n - 1 /\ j \in Int BY <1>3, <2>2
    <3>. HIDE DEF m, n, t
    <3>4. (j - m + 1 = n <=> j = Len(t)) /\ (j - m + 1 = n - 1 <=> j = Len(t) - 1)
      BY <3>3
    <3>. QED BY <3>1, <3>2, <3>4
  <2>. QED BY <2>1, <2>2, <1>3
<1>. QED BY <1>6 DEF Shape

(* The labels of the popped activation and the fresh ones are emitted or   *)
(* handed to the last frame pushed: the account stays balanced.            *)
LEMMA StepKeepsLabels ==
    ASSUME TypeOK, LabelsAccounted, todo # <<>>,
           NEW frames, NEW placed, NEW P, Typed(frames), Balanced(frames, placed, P)
    PROVE  LabelsAccounted'
<1>. DEFINE m == Len(frames)
            n == Len(todo)
            t == todo'
            L == Labels(f)
            M == Labels(f')
            O == Pending(todo[1])
<1>1. todo \in Seq(GoodFrames) BY TypedStack DEF TypeInv
<1>2. frames \in Seq(GoodFrames) /\ t = frames \o Tail(todo) BY DEF Typed, Continue
<1>3. /\ n \in Nat \ {0} /\ m \in Nat /\ Len(t) = m + n - 1
      /\ DOMAIN todo = 1 .. n /\ DOMAIN frames = 1 .. m /\ DOMAIN t = 1 .. Len(t)
      /\ Head(todo) = todo[1]
      /\ \A i \in 1 .. m : t[i] = frames[i]
      /\ \A i \in m + 1 .. Len(t) : t[i] = todo[i - m + 1]
  BY <1>1, <1>2, Replaced
<1>4. /\ \A i \in 1 .. m : i < m => Pending(frames[i]) = {}
      /\ P = IF frames = <<>> THEN {} ELSE Pending(frames[m])
      /\ LabelsOnce(f') /\ Targets(f') \subseteq M /\ L \subseteq M
      /\ Placed(f') = Placed(f) \cup placed
      /\ placed \cup P = O \cup (M \ L) /\ placed \cap P = {}
  BY <1>3 DEF Balanced, Owing, Top
<1>5. /\ \A j \in 1 .. n : Pending(todo[j]) \cap Placed(f) = {}
      /\ \A j, k \in 1 .. n : j # k => Pending(todo[j]) \cap Pending(todo[k]) = {}
      /\ L = Placed(f) \cup UNION {Pending(todo[j]) : j \in 1 .. n}
  BY <1>3 DEF LabelsAccounted
<1>. DEFINE New(i) == i \in 1 .. m
            Old(i) == i \in m + 1 .. Len(t)
            pos(i) == i - m + 1
<1>6. DOMAIN t = {i \in 1 .. Len(t) : New(i) \/ Old(i)} BY <1>3
<1>7. ASSUME NEW i, New(i) PROVE Pending(t[i]) = {} \/ (i = m /\ Pending(t[i]) = P)
  <2>1. t[i] = frames[i] /\ i \in Nat /\ i <= m /\ m # 0 BY <1>3, <1>7
  <2>2. frames # <<>> BY <1>2, <2>1, EmptySeq
  <2>3. CASE i = m
    BY <1>4, <2>1, <2>2, <2>3
  <2>4. CASE i # m
    <3>1. i \in Nat /\ m \in Nat /\ i <= m BY <1>3, <2>1
    <3>. HIDE DEF m
    <3>2. i < m BY <2>4, <3>1
    <3>. QED BY <1>4, <1>7, <2>1, <3>2
  <2>. QED BY <2>3, <2>4
<1>8. ASSUME NEW i, Old(i) PROVE t[i] = todo[pos(i)] /\ pos(i) \in 1 .. n /\ pos(i) # 1
  <2>1. m \in Nat /\ n \in Nat /\ Len(t) = m + n - 1 /\ i \in m + 1 .. Len(t) BY <1>3, <1>8
  <2>2. pos(i) \in 1 .. n /\ pos(i) # 1
    <3>. HIDE DEF m, n, t
    <3>. QED BY <2>1
  <2>. QED BY <1>3, <1>8, <2>2
(* What an untouched activation owes is old, unplaced, and not the head's. *)
<1>9. ASSUME NEW j \in 1 .. n, j # 1
      PROVE  Pending(todo[j]) \cap (O \cup placed \cup P \cup Placed(f')) = {}
  <2>1. Pending(todo[j]) \subseteq L /\ Pending(todo[j]) \cap Placed(f) = {} BY <1>5
  <2>2. Pending(todo[j]) \cap O = {} BY <1>3, <1>5, <1>9
  <2>3. Pending(todo[j]) \cap (placed \cup P) = {} BY <1>4, <2>1, <2>2
  <2>. QED BY <1>4, <2>1, <2>2, <2>3
<1>10. P \cap Placed(f') = {}
  <2>1. O \cap Placed(f) = {} /\ Placed(f) \subseteq L BY <1>3, <1>5
  <2>. QED BY <1>4, <2>1
<1>. HIDE DEF New, Old, pos, m, n, t, L, M, O
<1>11. \A i \in DOMAIN t : Pending(t[i]) \cap Placed(f') = {}
  BY <1>6, <1>7, <1>8, <1>9, <1>10
<1>12. ASSUME NEW i \in DOMAIN t, NEW k \in DOMAIN t, i # k
       PROVE  Pending(t[i]) \cap Pending(t[k]) = {}
  <2>1. CASE New(i) /\ New(k)
    <3>1. Pending(t[i]) = {} \/ i = m BY <2>1, <1>7
    <3>2. Pending(t[k]) = {} \/ k = m BY <2>1, <1>7
    <3>. QED BY <3>1, <3>2, <1>12
  <2>2. CASE New(i) /\ Old(k) BY <2>2, <1>7, <1>8, <1>9
  <2>3. CASE Old(i) /\ New(k) BY <2>3, <1>7, <1>8, <1>9
  <2>4. CASE Old(i) /\ Old(k)
    <3>1. pos(i) # pos(k)
      <4>1. i \in Int /\ k \in Int /\ m \in Int BY <1>3, <2>4 DEF Old, m, n, t
      <4>. QED BY <4>1, <1>12 DEF pos
    <3>. QED BY <3>1, <2>4, <1>5, <1>8
  <2>. QED BY <1>6, <2>1, <2>2, <2>3, <2>4
<1>13. \A i \in DOMAIN t : Pending(t[i]) \subseteq M
  <2>1. O \subseteq L /\ P \subseteq M BY <1>3, <1>4, <1>5 DEF O, n
  <2>. QED BY <1>4, <1>5, <1>6, <1>7, <1>8, <2>1
<1>14. ASSUME NEW x \in M, x \notin Placed(f') PROVE \E i \in DOMAIN t : x \in Pending(t[i])
  <2>1. CASE x \in P
    <3>1. frames # <<>> /\ m \in DOMAIN frames
      BY <1>2, <1>3, <1>4, <2>1, EmptySeq DEF m
    <3>2. m \in DOMAIN t /\ t[m] = frames[m] BY <3>1, <1>3 DEF m, n, t
    <3>. QED BY <3>1, <3>2, <2>1, <1>4
  <2>2. CASE x \notin P
    <3>1. x \notin O /\ x \in L BY <2>2, <1>14, <1>4
    <3>2. PICK j \in 1 .. n : x \in Pending(todo[j]) BY <3>1, <1>4, <1>5, <1>14
    <3>3. j # 1 BY <3>1, <3>2 DEF O
    <3>4. j + m - 1 \in DOMAIN t /\ Old(j + m - 1) /\ pos(j + m - 1) = j
      <4>1. /\ j \in Int /\ 1 < j /\ j <= n /\ m \in Nat /\ n \in Nat
            /\ Len(t) = m + n - 1 /\ DOMAIN t = 1 .. Len(t)
        BY <1>3, <3>2, <3>3 DEF m, n, t
      <4>. QED BY <4>1 DEF Old, pos
    <3>. QED BY <3>2, <3>4, <1>8
  <2>. QED BY <2>1, <2>2
<1>15. M = Placed(f') \cup UNION {Pending(t[i]) : i \in DOMAIN t}
  <2>1. Placed(f') \subseteq M BY <1>3, <1>4, <1>5 DEF O, n
  <2>. QED BY <2>1, <1>13, <1>14
<1>. QED BY <1>4, <1>11, <1>12, <1>15 DEF LabelsAccounted, t, M

-----------------------------------------------------------------------------
(* The four forms of a step: pop; pop and push one frame; pop and push     *)
(* two; the same with n fresh labels.                                      *)
LEMMA Emits ==
    ASSUME TypeOK, LabelsAccounted, NEW frames, NEW placed, NEW P, Owing(frames, P),
           Extends(f, f', placed), placed \cup P = Pending(Top), placed \cap P = {}
    PROVE  Balanced(frames, placed, P)
<1>1. Labels(f') = Labels(f) /\ Placed(f') = Placed(f) \cup placed BY DEF Extends, Labels
<1>2. LabelsOnce(f') /\ Targets(f') \subseteq Labels(f')
  BY <1>1 DEF LabelsAccounted, Extends
<1>. QED BY <1>1, <1>2 DEF Balanced

(* The running frame leaves and places the labels it owed.                 *)
LEMMA Pops ==
    ASSUME TypeOK, LabelsAccounted, Around, Continue(<<>>), Extends(f, f', Pending(Top))
    PROVE  Advances
<1>1. Owing(<<>>, {}) BY DEF Owing
<1>2. Balanced(<<>>, Pending(Top), {}) BY <1>1, Emits
<1>3. <<>> \in Seq(GoodFrames) BY EmptySeq
<1>4. Typed(<<>>) BY <1>3 DEF Typed, Extends
<1>. QED BY <1>2, <1>4 DEF Advances

(* One frame takes the place of another, and nothing is emitted.           *)
LEMMA PushesOne ==
    ASSUME TypeOK, LabelsAccounted, Around, NEW a \in InnerFrames, Continue(<<a>>),
           Pending(a) = {}, Pending(Top) = {}, f' = f
    PROVE  Advances
<1>1. f \in IrFunc BY DEF TypeOK
<1>2. Extends(f, f', {}) BY <1>1, SameCode
<1>3. Owing(<<a>>, {}) BY DEF Owing
<1>4. Balanced(<<a>>, {}, {}) BY <1>2, <1>3, Emits
<1>5. a \in GoodFrames BY DEF InnerFrames
<1>6. <<a>> \in Seq(GoodFrames) BY <1>5
<1>7. Typed(<<a>>) BY <1>1, <1>6 DEF Typed
<1>. QED BY <1>4, <1>7 DEF Advances

(* Two frames of the descent, the second of which owes labels.             *)
LEMMA TwoFrames ==
    ASSUME NEW a \in InnerFrames, NEW b \in InnerFrames
    PROVE  /\ <<a, b>> \in Seq(GoodFrames)
           /\ \A j \in DOMAIN <<a, b>> : <<a, b>>[j] \in InnerFrames
           /\ Pending(a) = {} => Owing(<<a, b>>, Pending(b))
<1>1. a \in GoodFrames /\ b \in GoodFrames BY DEF InnerFrames
<1>2. <<a, b>> \in Seq(GoodFrames) BY <1>1
<1>3. DOMAIN <<a, b>> = {1, 2} /\ Len(<<a, b>>) = 2 /\ <<a, b>> # <<>> OBVIOUS
<1>. QED BY <1>2, <1>3 DEF Owing

(* Two frames take the place of one: labels are placed or handed on.       *)
LEMMA Pushes ==
    ASSUME TypeOK, LabelsAccounted, Around, NEW a \in InnerFrames, NEW b \in InnerFrames,
           Continue(<<a, b>>), Pending(a) = {}, NEW placed, Extends(f, f', placed),
           placed \cup Pending(b) = Pending(Top), placed \cap Pending(b) = {}
    PROVE  Advances
<1>1. Balanced(<<a, b>>, placed, Pending(b)) BY TwoFrames, Emits
<1>2. Typed(<<a, b>>) BY TwoFrames DEF Typed, Extends
<1>. QED BY <1>1, <1>2 DEF Advances

(* New labels are placed, or owed by the second frame.                     *)
LEMMA Allocates ==
    ASSUME TypeOK, LabelsAccounted, Around, NEW a \in InnerFrames, NEW b \in InnerFrames,
           Continue(<<a, b>>), Pending(a) = {}, Pending(Top) = {},
           NEW placed, NEW n \in Nat, Extends(ir_new_labels(f, n), f', placed),
           placed \cup Pending(b) = f.label_count .. f.label_count + n - 1,
           placed \cap Pending(b) = {}
    PROVE  Advances
<1>. DEFINE g == ir_new_labels(f, n)
<1>1. f \in IrFunc BY DEF TypeOK
<1>2. /\ g \in IrFunc /\ f.label_count \in Nat /\ g.label_count = f.label_count + n
      /\ Labels(f) \subseteq Labels(g) /\ Placed(g) = Placed(f) /\ Targets(g) = Targets(f)
      /\ LabelsOnce(f) => LabelsOnce(g)
  BY <1>1, NewLabels
<1>. HIDE DEF g
<1>3. Extends(g, f', placed) BY DEF g
<1>4. /\ Labels(f') = Labels(g) /\ Placed(f') = Placed(f) \cup placed
  BY <1>2, <1>3 DEF Extends, Labels
<1>5. LabelsOnce(f') /\ Targets(f') \subseteq Labels(f')
  BY <1>2, <1>3, <1>4 DEF LabelsAccounted, Extends
<1>6. Labels(g) \ Labels(f) = f.label_count .. f.label_count + n - 1
  BY <1>2 DEF Labels
<1>7. Balanced(<<a, b>>, placed, Pending(b))
  BY <1>2, <1>4, <1>5, <1>6, TwoFrames DEF Balanced
<1>8. Typed(<<a, b>>) BY TwoFrames DEF Typed, Extends
<1>. QED BY <1>7, <1>8 DEF Advances

-----------------------------------------------------------------------------
(* The running activation, and the frames that replace it.                 *)
LEMMA TopGood ==
    ASSUME TypeOK, todo # <<>>
    PROVE  /\ Top \in GoodFrames /\ Top.k \in FrameKinds /\ Top.n \in NodesOf[Top.k]
           /\ Top.l \in Nat /\ Top.i \in Nat /\ Top.ts \in Seq(Int)
           /\ Top.k = "apply" => Len(Top.ts) = 1
<1>1. todo \in Seq(GoodFrames) BY TypedStack DEF TypeInv
<1>2. Top \in GoodFrames BY <1>1, HeadTailProperties DEF Top
<1>. QED BY <1>2 DEF GoodFrames, FrameType

(* A frame that is to translate an expression.                             *)
LEMMA ExprFrame ==
    ASSUME NEW e \in Exprs
    PROVE  Frame("expr", e) \in InnerFrames /\ Pending(Frame("expr", e)) = {}
<1>1. "expr" \in FrameKinds BY DEF FrameKinds
<1>2. Frame("expr", e) \in GoodFrames BY <1>1, NodesAt, FrameGood DEF Frame
<1>3. Pending(Frame("expr", e)) = {} BY <1>1, FramePending
<1>. QED BY <1>2, <1>3 DEF InnerFrames, Frame, Labelled, RootKinds

(* A frame that is to translate a statement.                               *)
LEMMA StmtFrame ==
    ASSUME NEW s \in Exprs \cup Stmts \cup {NullNode}
    PROVE  Frame("stmt", s) \in InnerFrames /\ Pending(Frame("stmt", s)) = {}
<1>1. "stmt" \in FrameKinds BY DEF FrameKinds
<1>2. Frame("stmt", s) \in GoodFrames BY <1>1, NodesAt, FrameGood DEF Frame
<1>3. Pending(Frame("stmt", s)) = {} BY <1>1, FramePending
<1>. QED BY <1>2, <1>3 DEF InnerFrames, Frame, Labelled, RootKinds

(* A frame of another kind.                                                *)
LEMMA InnerFrame ==
    ASSUME NEW k \in FrameKinds, k \notin RootKinds \cup {"end", "apply"},
           NEW n \in NodesOf[k], NEW l \in Nat
    PROVE  Labelled(k, n, l) \in InnerFrames
<1>1. Labelled(k, n, l) \in GoodFrames BY FrameGood
<1>. QED BY <1>1 DEF InnerFrames, Labelled

-----------------------------------------------------------------------------
(* The map from variables to temporaries.                                  *)
LEMMA VtGet ==
    ASSUME TypeOK, NEW name \in Names
    PROVE  /\ vt_get(name) \in Int
           /\ Extends(f, vt_get_func(name), {})
           /\ GoodVars(vt_get_vars(name)) /\ name \in DOMAIN vt_get_vars(name)
<1>1. f \in IrFunc /\ GoodVars(g_vars) /\ g_scope_depth \in Nat BY DEF TypeOK, GoodVars
<1>2. f.temp_count \in Int /\ Extends(f, ir_new_temp(f), {}) /\ Extends(f, f, {})
  BY <1>1, NewTemp, SameCode
<1>3. [temp |-> f.temp_count, depth |-> g_scope_depth] \in VarTemp BY <1>1, <1>2 DEF VarTemp
<1>4. vt_get(name) \in Int BY <1>1, <1>2 DEF vt_get, GoodVars, VarTemp
<1>5. Extends(f, vt_get_func(name), {}) BY <1>2 DEF vt_get_func
<1>6. GoodVars(vt_get_vars(name)) /\ name \in DOMAIN vt_get_vars(name)
  BY <1>1, <1>3 DEF vt_get_vars, GoodVars
<1>. QED BY <1>4, <1>5, <1>6

(* A variable is given another temporary.                                  *)
LEMMA VarsSet ==
    ASSUME NEW v, GoodVars(v), NEW name, NEW t \in Int
    PROVE  GoodVars([v EXCEPT ![name].temp = t])
<1>1. v = [n \in DOMAIN v |-> v[n]] BY DEF GoodVars
<1>2. ASSUME NEW n \in DOMAIN v PROVE [v[n] EXCEPT !.temp = t] \in VarTemp
  BY <1>2 DEF GoodVars, VarTemp
<1>3. [v EXCEPT ![name].temp = t]
        = [n \in DOMAIN v |-> IF n = name THEN [v[n] EXCEPT !.temp = t] ELSE v[n]]
  BY <1>1
<1>4. GoodVars([n \in DOMAIN v |-> IF n = name THEN [v[n] EXCEPT !.temp = t] ELSE v[n]])
  BY <1>2 DEF GoodVars
<1>. QED BY <1>3, <1>4

-----------------------------------------------------------------------------
(* irb_emit_expr: one step of an expression advances.                      *)
LEMMA Unchanged ==
    ASSUME TypeOK
    PROVE  /\ GoodVars(g_vars) /\ g_scope_depth \in Nat /\ ret \in Int /\ f \in IrFunc
           /\ Extends(f, f, {})
<1>1. f \in IrFunc BY DEF TypeOK
<1>2. Extends(f, f, {}) BY <1>1, SameCode
<1>. QED BY <1>2 DEF TypeOK, GoodVars

(* What a guard says of the running frame.                                 *)
LEMMA OnStep ==
    ASSUME TypeOK, NEW k, On(k)
    PROVE  /\ todo # <<>> /\ Top.k = k /\ k \in FrameKinds /\ Top.n \in NodesOf[k]
           /\ Top.l \in Nat /\ Top.i \in Nat /\ Top.ts \in Seq(Int)
           /\ Top \in GoodFrames
           /\ k = "apply" => Len(Top.ts) = 1
BY TopGood DEF On

(* The labels owed, by the kind of the frame.                              *)
LEMMA Owed ==
    ASSUME NEW fr
    PROVE  /\ fr.k \in {"then", "else", "and", "or"} => Pending(fr) = {fr.l, fr.l + 1}
           /\ fr.k = "endif" => Pending(fr) = {fr.l + 1}
           /\ fr.k = "test" => Pending(fr) = {fr.l + 1, fr.l + 2}
           /\ fr.k \in {"step", "loop"} => Pending(fr) = {fr.l + 2}
           /\ fr.k \notin {"then", "else", "and", "or", "endif", "test", "step", "loop"}
                 => Pending(fr) = {}
BY DEF Pending

(* A literal.                                                              *)
LEMMA StepLiteral ==
    ASSUME TypeOK, LabelsAccounted, EmitLiteral PROVE Advances
<1>1. On("expr") /\ Top.n.kind \in Literals BY DEF EmitLiteral, OnExpr
<1>2. Top.n \in Exprs /\ Pending(Top) = {} /\ todo # <<>> BY <1>1, OnStep, Owed, NodesAt
<1>3. ir_lit(Top.n.kind, Top.n.value) \in Operand BY <1>1, <1>2, ExprNodes, Operands
<1>4. Extends(f, f', {}) /\ ret' \in Int
  BY <1>3, Unchanged, EmitMov DEF EmitLiteral, Yield
<1>5. Around BY <1>2, <1>4, Unchanged DEF EmitLiteral, Around, unit, scope
<1>. QED BY <1>2, <1>4, <1>5, Pops DEF EmitLiteral

(* A name that is read.                                                    *)
LEMMA StepIdent ==
    ASSUME TypeOK, LabelsAccounted, EmitIdent PROVE Advances
<1>1. On("expr") /\ Top.n.kind = "ident" BY DEF EmitIdent, OnExpr
<1>2. Top.n \in Exprs /\ Pending(Top) = {} /\ todo # <<>> BY <1>1, OnStep, Owed, NodesAt
<1>3. Top.n.name \in Names BY <1>1, <1>2, ExprNodes
<1>4. Extends(f, f', {}) /\ ret' \in Int /\ GoodVars(g_vars')
  BY <1>3, VtGet DEF EmitIdent
<1>5. Around BY <1>2, <1>4, Unchanged DEF EmitIdent, Around, unit
<1>. QED BY <1>2, <1>4, <1>5, Pops DEF EmitIdent

(* The (left) operand comes first.                                         *)
LEMMA StepOperand ==
    ASSUME TypeOK, LabelsAccounted, EmitOperand PROVE Advances
<1>. DEFINE k == Top.n.kind
            a == FirstOperand(Top.n)
            b == Frame(k, Top.n)
<1>1. On("expr") /\ k \in {"unary", "binary", "assign"} BY DEF EmitOperand, OnExpr
<1>2. Top.n \in Exprs /\ Pending(Top) = {} /\ todo # <<>> BY <1>1, OnStep, Owed, NodesAt
<1>3. \E e \in Exprs : a = Frame("expr", e) BY <1>1, <1>2, ExprNodes DEF FirstOperand
<1>4. a \in InnerFrames /\ Pending(a) = {} BY <1>3, ExprFrame
<1>5. Top.n \in NodesOf[k] BY <1>1, <1>2, NodesAt
<1>6. b \in InnerFrames /\ Pending(b) = {}
  BY <1>1, <1>5, InnerFrame, FramePending DEF Frame, FrameKinds, RootKinds
<1>7. Around BY <1>2, Unchanged DEF EmitOperand, Around, unit, scope
<1>8. Extends(f, f', {}) BY Unchanged DEF EmitOperand
<1>. QED BY <1>2, <1>4, <1>6, <1>7, <1>8, Pushes DEF EmitOperand

(* The unary operator.                                                     *)
LEMMA StepUnary ==
    ASSUME TypeOK, LabelsAccounted, emit_unary PROVE Advances
<1>1. On("unary") BY DEF emit_unary
<1>2. Pending(Top) = {} /\ todo # <<>> BY <1>1, OnStep, Owed
<1>. DEFINE zero == ir_emit_mov(f, ir_lit("int", 0))
            z == ir_temp(LastTemp(zero))
            v == ir_temp(ret)
            neg == ir_emit_bin_like(zero, "sub", z, v)
            not == ir_emit_bin_like(zero, "eq", v, z)
<1>3. ir_lit("int", 0) \in Operand BY Operands DEF Literals
<1>4. Extends(f, zero, {}) /\ LastTemp(zero) \in Int BY <1>3, Unchanged, EmitMov
<1>5. zero \in IrFunc /\ z \in Operand /\ v \in Operand
  BY <1>4, Unchanged, Operands DEF Extends
<1>. HIDE DEF zero, z, v
<1>6. Extends(zero, neg, {}) /\ LastTemp(neg) \in Int /\ Extends(zero, not, {}) /\ LastTemp(not) \in Int
  BY <1>5, EmitBinLike DEF ArithOps, RelOps
<1>. HIDE DEF neg, not
<1>7. \/ f' = neg /\ ret' = LastTemp(neg)
      \/ f' = not /\ ret' = LastTemp(not)
  BY DEF emit_unary, Yield, neg, not, zero, z, v
<1>8. Extends(zero, f', {}) /\ ret' \in Int BY <1>6, <1>7
<1>9. Extends(f, f', {} \cup {}) BY <1>4, <1>8, ExtendsTwice
<1>10. Around BY <1>2, <1>8, Unchanged DEF emit_unary, Around, unit, scope
<1>. QED BY <1>2, <1>9, <1>10, Pops DEF emit_unary

(* The variable gets the value.                                            *)
LEMMA StepAssign ==
    ASSUME TypeOK, LabelsAccounted, EmitAssign PROVE Advances
<1>. DEFINE name == Top.n.name
            g == vt_get_func(name)
<1>1. On("assign") BY DEF EmitAssign
<1>2. Top.n \in Exprs /\ Top.n.kind = "assign" /\ Pending(Top) = {} /\ todo # <<>>
  BY <1>1, OnStep, Owed, NodesAt
<1>3. name \in Names BY <1>2, ExprNodes
<1>4. Extends(f, g, {}) /\ GoodVars(vt_get_vars(name)) BY <1>3, VtGet
<1>5. g \in IrFunc BY <1>4 DEF Extends
<1>6. f' = ir_register_local(g, name, ret) BY DEF EmitAssign
<1>. HIDE DEF g
<1>7. Extends(g, f', {}) BY <1>3, <1>5, <1>6, Unchanged, RegisterLocal
<1>8. Extends(f, f', {} \cup {}) BY <1>4, <1>7, ExtendsTwice
<1>9. GoodVars(g_vars') BY <1>4, Unchanged, VarsSet DEF EmitAssign
<1>10. Around BY <1>2, <1>9, Unchanged DEF EmitAssign, Around, unit
<1>. QED BY <1>2, <1>8, <1>10, Pops DEF EmitAssign

(* The right operand is next.                                              *)
LEMMA StepRight ==
    ASSUME TypeOK, LabelsAccounted, EmitRight PROVE Advances
<1>. DEFINE a == Frame("expr", Top.n.right)
            b == [Frame("apply", Top.n) EXCEPT !.ts = <<ret>>]
<1>1. On("binary") BY DEF EmitRight
<1>2. Top.n \in Exprs /\ Top.n.kind = "binary" /\ Pending(Top) = {} /\ todo # <<>>
  BY <1>1, OnStep, Owed, NodesAt
<1>3. a \in InnerFrames /\ Pending(a) = {} BY <1>2, ExprNodes, ExprFrame
<1>4. b = [k |-> "apply", n |-> Top.n, l |-> 0, i |-> 1, ts |-> <<ret>>] BY DEF Frame, Labelled
<1>. HIDE DEF b
<1>5. b.k = "apply" /\ b.n = Top.n /\ b.ts = <<ret>> BY <1>4
<1>6. "apply" \in FrameKinds /\ Top.n \in NodesOf["apply"] /\ Top.n \in Nodes
  BY <1>2, NodesAt DEF FrameKinds, Nodes
<1>7. <<ret>> \in Seq(Int) /\ Len(<<ret>>) = 1 BY Unchanged
<1>8. b \in FrameType BY <1>4, <1>6, <1>7 DEF FrameType
<1>9. b \in InnerFrames /\ Pending(b) = {}
  BY <1>5, <1>6, <1>7, <1>8, Owed DEF InnerFrames, GoodFrames, RootKinds
<1>10. Around BY <1>2, Unchanged DEF EmitRight, Around, unit, scope
<1>11. Extends(f, f', {}) BY Unchanged DEF EmitRight
<1>12. Continue(<<a, b>>) BY DEF EmitRight, b
<1>. QED BY <1>2, <1>3, <1>9, <1>10, <1>11, <1>12, Pushes

(* The two operands "apply" finds in ts and in ret.                        *)
LEMMA ApplyOperands ==
    ASSUME TypeOK, On("apply")
    PROVE  /\ Top.n \in Exprs /\ Top.n.kind = "binary" /\ Top.n.right \in Exprs
           /\ Pending(Top) = {} /\ todo # <<>>
           /\ ir_temp(Top.ts[1]) \in Operand /\ ir_temp(ret) \in Operand
<1>1. /\ Top.n \in Exprs /\ Top.n.kind = "binary" /\ Pending(Top) = {} /\ todo # <<>>
      /\ Top.ts \in Seq(Int) /\ Len(Top.ts) = 1
  BY OnStep, Owed, NodesAt
<1>2. Top.ts[1] \in Int BY <1>1
<1>. QED BY <1>1, <1>2, ExprNodes, Unchanged, Operands

(* An arithmetic operator or a comparison.                                 *)
LEMMA StepBinCmp ==
    ASSUME TypeOK, LabelsAccounted, EmitBinCmp PROVE Advances
<1>1. On("apply") /\ Top.n.op \in ArithOps \cup RelOps BY DEF EmitBinCmp
<1>2. Extends(f, f', {}) /\ ret' \in Int
  BY <1>1, ApplyOperands, Unchanged, EmitBinLike DEF EmitBinCmp, Yield
<1>3. Around BY <1>1, <1>2, ApplyOperands, Unchanged DEF EmitBinCmp, Around, unit, scope
<1>. QED BY <1>1, <1>2, <1>3, ApplyOperands, Pops DEF EmitBinCmp

(* "and" skips its right operand.                                          *)
LEMMA StepBranchAnd ==
    ASSUME TypeOK, LabelsAccounted, BranchAnd PROVE Advances
<1>. DEFINE l == f.label_count
            a == Frame("expr", Top.n.right)
            b == Labelled("and", Top.n, l)
            g == ir_new_labels(f, 2)
            c == ir_temp(Top.ts[1])
<1>1. On("apply") BY DEF BranchAnd
<1>2. /\ Top.n \in Exprs /\ Top.n.kind = "binary" /\ a \in InnerFrames /\ Pending(a) = {}
      /\ Pending(Top) = {} /\ todo # <<>> /\ c \in Operand
  BY <1>1, ApplyOperands, ExprFrame
<1>3. g \in IrFunc /\ l \in Nat /\ g.label_count = l + 2 BY Unchanged, NewLabels
<1>. HIDE DEF g, c, l
<1>4. l \in Labels(g) BY <1>3 DEF Labels
<1>5. f' = ir_emit_brfalse(g, c, l) BY DEF BranchAnd, g, c, l
<1>6. Extends(g, f', {}) BY <1>2, <1>3, <1>4, <1>5, EmitBranch
<1>7. b \in InnerFrames BY <1>2, <1>3, NodesAt, InnerFrame DEF FrameKinds, RootKinds
<1>8. b.k = "and" /\ b.l = l BY DEF Labelled
<1>. HIDE DEF a, b
<1>9. Pending(b) = {l, l + 1} BY <1>8, Owed
<1>10. {} \cup Pending(b) = l .. l + 2 - 1 BY <1>3, <1>9
<1>11. Around BY <1>2, Unchanged DEF BranchAnd, Around, unit, scope
<1>12. Continue(<<a, b>>) BY DEF BranchAnd, a, b, l
<1>. QED BY <1>2, <1>6, <1>7, <1>10, <1>11, <1>12, Allocates DEF g, l

(* "or" skips its right operand.                                           *)
LEMMA StepBranchOr ==
    ASSUME TypeOK, LabelsAccounted, BranchOr PROVE Advances
<1>. DEFINE l == f.label_count
            a == Frame("expr", Top.n.right)
            b == Labelled("or", Top.n, l)
            g == ir_new_labels(f, 3)
            c == ir_temp(Top.ts[1])
            skip == ir_emit_brfalse(g, c, l + 2)
            br == ir_emit_br(skip, l)
<1>1. On("apply") BY DEF BranchOr
<1>2. /\ Top.n \in Exprs /\ Top.n.kind = "binary" /\ a \in InnerFrames /\ Pending(a) = {}
      /\ Pending(Top) = {} /\ todo # <<>> /\ c \in Operand
  BY <1>1, ApplyOperands, ExprFrame
<1>3. g \in IrFunc /\ l \in Nat /\ g.label_count = l + 3 /\ Placed(g) = Placed(f)
  BY Unchanged, NewLabels
<1>. HIDE DEF g, c, l
<1>4. l \in Labels(g) /\ l + 2 \in Labels(g) BY <1>3 DEF Labels
<1>5. Extends(g, skip, {}) BY <1>2, <1>3, <1>4, EmitBranch
<1>6. skip \in IrFunc /\ Labels(skip) = Labels(g) BY <1>5 DEF Extends, Labels
<1>. HIDE DEF skip
<1>7. Extends(skip, br, {}) BY <1>4, <1>6, Blanks, EmitBranch
<1>8. Extends(g, br, {} \cup {}) BY <1>5, <1>7, ExtendsTwice
<1>. HIDE DEF br
<1>9. br \in IrFunc /\ Placed(br) = Placed(f) BY <1>3, <1>8 DEF Extends
<1>10. l + 2 \notin Placed(f)
  <2>1. Placed(f) \subseteq Labels(f) BY DEF LabelsAccounted
  <2>. QED BY <1>3, <2>1 DEF Labels, l
<1>11. f' = ir_emit_label(br, l + 2) BY DEF BranchOr, g, c, l, skip, br
<1>12. Extends(br, f', {l + 2}) BY <1>3, <1>9, <1>10, <1>11, PushLabel
<1>13. Extends(g, f', ({} \cup {}) \cup {l + 2}) BY <1>8, <1>12, ExtendsTwice
<1>14. b \in InnerFrames BY <1>2, <1>3, NodesAt, InnerFrame DEF FrameKinds, RootKinds
<1>15. b.k = "or" /\ b.l = l BY DEF Labelled
<1>. HIDE DEF a, b
<1>16. Pending(b) = {l, l + 1} BY <1>15, Owed
<1>17. {l + 2} \cup Pending(b) = l .. l + 3 - 1 /\ {l + 2} \cap Pending(b) = {}
  BY <1>3, <1>16
<1>18. Around BY <1>2, Unchanged DEF BranchOr, Around, unit, scope
<1>19. Continue(<<a, b>>) BY DEF BranchOr, a, b, l
<1>20. Extends(g, f', {l + 2}) BY <1>13
<1>. QED BY <1>2, <1>14, <1>17, <1>18, <1>19, <1>20, Allocates DEF g, l

(* AND and OR emit the two labels they own, l + 1 after l.                 *)
LEMMA StepShortCircuit ==
    ASSUME TypeOK, LabelsAccounted, NEW k \in {"and", "or"}, NEW constant \in Int,
           EmitShortCircuit(k, constant)
    PROVE  Advances
<1>. DEFINE l == Top.l
            tres == ir_emit_mov(f, ir_temp(ret))
            br == ir_emit_br(tres, l + 1)
            other == ir_emit_label(br, l)
            mov == ir_emit_mov(other, ir_lit("int", constant))
<1>1. On(k) BY DEF EmitShortCircuit
<1>2. Pending(Top) = {l, l + 1} /\ l \in Nat /\ todo # <<>> BY <1>1, OnStep, Owed
<1>. HIDE DEF l
<1>3. l \notin Placed(f) /\ l + 1 \notin Placed(f) /\ l + 1 \in Labels(f)
  <2>1. todo \in Seq(GoodFrames) BY TypedStack DEF TypeInv
  <2>2. 1 \in DOMAIN todo /\ Top = todo[1] BY <1>2, <2>1, EmptySeq DEF Top
  <2>. QED BY <1>2, <2>2 DEF LabelsAccounted
<1>4. Extends(f, tres, {}) /\ LastTemp(tres) \in Int BY Unchanged, Operands, EmitMov
<1>5. tres \in IrFunc /\ l + 1 \in Labels(tres) BY <1>3, <1>4 DEF Extends, Labels
<1>. HIDE DEF tres
<1>6. Extends(tres, br, {}) BY <1>5, Blanks, EmitBranch
<1>7. Extends(f, br, {} \cup {}) BY <1>4, <1>6, ExtendsTwice
<1>. HIDE DEF br
<1>8. br \in IrFunc /\ l \notin Placed(br) BY <1>3, <1>7 DEF Extends
<1>9. Extends(br, other, {l}) BY <1>2, <1>8, PushLabel
<1>10. Extends(f, other, ({} \cup {}) \cup {l}) BY <1>7, <1>9, ExtendsTwice
<1>. HIDE DEF other
<1>11. other \in IrFunc /\ ir_lit("int", constant) \in Operand
  BY <1>10, Operands DEF Extends, Literals
<1>12. Extends(other, mov, {}) BY <1>11, EmitMov
<1>13. Extends(f, mov, (({} \cup {}) \cup {l}) \cup {}) BY <1>10, <1>12, ExtendsTwice
<1>. HIDE DEF mov
<1>14. mov \in IrFunc /\ l + 1 \notin Placed(mov) BY <1>2, <1>3, <1>13 DEF Extends
<1>15. f' = ir_emit_label(mov, l + 1) /\ ret' = LastTemp(tres)
  BY DEF EmitShortCircuit, tres, br, other, mov, l
<1>16. l + 1 \in Nat BY <1>2
<1>17. Extends(mov, f', {l + 1}) BY <1>14, <1>15, <1>16, PushLabel
<1>18. Extends(f, f', ((({} \cup {}) \cup {l}) \cup {}) \cup {l + 1})
  BY <1>13, <1>17, ExtendsTwice
<1>19. ((({} \cup {}) \cup {l}) \cup {}) \cup {l + 1} = Pending(Top) BY <1>2
<1>20. Around BY <1>2, <1>4, <1>15, Unchanged DEF EmitShortCircuit, Around, unit, scope
<1>21. Continue(<<>>) BY DEF EmitShortCircuit
<1>. QED BY <1>18, <1>19, <1>20, <1>21, Pops

(* A call without arguments.                                               *)
LEMMA StepCallNoArgs ==
    ASSUME TypeOK, LabelsAccounted, CallNoArgs PROVE Advances
<1>1. On("expr") /\ Top.n.kind = "call" BY DEF CallNoArgs, OnExpr
<1>2. Top.n \in Exprs /\ Pending(Top) = {} /\ todo # <<>> BY <1>1, OnStep, Owed, NodesAt
<1>3. Top.n.name \in Names /\ <<>> \in Seq(Int) BY <1>1, <1>2, ExprNodes, EmptySeq
<1>4. Extends(f, f', {}) /\ ret' \in Int
  BY <1>3, Unchanged, EmitCallInstr DEF CallNoArgs, Yield
<1>5. Around BY <1>2, <1>4, Unchanged DEF CallNoArgs, Around, unit, scope
<1>. QED BY <1>2, <1>4, <1>5, Pops DEF CallNoArgs

(* A frame that collects the arguments of a call.                          *)
LEMMA ArgFrameGood ==
    ASSUME NEW n \in Exprs, n.kind = "call", NEW i \in Nat \ {0}, NEW argv \in Seq(Int)
    PROVE  ArgFrame(n, i, argv) \in InnerFrames /\ Pending(ArgFrame(n, i, argv)) = {}
<1>. DEFINE b == ArgFrame(n, i, argv)
<1>1. "arg" \in FrameKinds /\ n \in NodesOf["arg"] /\ n \in Nodes
  BY NodesAt DEF FrameKinds, Nodes
<1>2. b.k = "arg" /\ b.n = n BY DEF ArgFrame
<1>3. b \in FrameType BY <1>1 DEF ArgFrame, FrameType
<1>. HIDE DEF b
<1>4. b \in InnerFrames /\ Pending(b) = {}
  BY <1>1, <1>2, <1>3, Owed DEF InnerFrames, GoodFrames, RootKinds
<1>. QED BY <1>4 DEF b

(* The first argument.                                                     *)
LEMMA StepFirstArg ==
    ASSUME TypeOK, LabelsAccounted, FirstArg PROVE Advances
<1>. DEFINE a == Frame("expr", Top.n.args[1])
            b == ArgFrame(Top.n, 1, <<>>)
<1>1. On("expr") /\ Top.n.kind = "call" /\ Top.n.args # <<>> BY DEF FirstArg, OnExpr
<1>2. Top.n \in Exprs /\ Pending(Top) = {} /\ todo # <<>> BY <1>1, OnStep, Owed, NodesAt
<1>3. Top.n.args \in Seq(Exprs) BY <1>1, <1>2, ExprNodes
<1>4. Top.n.args[1] \in Exprs BY <1>1, <1>3, EmptySeq, ElementOfSeq
<1>5. a \in InnerFrames /\ Pending(a) = {} BY <1>4, ExprFrame
<1>6. <<>> \in Seq(Int) /\ 1 \in Nat \ {0} BY EmptySeq
<1>7. b \in InnerFrames /\ Pending(b) = {} BY <1>1, <1>2, <1>6, ArgFrameGood
<1>8. Around BY <1>2, Unchanged DEF FirstArg, Around, unit, scope
<1>9. Extends(f, f', {}) BY Unchanged DEF FirstArg
<1>. QED BY <1>2, <1>5, <1>7, <1>8, <1>9, Pushes DEF FirstArg

(* A call whose arguments are being evaluated.                             *)
LEMMA ArgFacts ==
    ASSUME TypeOK, On("arg")
    PROVE  /\ Top.n \in Exprs /\ Top.n.kind = "call" /\ Pending(Top) = {} /\ todo # <<>>
           /\ Top.n.args \in Seq(Exprs) /\ Top.n.name \in Names
           /\ Append(Top.ts, ret) \in Seq(Int)
<1>1. /\ Top.n \in Exprs /\ Top.n.kind = "call" /\ Pending(Top) = {} /\ todo # <<>>
      /\ Top.ts \in Seq(Int)
  BY OnStep, Owed, NodesAt
<1>2. Append(Top.ts, ret) \in Seq(Int) BY <1>1, Unchanged
<1>. QED BY <1>1, <1>2, ExprNodes

(* The next argument.                                                      *)
LEMMA StepNextArg ==
    ASSUME TypeOK, LabelsAccounted, NextArg PROVE Advances
<1>. DEFINE a == Frame("expr", Top.n.args[Top.i + 1])
            j == Top.i + 1
            ts == Append(Top.ts, ret)
            b == ArgFrame(Top.n, j, ts)
<1>1. On("arg") /\ Top.i < Len(Top.n.args) BY DEF NextArg
<1>2. /\ Pending(Top) = {} /\ todo # <<>> /\ Top \in GoodFrames /\ Top.k = "arg"
      /\ Top.n.args \in Seq(Exprs) /\ ts \in Seq(Int)
  BY <1>1, ArgFacts, OnStep
<1>3. Top \in FrameType /\ Top.n \in NodesOf["arg"] BY <1>2 DEF GoodFrames
<1>4. Top.i \in Nat \ {0} /\ Len(Top.n.args) \in Nat BY <1>2, <1>3, LenProperties DEF FrameType
<1>5. j \in Nat \ {0} /\ j \in 1 .. Len(Top.n.args) BY <1>1, <1>4
<1>6. Top.n.args[j] \in Exprs BY <1>2, <1>5, ElementOfSeq
<1>7. a \in InnerFrames /\ Pending(a) = {} BY <1>6, ExprFrame
<1>8. b \in InnerFrames /\ Pending(b) = {} BY <1>1, <1>2, <1>5, ArgFacts, ArgFrameGood
<1>9. Around BY <1>2, Unchanged DEF NextArg, Around, unit, scope
<1>10. Extends(f, f', {}) BY Unchanged DEF NextArg
<1>. QED BY <1>2, <1>7, <1>8, <1>9, <1>10, Pushes DEF NextArg

(* The call, after its arguments.                                          *)
LEMMA StepCall ==
    ASSUME TypeOK, LabelsAccounted, EmitCall PROVE Advances
<1>1. On("arg") BY DEF EmitCall
<1>2. Extends(f, f', {}) /\ ret' \in Int
  BY <1>1, ArgFacts, Unchanged, EmitCallInstr DEF EmitCall, Yield
<1>3. Around BY <1>1, <1>2, ArgFacts, Unchanged DEF EmitCall, Around, unit, scope
<1>. QED BY <1>1, <1>2, <1>3, ArgFacts, Pops DEF EmitCall

(* Every step of an expression.                                            *)
LEMMA ExprAdvances ==
    ASSUME TypeOK, LabelsAccounted, irb_emit_expr PROVE Advances
BY StepLiteral, StepIdent, StepOperand, StepUnary, StepAssign, StepRight, StepBinCmp,
   StepBranchAnd, StepBranchOr, StepShortCircuit, StepCallNoArgs, StepFirstArg,
   StepNextArg, StepCall
   DEF irb_emit_expr, EmitAnd, EmitOr

-----------------------------------------------------------------------------
(* irb_emit_stmt: one step of a statement advances.                        *)

(* A statement of kind k is being emitted: it is one of Stmts.             *)
LEMMA StmtStep ==
    ASSUME TypeOK, NEW kind, OnStmt(kind),
           kind \in {"expr", "decl", "block", "if", "while", "for", "return", "function"}
    PROVE  /\ Top.n \in Stmts /\ Top.n.kind = kind /\ Pending(Top) = {} /\ todo # <<>>
<1>1. On("stmt") /\ Top.n.kind = kind BY DEF OnStmt
<1>2. Top.n \in Exprs \cup Stmts \cup {NullNode} /\ Pending(Top) = {} /\ todo # <<>>
  BY <1>1, OnStep, Owed, NodesAt
<1>3. Top.n \notin Exprs BY <1>1, ExprNodes DEF Literals
<1>4. Top.n # NullNode BY <1>1 DEF NullNode
<1>. QED BY <1>1, <1>2, <1>3, <1>4

(* A statement without code.                                               *)
LEMMA StepSkip ==
    ASSUME TypeOK, LabelsAccounted, SkipStmt PROVE Advances
<1>1. On("stmt") BY DEF SkipStmt
<1>2. Pending(Top) = {} /\ todo # <<>> BY <1>1, OnStep, Owed
<1>3. Around BY <1>2, Unchanged DEF SkipStmt, Around, unit, scope
<1>4. Extends(f, f', {}) BY Unchanged DEF SkipStmt
<1>. QED BY <1>2, <1>3, <1>4, Pops DEF SkipStmt

(* An expression used as a statement.                                      *)
LEMMA StepExprStmt ==
    ASSUME TypeOK, LabelsAccounted, EmitExprStmt PROVE Advances
<1>. DEFINE e == IF Top.n.kind = "expr" THEN Top.n.expr ELSE Top.n
<1>1. On("stmt") /\ Top.n.kind \in {"expr", "assign"} BY DEF EmitExprStmt
<1>2. Top.n \in Exprs \cup Stmts \cup {NullNode} /\ Pending(Top) = {} /\ todo # <<>>
  BY <1>1, OnStep, Owed, NodesAt
<1>3. e \in Exprs
  <2>1. CASE Top.n \in Exprs BY <2>1, <1>1, ExprNodes DEF Literals
  <2>2. CASE Top.n \in Stmts BY <2>2, <1>1, StmtNodes
  <2>3. CASE Top.n = NullNode BY <2>3, <1>1 DEF NullNode
  <2>. QED BY <1>2, <2>1, <2>2, <2>3
<1>4. Frame("expr", e) \in InnerFrames /\ Pending(Frame("expr", e)) = {} BY <1>3, ExprFrame
<1>5. Around BY <1>2, Unchanged DEF EmitExprStmt, Around, unit, scope
<1>. QED BY <1>2, <1>4, <1>5, PushesOne DEF EmitExprStmt

(* A block opens a scope.                                                  *)
LEMMA StepBlock ==
    ASSUME TypeOK, LabelsAccounted, emit_block PROVE Advances
<1>1. OnStmt("block") BY DEF emit_block
<1>2. Top.n \in Stmts /\ Top.n.kind = "block" /\ Pending(Top) = {} /\ todo # <<>>
  BY <1>1, StmtStep
<1>3. Frame("block", Top.n) \in InnerFrames /\ Pending(Frame("block", Top.n)) = {}
  BY <1>2, NodesAt, InnerFrame, FramePending DEF Frame, FrameKinds, RootKinds
<1>4. Around BY <1>2, Unchanged DEF emit_block, irb_enter_scope, Around, unit
<1>. QED BY <1>2, <1>3, <1>4, PushesOne DEF emit_block

(* An activation that goes on with its next child owes what it owed.       *)
LEMMA NextChild ==
    ASSUME TypeOK, todo # <<>>, Top.k \notin {"end", "apply"}, NEW b, b = [Top EXCEPT !.i = @ + 1]
    PROVE  b \in GoodFrames /\ b.k = Top.k /\ b.n = Top.n /\ b.l = Top.l /\ b.ts = Top.ts
<1>. DEFINE j == Top.i + 1
<1>1. Top \in FrameType /\ Top.n \in NodesOf[Top.k] BY TopGood DEF GoodFrames
<1>2. j \in Nat \ {0} BY <1>1 DEF FrameType
<1>3. b = [Top EXCEPT !.i = j] OBVIOUS
<1>. HIDE DEF j
<1>4. b \in FrameType /\ b.k = Top.k /\ b.n = Top.n /\ b.l = Top.l /\ b.ts = Top.ts
  BY <1>1, <1>2, <1>3 DEF FrameType
<1>. QED BY <1>1, <1>4 DEF GoodFrames

(* A block goes on with its next statement.                                *)
LEMMA StepNextStmt ==
    ASSUME TypeOK, LabelsAccounted, NextStmt PROVE Advances
<1>. DEFINE a == Frame("stmt", Top.n.stmts[Top.i])
            b == [Top EXCEPT !.i = @ + 1]
<1>1. On("block") /\ Top.i <= Len(Top.n.stmts) BY DEF NextStmt
<1>2. /\ Top.n \in Stmts /\ Top.n.kind = "block" /\ Pending(Top) = {} /\ todo # <<>>
      /\ Top.k = "block" /\ Top \in GoodFrames
  BY <1>1, OnStep, Owed, NodesAt
<1>3. Top.n.stmts \in Seq(Stmts) BY <1>2, StmtNodes
<1>4. Top.i \in Nat \ {0} BY <1>2 DEF GoodFrames, FrameType
<1>5. Top.i \in 1 .. Len(Top.n.stmts) BY <1>1, <1>3, <1>4, LenProperties
<1>6. Top.n.stmts[Top.i] \in Stmts BY <1>3, <1>5, ElementOfSeq
<1>7. a \in InnerFrames /\ Pending(a) = {} BY <1>6, StmtFrame
<1>8. b \in GoodFrames /\ b.k = "block" BY <1>2, NextChild
<1>. HIDE DEF a, b
<1>9. b \in InnerFrames /\ Pending(b) = {} BY <1>8, Owed DEF InnerFrames, RootKinds
<1>10. Around BY <1>2, Unchanged DEF NextStmt, Around, unit, scope
<1>11. Extends(f, f', {}) BY Unchanged DEF NextStmt
<1>12. Continue(<<a, b>>) BY DEF NextStmt, a, b
<1>. QED BY <1>2, <1>7, <1>9, <1>10, <1>11, <1>12, Pushes

(* The scope is closed.                                                    *)
LEMMA StepLeaveBlock ==
    ASSUME TypeOK, LabelsAccounted, LeaveBlock PROVE Advances
<1>1. On("block") BY DEF LeaveBlock
<1>2. Pending(Top) = {} /\ todo # <<>> BY <1>1, OnStep, Owed
<1>3. GoodVars(g_vars')
  <2>1. GoodVars(g_vars) BY Unchanged
  <2>. QED BY <2>1 DEF LeaveBlock, irb_leave_scope, GoodVars
<1>4. g_scope_depth' \in Nat BY Unchanged DEF LeaveBlock, irb_leave_scope
<1>5. Around BY <1>2, <1>3, <1>4, Unchanged DEF LeaveBlock, Around, unit
<1>6. Extends(f, f', {}) BY Unchanged DEF LeaveBlock
<1>. QED BY <1>2, <1>5, <1>6, Pops DEF LeaveBlock

(* A declaration without value.                                            *)
LEMMA StepDecl ==
    ASSUME TypeOK, LabelsAccounted, EmitDecl PROVE Advances
<1>. DEFINE name == Top.n.name
            g == vt_get_func(name)
            t == vt_get(name)
            a == Frame("expr", Top.n.init)
            b == Frame("init", Top.n)
<1>1. OnStmt("decl") BY DEF EmitDecl
<1>2. Top.n \in Stmts /\ Top.n.kind = "decl" /\ Pending(Top) = {} /\ todo # <<>>
  BY <1>1, StmtStep
<1>3. name \in Names /\ Top.n.init \in Exprs \cup {NullNode} BY <1>2, StmtNodes
<1>4. t \in Int /\ Extends(f, g, {}) /\ GoodVars(g_vars') BY <1>3, VtGet DEF EmitDecl
<1>5. f' = ir_register_local(g, name, t) BY DEF EmitDecl
<1>6. g \in IrFunc BY <1>4 DEF Extends
<1>. HIDE DEF g, t
<1>7. Extends(g, f', {}) BY <1>3, <1>4, <1>5, <1>6, RegisterLocal
<1>8. Extends(f, f', {} \cup {}) BY <1>4, <1>7, ExtendsTwice
<1>9. Around BY <1>2, <1>4, Unchanged DEF EmitDecl, Around, unit
<1>10. CASE Top.n.init = NullNode
  <2>1. Continue(<<>>) BY <1>10 DEF EmitDecl
  <2>. QED BY <1>2, <1>8, <1>9, <2>1, Pops
<1>11. CASE Top.n.init # NullNode
  <2>1. a \in InnerFrames /\ Pending(a) = {} BY <1>3, <1>11, ExprFrame
  <2>2. b \in InnerFrames /\ Pending(b) = {}
    BY <1>2, NodesAt, InnerFrame, FramePending DEF Frame, FrameKinds, RootKinds
  <2>3. Continue(<<a, b>>) BY <1>11 DEF EmitDecl
  <2>. QED BY <1>2, <1>8, <1>9, <2>1, <2>2, <2>3, Pushes
<1>. QED BY <1>10, <1>11

(* The initial value of a variable.                                        *)
LEMMA StepInit ==
    ASSUME TypeOK, LabelsAccounted, EmitInit PROVE Advances
<1>1. On("init") BY DEF EmitInit
<1>2. Top.n \in Stmts /\ Top.n.kind = "decl" /\ Pending(Top) = {} /\ todo # <<>>
  BY <1>1, OnStep, Owed, NodesAt
<1>3. Top.n.name \in Names BY <1>2, StmtNodes
<1>4. Extends(f, f', {}) BY <1>3, Unchanged, RegisterLocal DEF EmitInit
<1>5. GoodVars(g_vars') BY Unchanged, VarsSet DEF EmitInit
<1>6. Around BY <1>2, <1>5, Unchanged DEF EmitInit, Around, unit
<1>. QED BY <1>2, <1>4, <1>6, Pops DEF EmitInit

(* The labels the running activation owes exist and are not placed yet.    *)
LEMMA TopOwes ==
    ASSUME TypeOK, LabelsAccounted, todo # <<>>
    PROVE  Pending(Top) \subseteq Labels(f) /\ Pending(Top) \cap Placed(f) = {}
           /\ Placed(f) \subseteq Labels(f)
<1>1. todo \in Seq(GoodFrames) BY TypedStack DEF TypeInv
<1>2. 1 \in DOMAIN todo /\ Top = todo[1] BY <1>1, EmptySeq DEF Top
<1>. QED BY <1>2 DEF LabelsAccounted

(* A branch to an existing label, then a label of its own.                 *)
LEMMA BranchThenLabel ==
    ASSUME NEW g \in IrFunc, NEW to \in Labels(g), NEW l \in Nat, l \notin Placed(g), NEW c \in Operand
    PROVE  /\ Extends(g, ir_emit_label(ir_emit_br(g, to), l), {l})
           /\ Extends(g, ir_emit_label(ir_emit_brfalse(g, c, to), l), {l})
<1>. DEFINE br == ir_emit_br(g, to)
            brfalse == ir_emit_brfalse(g, c, to)
<1>1. Extends(g, br, {}) /\ Extends(g, brfalse, {}) BY EmitBranch
<1>2. /\ br \in IrFunc /\ l \notin Placed(br)
      /\ brfalse \in IrFunc /\ l \notin Placed(brfalse)
  BY <1>1 DEF Extends
<1>. HIDE DEF br, brfalse
<1>3. Extends(br, ir_emit_label(br, l), {l}) /\ Extends(brfalse, ir_emit_label(brfalse, l), {l})
  BY <1>2, PushLabel
<1>4. /\ Extends(g, ir_emit_label(br, l), {} \cup {l})
      /\ Extends(g, ir_emit_label(brfalse, l), {} \cup {l})
  BY <1>1, <1>3, ExtendsTwice
<1>5. {} \cup {l} = {l} OBVIOUS
<1>. QED BY <1>4, <1>5 DEF br, brfalse

(* The condition of an "if".                                               *)
LEMMA StepIf ==
    ASSUME TypeOK, LabelsAccounted, EmitIf PROVE Advances
<1>. DEFINE l == f.label_count
            a == Frame("expr", Top.n.cond)
            b == Labelled("then", Top.n, l)
            g == ir_new_labels(f, 2)
<1>1. OnStmt("if") BY DEF EmitIf
<1>2. Top.n \in Stmts /\ Top.n.kind = "if" /\ Pending(Top) = {} /\ todo # <<>>
  BY <1>1, StmtStep
<1>3. a \in InnerFrames /\ Pending(a) = {} BY <1>2, StmtNodes, ExprFrame
<1>4. g \in IrFunc /\ l \in Nat BY Unchanged, NewLabels
<1>5. b \in InnerFrames BY <1>2, <1>4, NodesAt, InnerFrame DEF FrameKinds, RootKinds
<1>6. b.k = "then" /\ b.l = l BY DEF Labelled
<1>7. f' = g BY DEF EmitIf
<1>8. Continue(<<a, b>>) BY DEF EmitIf
<1>. HIDE DEF a, b, g, l
<1>9. Extends(g, f', {}) BY <1>4, <1>7, SameCode
<1>10. Pending(b) = {l, l + 1} BY <1>6, Owed
<1>11. {} \cup Pending(b) = l .. l + 2 - 1 BY <1>4, <1>10
<1>12. Around BY <1>2, Unchanged DEF EmitIf, Around, unit, scope
<1>. QED BY <1>2, <1>3, <1>5, <1>8, <1>9, <1>11, <1>12, Allocates DEF g, l

(* The branch of an "if".                                                  *)
LEMMA StepThen ==
    ASSUME TypeOK, LabelsAccounted, EmitThen PROVE Advances
<1>. DEFINE l == Top.l
            a == Frame("stmt", Top.n.then)
            b == Labelled("else", Top.n, l)
<1>1. On("then") BY DEF EmitThen
<1>2. /\ Top.n \in Stmts /\ Top.n.kind = "if" /\ todo # <<>> /\ l \in Nat
      /\ Pending(Top) = {l, l + 1}
  BY <1>1, OnStep, Owed, NodesAt
<1>3. a \in InnerFrames /\ Pending(a) = {} BY <1>2, StmtNodes, StmtFrame
<1>4. b \in InnerFrames BY <1>2, NodesAt, InnerFrame DEF FrameKinds, RootKinds
<1>5. Pending(b) = {l, l + 1} BY Owed DEF Labelled
<1>6. l \in Labels(f) BY <1>2, TopOwes
<1>7. Extends(f, f', {}) BY <1>6, Unchanged, Operands, EmitBranch DEF EmitThen
<1>8. Around BY <1>2, Unchanged DEF EmitThen, Around, unit, scope
<1>9. Continue(<<a, b>>) BY DEF EmitThen
<1>. HIDE DEF a, b
<1>. QED BY <1>2, <1>3, <1>4, <1>5, <1>7, <1>8, <1>9, Pushes

(* Its other branch.                                                       *)
LEMMA StepElse ==
    ASSUME TypeOK, LabelsAccounted, EmitElse PROVE Advances
<1>. DEFINE l == Top.l
            a == Frame("stmt", Top.n.else)
            b == Labelled("endif", Top.n, l)
<1>1. On("else") BY DEF EmitElse
<1>2. /\ Top.n \in Stmts /\ Top.n.kind = "if" /\ todo # <<>> /\ l \in Nat
      /\ Pending(Top) = {l, l + 1}
  BY <1>1, OnStep, Owed, NodesAt
<1>3. a \in InnerFrames /\ Pending(a) = {} BY <1>2, StmtNodes, StmtFrame
<1>4. b \in InnerFrames BY <1>2, NodesAt, InnerFrame DEF FrameKinds, RootKinds
<1>5. Pending(b) = {l + 1} BY Owed DEF Labelled
<1>6. l + 1 \in Labels(f) /\ l \notin Placed(f) BY <1>2, TopOwes
<1>7. Extends(f, f', {l}) BY <1>2, <1>6, Unchanged, Blanks, BranchThenLabel DEF EmitElse
<1>8. Around BY <1>2, Unchanged DEF EmitElse, Around, unit, scope
<1>9. Continue(<<a, b>>) BY DEF EmitElse
<1>. HIDE DEF a, b, l
<1>10. {l} \cup Pending(b) = Pending(Top) /\ {l} \cap Pending(b) = {} BY <1>2, <1>5
<1>. QED BY <1>2, <1>3, <1>4, <1>7, <1>8, <1>9, <1>10, Pushes

(* The end of an "if".                                                     *)
LEMMA StepEndIf ==
    ASSUME TypeOK, LabelsAccounted, EmitEndIf PROVE Advances
<1>1. On("endif") BY DEF EmitEndIf
<1>2. Pending(Top) = {Top.l + 1} /\ Top.l + 1 \in Nat /\ todo # <<>> BY <1>1, OnStep, Owed
<1>3. Top.l + 1 \notin Placed(f) BY <1>2, TopOwes
<1>4. Extends(f, f', {Top.l + 1}) BY <1>2, <1>3, Unchanged, PushLabel DEF EmitEndIf
<1>5. Around BY <1>2, Unchanged DEF EmitEndIf, Around, unit, scope
<1>. QED BY <1>2, <1>4, <1>5, Pops DEF EmitEndIf

(* The first part of a "for".                                              *)
LEMMA StepForInit ==
    ASSUME TypeOK, LabelsAccounted, EmitForInit PROVE Advances
<1>. DEFINE a == Frame("stmt", Top.n.init)
            b == Frame("for", Top.n)
<1>1. OnStmt("for") BY DEF EmitForInit
<1>2. Top.n \in Stmts /\ Top.n.kind = "for" /\ Pending(Top) = {} /\ todo # <<>>
  BY <1>1, StmtStep
<1>3. a \in InnerFrames /\ Pending(a) = {} BY <1>2, StmtNodes, StmtFrame
<1>4. b \in InnerFrames /\ Pending(b) = {}
  BY <1>2, NodesAt, InnerFrame, FramePending DEF Frame, FrameKinds, RootKinds
<1>5. Around BY <1>2, Unchanged DEF EmitForInit, Around, unit, scope
<1>6. Extends(f, f', {}) BY Unchanged DEF EmitForInit
<1>7. Continue(<<a, b>>) BY DEF EmitForInit
<1>. HIDE DEF a, b
<1>. QED BY <1>2, <1>3, <1>4, <1>5, <1>6, <1>7, Pushes

(* The head of a loop.                                                     *)
LEMMA StepLoop ==
    ASSUME TypeOK, LabelsAccounted, EmitLoop PROVE Advances
<1>. DEFINE l == f.label_count
            a == Frame("expr", Top.n.cond)
            b == Labelled("test", Top.n, l)
            g == ir_new_labels(f, 3)
<1>1. OnStmt("while") \/ On("for") BY DEF EmitLoop
<1>2. Top.n \in Stmts /\ Top.n.kind \in {"while", "for"} /\ Pending(Top) = {} /\ todo # <<>>
  <2>1. CASE OnStmt("while") BY <2>1, StmtStep
  <2>2. CASE On("for") BY <2>2, OnStep, Owed, NodesAt
  <2>. QED BY <1>1, <2>1, <2>2
<1>3. a \in InnerFrames /\ Pending(a) = {} BY <1>2, StmtNodes, ExprFrame
<1>4. g \in IrFunc /\ l \in Nat /\ Placed(g) = Placed(f) BY Unchanged, NewLabels
<1>5. b \in InnerFrames BY <1>2, <1>4, NodesAt, InnerFrame DEF FrameKinds, RootKinds
<1>6. b.k = "test" /\ b.l = l BY DEF Labelled
<1>7. f' = ir_emit_label(g, l) BY DEF EmitLoop
<1>8. Continue(<<a, b>>) BY DEF EmitLoop
<1>9. l \notin Placed(f)
  <2>1. Placed(f) \subseteq Labels(f) BY <1>2, TopOwes
  <2>. QED BY <1>4, <2>1 DEF Labels
<1>. HIDE DEF a, b, g, l
<1>10. Extends(g, f', {l}) BY <1>4, <1>7, <1>9, PushLabel
<1>11. Pending(b) = {l + 1, l + 2} BY <1>6, Owed
<1>12. {l} \cup Pending(b) = l .. l + 3 - 1 /\ {l} \cap Pending(b) = {} BY <1>4, <1>11
<1>13. Around BY <1>2, Unchanged DEF EmitLoop, Around, unit, scope
<1>. QED BY <1>2, <1>3, <1>5, <1>8, <1>10, <1>12, <1>13, Allocates DEF g, l

(* The condition of a loop.                                                *)
LEMMA StepTest ==
    ASSUME TypeOK, LabelsAccounted, EmitTest PROVE Advances
<1>. DEFINE l == Top.l
            k == IF Top.n.kind = "for" THEN "step" ELSE "loop"
            a == Frame("stmt", Top.n.body)
            b == Labelled(k, Top.n, l)
<1>1. On("test") BY DEF EmitTest
<1>2. /\ Top.n \in Stmts /\ Top.n.kind \in {"while", "for"} /\ todo # <<>> /\ l \in Nat
      /\ Pending(Top) = {l + 1, l + 2}
  BY <1>1, OnStep, Owed, NodesAt
<1>3. a \in InnerFrames /\ Pending(a) = {} BY <1>2, StmtNodes, StmtFrame
<1>4. k \in {"step", "loop"} /\ Top.n \in NodesOf[k] BY <1>2, NodesAt
<1>5. b \in InnerFrames BY <1>2, <1>4, InnerFrame DEF FrameKinds, RootKinds
<1>6. b.k = k /\ b.l = l BY DEF Labelled
<1>7. Pending(b) = {l + 2} BY <1>4, <1>6, Owed
<1>8. l + 2 \in Labels(f) /\ l + 1 \notin Placed(f) /\ l + 1 \in Nat BY <1>2, TopOwes
<1>9. ir_temp(ret) \in Operand BY Unchanged, Operands
<1>10. f' = ir_emit_label(ir_emit_brfalse(f, ir_temp(ret), l + 2), l + 1) BY DEF EmitTest
<1>11. Around BY <1>2, Unchanged DEF EmitTest, Around, unit, scope
<1>12. Continue(<<a, b>>) BY DEF EmitTest
<1>. HIDE DEF a, b, k, l
<1>13. Extends(f, f', {l + 1}) BY <1>8, <1>9, <1>10, Unchanged, BranchThenLabel
<1>14. {l + 1} \cup Pending(b) = Pending(Top) /\ {l + 1} \cap Pending(b) = {} BY <1>2, <1>7
<1>. QED BY <1>2, <1>3, <1>5, <1>11, <1>12, <1>13, <1>14, Pushes

(* The last part of a "for".                                               *)
LEMMA StepStep ==
    ASSUME TypeOK, LabelsAccounted, EmitStep PROVE Advances
<1>. DEFINE a == Frame("stmt", Top.n.step)
            b == Labelled("loop", Top.n, Top.l)
<1>1. On("step") BY DEF EmitStep
<1>2. /\ Top.n \in Stmts /\ Top.n.kind = "for" /\ todo # <<>> /\ Top.l \in Nat
      /\ Pending(Top) = {Top.l + 2}
  BY <1>1, OnStep, Owed, NodesAt
<1>3. a \in InnerFrames /\ Pending(a) = {} BY <1>2, StmtNodes, StmtFrame
<1>4. b \in InnerFrames BY <1>2, NodesAt, InnerFrame DEF FrameKinds, RootKinds
<1>5. Pending(b) = {Top.l + 2} BY Owed DEF Labelled
<1>6. Extends(f, f', {}) BY Unchanged DEF EmitStep
<1>7. Around BY <1>2, Unchanged DEF EmitStep, Around, unit, scope
<1>8. Continue(<<a, b>>) BY DEF EmitStep
<1>. HIDE DEF a, b
<1>. QED BY <1>2, <1>3, <1>4, <1>5, <1>6, <1>7, <1>8, Pushes

(* The jump back to the head of a loop.                                    *)
LEMMA StepLoopEnd ==
    ASSUME TypeOK, LabelsAccounted, EmitLoopEnd PROVE Advances
<1>1. On("loop") BY DEF EmitLoopEnd
<1>2. /\ Pending(Top) = {Top.l + 2} /\ Top.l \in Nat /\ Top.l + 2 \in Nat /\ todo # <<>>
  BY <1>1, OnStep, Owed
<1>3. Top.l + 2 \in Labels(f) /\ Top.l + 2 \notin Placed(f) BY <1>2, TopOwes
<1>4. Top.l \in Labels(f)
  <2>1. f.label_count \in Nat BY Unchanged DEF IrFunc
  <2>. QED BY <1>2, <1>3, <2>1 DEF Labels
<1>5. Extends(f, f', {Top.l + 2})
  BY <1>2, <1>3, <1>4, Unchanged, Blanks, BranchThenLabel DEF EmitLoopEnd
<1>6. Around BY <1>2, Unchanged DEF EmitLoopEnd, Around, unit, scope
<1>. QED BY <1>2, <1>5, <1>6, Pops DEF EmitLoopEnd

(* "return" without a value.                                               *)
LEMMA StepReturnVoid ==
    ASSUME TypeOK, LabelsAccounted, ReturnVoid PROVE Advances
<1>1. OnStmt("return") BY DEF ReturnVoid
<1>2. Pending(Top) = {} /\ todo # <<>> BY <1>1, StmtStep
<1>3. Extends(f, f', {}) BY Unchanged, Blanks, EmitRet DEF ReturnVoid
<1>4. Around BY <1>2, Unchanged DEF ReturnVoid, Around, unit, scope
<1>. QED BY <1>2, <1>3, <1>4, Pops DEF ReturnVoid

(* "return" with a value.                                                  *)
LEMMA StepReturnExpr ==
    ASSUME TypeOK, LabelsAccounted, ReturnExpr PROVE Advances
<1>. DEFINE a == Frame("expr", Top.n.expr)
            b == Frame("return", Top.n)
<1>1. OnStmt("return") /\ Top.n.expr # NullNode BY DEF ReturnExpr
<1>2. Top.n \in Stmts /\ Top.n.kind = "return" /\ Pending(Top) = {} /\ todo # <<>>
  BY <1>1, StmtStep
<1>3. a \in InnerFrames /\ Pending(a) = {} BY <1>1, <1>2, StmtNodes, ExprFrame
<1>4. b \in InnerFrames /\ Pending(b) = {}
  BY <1>2, NodesAt, InnerFrame, FramePending DEF Frame, FrameKinds, RootKinds
<1>5. Around BY <1>2, Unchanged DEF ReturnExpr, Around, unit, scope
<1>6. Extends(f, f', {}) BY Unchanged DEF ReturnExpr
<1>7. Continue(<<a, b>>) BY DEF ReturnExpr
<1>. HIDE DEF a, b
<1>. QED BY <1>2, <1>3, <1>4, <1>5, <1>6, <1>7, Pushes

(* The code of a "return" with a value.                                    *)
LEMMA StepReturnValue ==
    ASSUME TypeOK, LabelsAccounted, ReturnValue PROVE Advances
<1>1. On("return") BY DEF ReturnValue
<1>2. Pending(Top) = {} /\ todo # <<>> BY <1>1, OnStep, Owed
<1>3. Extends(f, f', {}) BY Unchanged, Operands, EmitRet DEF ReturnValue
<1>4. Around BY <1>2, Unchanged DEF ReturnValue, Around, unit, scope
<1>. QED BY <1>2, <1>3, <1>4, Pops DEF ReturnValue

(* Every step of a statement.                                              *)
LEMMA StmtAdvances ==
    ASSUME TypeOK, LabelsAccounted, irb_emit_stmt PROVE Advances
BY StepSkip, StepExprStmt, StepBlock, StepNextStmt, StepLeaveBlock, StepDecl, StepInit,
   StepIf, StepThen, StepElse, StepEndIf, StepForInit, StepLoop, StepTest, StepStep,
   StepLoopEnd, StepReturnVoid, StepReturnExpr, StepReturnValue
   DEF irb_emit_stmt

(* A step inside a function, whatever it emits, keeps the invariant.       *)
LEMMA AdvanceKeepsIInv ==
    ASSUME IInv, Advances, Top.k \notin RootKinds \cup {"end"}
    PROVE  IInv'
<1>1. PICK frames, placed, P : Typed(frames) /\ Balanced(frames, placed, P) BY DEF Advances
<1>2. todo # <<>> /\ UNCHANGED funcs BY <1>1 DEF Typed, Around, unit
<1>3. TypeOK' BY <1>1, <1>2, StepKeepsTypes DEF IInv
<1>4. Shape' BY <1>1, <1>2, StepKeepsShape DEF IInv
<1>5. LabelsAccounted' BY <1>1, <1>2, StepKeepsLabels DEF IInv
<1>6. BranchesResolve' BY <1>2 DEF IInv, BranchesResolve
<1>. QED BY <1>3, <1>4, <1>5, <1>6 DEF IInv

(* The descent works above the bottom of the stack.                        *)
LEMMA InnerStep ==
    ASSUME irb_emit_expr \/ irb_emit_stmt
    PROVE  Top.k \notin RootKinds \cup {"end"}
<1>1. CASE irb_emit_expr
  BY <1>1 DEF irb_emit_expr, EmitLiteral, EmitIdent, EmitOperand, emit_unary, EmitAssign,
     EmitRight, EmitBinCmp, BranchAnd, BranchOr, EmitAnd, EmitOr, EmitShortCircuit,
     CallNoArgs, FirstArg, NextArg, EmitCall, OnExpr, On, RootKinds
<1>2. CASE irb_emit_stmt
  BY <1>2 DEF irb_emit_stmt, SkipStmt, EmitExprStmt, emit_block, NextStmt, LeaveBlock,
     EmitDecl, EmitInit, EmitIf, EmitThen, EmitElse, EmitEndIf, EmitForInit, EmitLoop,
     EmitTest, EmitStep, EmitLoopEnd, ReturnVoid, ReturnExpr, ReturnValue, OnStmt, On, RootKinds
<1>. QED BY <1>1, <1>2

-----------------------------------------------------------------------------
(* irb_build_program: the steps at the bottom of the stack.                *)
LEMMA AtRoot ==
    ASSUME TypeOK, Shape, LabelsAccounted, NEW k \in RootKinds, On(k)
    PROVE  /\ todo # <<>> /\ Top.k = k /\ Top \in GoodFrames
           /\ \A fs \in Seq(GoodFrames) : Continue(fs) => todo' = fs
           /\ Labels(f) = Placed(f) /\ LabelsOnce(f) /\ Targets(f) \subseteq Placed(f)
<1>1. todo # <<>> /\ Top.k = k /\ Top \in GoodFrames BY OnStep
<1>2. todo \in Seq(GoodFrames) BY TypedStack DEF TypeInv
<1>3. Len(todo) \in Nat \ {0} /\ DOMAIN todo = 1 .. Len(todo) /\ Top = todo[1]
  BY <1>1, <1>2, EmptySeq, LenProperties DEF Top
<1>4. Len(todo) = 1 BY <1>1, <1>3 DEF Shape
<1>5. Tail(todo) = <<>>
  <2>1. Tail(todo) \in Seq(GoodFrames) /\ Len(Tail(todo)) = 0
    BY <1>1, <1>2, <1>4, HeadTailProperties
  <2>. QED BY <2>1, EmptySeq
<1>6. \A fs \in Seq(GoodFrames) : Continue(fs) => todo' = fs
  BY <1>5, ConcatEmptySeq DEF Continue
<1>7. DOMAIN todo = {1} /\ Pending(todo[1]) = {}
  BY <1>1, <1>3, <1>4, Owed DEF RootKinds
<1>8. Labels(f) = Placed(f) /\ LabelsOnce(f) /\ Targets(f) \subseteq Placed(f)
  BY <1>7 DEF LabelsAccounted
<1>. QED BY <1>1, <1>6, <1>8

(* A step at the root keeps the types.                                     *)
LEMMA RootTypes ==
    ASSUME ast' \in Programs, funcs' \in Seq(IrFunc), f' \in IrFunc, GoodVars(g_vars'),
           g_scope_depth' \in Nat, todo' \in Seq(GoodFrames), ret' \in Int
    PROVE  TypeOK'
<1>1. TypeOK' <=> TypeInv' BY TypedStack, PTL
<1>. QED BY <1>1 DEF TypeInv, GoodVars

(* A step at the root keeps the labels accounted for.                      *)
LEMMA RootLabels ==
    ASSUME LabelsOnce(f'), Placed(f') = Labels(f'), Targets(f') \subseteq Placed(f'),
           \A j \in DOMAIN todo' : Pending(todo'[j]) = {}
    PROVE  LabelsAccounted'
BY DEF LabelsAccounted

(* The root node in turn is a statement of the grammar.                    *)
LEMMA RootNodeStmt ==
    ASSUME TypeOK, todo # <<>>, NEW kinds, RootNode(kinds)
    PROVE  ast.stmts[Top.i] \in Stmts /\ ast.stmts[Top.i].kind \in kinds
<1>1. ast.stmts \in Seq(Stmts) BY AstAssumption DEF TypeOK
<1>2. Top.i \in Nat \ {0} BY TopGood DEF GoodFrames, FrameType
<1>3. Top.i \in 1 .. Len(ast.stmts) BY <1>1, <1>2, LenProperties DEF RootNode
<1>. QED BY <1>1, <1>3, ElementOfSeq DEF RootNode

(* The types of the parameters.                                            *)
LEMMA ParamTypes ==
    ASSUME NEW n \in Stmts, n.kind = "function"
    PROVE  param_types(n) \in Seq(TypeTags)
<1>. DEFINE Decls == {d \in Stmts : d.kind = "decl"}
<1>1. n.params \in Seq(Decls) BY StmtNodes
<1>2. Len(n.params) \in Nat /\ DOMAIN n.params = 1 .. Len(n.params) BY <1>1, LenProperties
<1>3. ASSUME NEW j \in 1 .. Len(n.params) PROVE n.params[j].type \in TypeTags
  <2>1. n.params[j] \in Decls BY <1>1, <1>3, ElementOfSeq
  <2>. QED BY <2>1, StmtNodes
<1>4. param_types(n) \in [1 .. Len(n.params) -> TypeTags] BY <1>2, <1>3 DEF param_types
<1>. QED BY <1>2, <1>4, SeqDef

(* A function begins without variables.                                    *)
LEMMA FreshVars == GoodVars(NoVars)
BY DEF GoodVars, NoVars

(* A function begins.                                                      *)
LEMMA BeginFunctionKeeps ==
    ASSUME IInv, BeginFunction PROVE IInv'
<1>. DEFINE n == ast.stmts[Top.i]
            a == Frame("stmt", n.body)
            b == Frame("end", n)
            c == [Top EXCEPT !.i = @ + 1]
<1>1. On("functions") /\ RootNode({"function"}) BY DEF BeginFunction
<1>2. /\ todo # <<>> /\ Top.k = "functions" /\ Top \in GoodFrames
      /\ \A fs \in Seq(GoodFrames) : Continue(fs) => todo' = fs
  BY <1>1, AtRoot DEF IInv, RootKinds
<1>3. n \in Stmts /\ n.kind = "function" BY <1>1, <1>2, RootNodeStmt DEF IInv
<1>4. a \in GoodFrames /\ Pending(a) = {} /\ a.k = "stmt"
  BY <1>3, StmtNodes, StmtFrame DEF InnerFrames, Frame, Labelled
<1>5. b \in GoodFrames /\ b.k = "end" BY <1>3, NodesAt, FrameGood DEF Frame, Labelled, FrameKinds
<1>6. c \in GoodFrames /\ c.k = "functions" BY <1>2, NextChild DEF IInv
<1>7. Pending(b) = {} /\ Pending(c) = {} BY <1>5, <1>6, Owed
<1>8. Continue(<<a, b, c>>) BY DEF BeginFunction
<1>9. f' = ir_func_begin(n.name, n.ret_type, param_types(n)) BY DEF BeginFunction
<1>10. /\ f' \in IrFunc /\ Placed(f') = {} /\ Targets(f') = {} /\ Labels(f') = {}
       /\ LabelsOnce(f')
  BY <1>3, <1>9, StmtNodes, ParamTypes, FuncBegin
<1>. HIDE DEF a, b, c, n
<1>11. <<a, b, c>> \in Seq(GoodFrames) BY <1>4, <1>5, <1>6
<1>12. todo' = <<a, b, c>> BY <1>2, <1>8, <1>11
<1>13. TypeOK'
  <2>1. ast' \in Programs /\ funcs' \in Seq(IrFunc) BY DEF BeginFunction, unit, IInv, TypeOK
  <2>2. GoodVars(g_vars') /\ g_scope_depth' \in Nat /\ ret' \in Int
    BY FreshVars, Unchanged DEF BeginFunction, irb_reset_state, IInv
  <2>. QED BY <1>10, <1>11, <1>12, <2>1, <2>2, RootTypes
<1>14. DOMAIN todo' = {1, 2, 3} /\ Len(todo') = 3 BY <1>12
<1>15. todo'[1] = a /\ todo'[2] = b /\ todo'[3] = c BY <1>12
<1>16. Shape' BY <1>4, <1>5, <1>6, <1>14, <1>15 DEF Shape, RootKinds
<1>17. LabelsAccounted' BY <1>4, <1>7, <1>10, <1>14, <1>15, RootLabels
<1>18. BranchesResolve' BY DEF BeginFunction, unit, IInv, BranchesResolve
<1>. QED BY <1>13, <1>16, <1>17, <1>18 DEF IInv

(* _entry begins.                                                          *)
LEMMA BeginEntryKeeps ==
    ASSUME IInv, BeginEntry PROVE IInv'
<1>. DEFINE a == Frame("_entry", ast)
<1>1. On("functions") BY DEF BeginEntry
<1>2. \A fs \in Seq(GoodFrames) : Continue(fs) => todo' = fs
  BY <1>1, AtRoot DEF IInv, RootKinds
<1>3. ast \in Programs /\ funcs \in Seq(IrFunc) BY DEF IInv, TypeOK
<1>4. a \in GoodFrames /\ a.k = "_entry"
  BY <1>3, NodesAt, FrameGood DEF Frame, Labelled, FrameKinds
<1>5. Pending(a) = {} BY <1>4, Owed
<1>6. Continue(<<a>>) BY DEF BeginEntry
<1>. HIDE DEF a
<1>7. <<a>> \in Seq(GoodFrames) BY <1>4
<1>8. todo' = <<a>> BY <1>2, <1>6, <1>7
<1>9. "_entry" \in Names /\ "void" \in TypeTags /\ <<>> \in Seq(TypeTags)
  BY NamesAssumption, EmptySeq DEF TypeTags
<1>10. /\ f' \in IrFunc /\ Placed(f') = {} /\ Targets(f') = {} /\ Labels(f') = {}
       /\ LabelsOnce(f')
  BY <1>9, FuncBegin DEF BeginEntry
<1>11. TypeOK'
  <2>1. ast' \in Programs /\ funcs' \in Seq(IrFunc) BY <1>3 DEF BeginEntry, unit
  <2>2. GoodVars(g_vars') /\ g_scope_depth' \in Nat /\ ret' \in Int
    BY FreshVars, Unchanged DEF BeginEntry, irb_reset_state, IInv
  <2>. QED BY <1>7, <1>8, <1>10, <2>1, <2>2, RootTypes
<1>12. DOMAIN todo' = {1} /\ Len(todo') = 1 /\ todo'[1] = a BY <1>8
<1>13. Shape' BY <1>4, <1>12 DEF Shape, RootKinds
<1>14. LabelsAccounted' BY <1>5, <1>10, <1>12, RootLabels
<1>15. BranchesResolve' BY DEF BeginEntry, unit, IInv, BranchesResolve
<1>. QED BY <1>11, <1>13, <1>14, <1>15 DEF IInv

(* A root node of the other pass.                                          *)
LEMMA SkipRootNodeKeeps ==
    ASSUME IInv, SkipRootNode PROVE IInv'
<1>. DEFINE c == [Top EXCEPT !.i = @ + 1]
<1>1. PICK k \in RootKinds : On(k) BY DEF SkipRootNode, RootKinds
<1>2. /\ todo # <<>> /\ Top.k = k /\ Top \in GoodFrames
      /\ \A fs \in Seq(GoodFrames) : Continue(fs) => todo' = fs
      /\ Labels(f) = Placed(f) /\ LabelsOnce(f) /\ Targets(f) \subseteq Placed(f)
  BY <1>1, AtRoot DEF IInv
<1>3. c \in GoodFrames /\ c.k = k BY <1>2, NextChild DEF IInv, RootKinds
<1>4. Pending(c) = {} BY <1>3, Owed DEF RootKinds
<1>5. Continue(<<c>>) BY DEF SkipRootNode
<1>. HIDE DEF c
<1>6. <<c>> \in Seq(GoodFrames) BY <1>3
<1>7. todo' = <<c>> BY <1>2, <1>5, <1>6
<1>8. UNCHANGED <<ast, funcs, f, g_vars, g_scope_depth, ret>>
  BY DEF SkipRootNode, unit, scope
<1>9. TypeOK'
  <2>1. ast \in Programs /\ funcs \in Seq(IrFunc) BY DEF IInv, TypeOK
  <2>. QED BY <1>6, <1>7, <1>8, <2>1, Unchanged, RootTypes DEF IInv
<1>10. DOMAIN todo' = {1} /\ Len(todo') = 1 /\ todo'[1] = c BY <1>7
<1>11. Shape' BY <1>3, <1>10 DEF Shape, RootKinds
<1>12. LabelsAccounted' BY <1>2, <1>4, <1>8, <1>10, RootLabels
<1>13. BranchesResolve' BY <1>8 DEF IInv, BranchesResolve
<1>. QED BY <1>9, <1>11, <1>12, <1>13 DEF IInv

(* A root statement of _entry.                                             *)
LEMMA EntryStmtKeeps ==
    ASSUME IInv, EntryStmt PROVE IInv'
<1>. DEFINE a == Frame("stmt", ast.stmts[Top.i])
            c == [Top EXCEPT !.i = @ + 1]
<1>1. On("_entry") /\ RootNode(NotAFunction) BY DEF EntryStmt
<1>2. /\ todo # <<>> /\ Top.k = "_entry" /\ Top \in GoodFrames
      /\ \A fs \in Seq(GoodFrames) : Continue(fs) => todo' = fs
      /\ Labels(f) = Placed(f) /\ LabelsOnce(f) /\ Targets(f) \subseteq Placed(f)
  BY <1>1, AtRoot DEF IInv, RootKinds
<1>3. a \in GoodFrames /\ Pending(a) = {} /\ a.k = "stmt"
  BY <1>1, <1>2, RootNodeStmt, StmtFrame DEF IInv, InnerFrames, Frame, Labelled
<1>4. c \in GoodFrames /\ c.k = "_entry" BY <1>2, NextChild DEF IInv
<1>5. Pending(c) = {} BY <1>4, Owed
<1>6. Continue(<<a, c>>) BY DEF EntryStmt
<1>. HIDE DEF a, c
<1>7. <<a, c>> \in Seq(GoodFrames) BY <1>3, <1>4
<1>8. todo' = <<a, c>> BY <1>2, <1>6, <1>7
<1>9. UNCHANGED <<ast, funcs, f, g_vars, g_scope_depth, ret>>
  BY DEF EntryStmt, unit, scope
<1>10. TypeOK'
  <2>1. ast \in Programs /\ funcs \in Seq(IrFunc) BY DEF IInv, TypeOK
  <2>. QED BY <1>7, <1>8, <1>9, <2>1, Unchanged, RootTypes DEF IInv
<1>11. DOMAIN todo' = {1, 2} /\ Len(todo') = 2 /\ todo'[1] = a /\ todo'[2] = c BY <1>8
<1>12. Shape' BY <1>3, <1>4, <1>11 DEF Shape, RootKinds
<1>13. LabelsAccounted' BY <1>2, <1>3, <1>5, <1>9, <1>11, RootLabels
<1>14. BranchesResolve' BY <1>9 DEF IInv, BranchesResolve
<1>. QED BY <1>10, <1>12, <1>13, <1>14 DEF IInv

(* A function is appended when no activation owes a label any more.        *)
LEMMA AppendResolves ==
    ASSUME TypeOK, BranchesResolve, NEW h \in IrFunc,
           LabelsOnce(h), Targets(h) \subseteq Placed(h), funcs' = Append(funcs, h)
    PROVE  funcs' \in Seq(IrFunc) /\ BranchesResolve'
<1>1. funcs \in Seq(IrFunc) BY DEF TypeOK
<1>2. funcs' \in Seq(IrFunc) BY <1>1
<1>3. /\ Len(funcs) \in Nat /\ DOMAIN funcs = 1 .. Len(funcs)
      /\ DOMAIN funcs' = 1 .. Len(funcs) + 1
      /\ \A i \in DOMAIN funcs : funcs'[i] = funcs[i]
      /\ funcs'[Len(funcs) + 1] = h
  BY <1>1
<1>4. \A i \in DOMAIN funcs' : i \in DOMAIN funcs \/ i = Len(funcs) + 1 BY <1>3
<1>5. BranchesResolve' BY <1>3, <1>4 DEF BranchesResolve
<1>. QED BY <1>2, <1>5

(* A function ends.                                                        *)
LEMMA EndFunctionKeeps ==
    ASSUME IInv, EndFunction PROVE IInv'
<1>. DEFINE r == todo[2]
<1>1. /\ todo # <<>> /\ Top.k = "end" BY DEF EndFunction, On
<1>2. todo \in Seq(GoodFrames) BY TypedStack DEF IInv, TypeInv
<1>3. Len(todo) \in Nat \ {0} /\ DOMAIN todo = 1 .. Len(todo) /\ Top = todo[1]
  BY <1>1, <1>2, EmptySeq, LenProperties DEF Top
<1>4. Len(todo) = 2 BY <1>1, <1>3 DEF IInv, Shape
<1>5. r \in GoodFrames /\ r.k \in RootKinds
  BY <1>2, <1>3, <1>4, ElementOfSeq DEF IInv, Shape
<1>6. Continue(<<>>) BY DEF EndFunction
<1>7. /\ todo' \in Seq(GoodFrames) /\ Len(todo') = 1 /\ DOMAIN todo' = {1} /\ todo'[1] = r
  <2>1. <<>> \in Seq(GoodFrames) /\ Len(<<>>) = 0 BY EmptySeq
  <2>2. /\ todo' \in Seq(GoodFrames) /\ Len(todo') = 0 + 2 - 1
        /\ DOMAIN todo' = 1 .. Len(todo')
        /\ \A i \in 0 + 1 .. Len(todo') : todo'[i] = todo[i - 0 + 1]
    BY <1>1, <1>2, <1>4, <1>6, <2>1, Replaced DEF Continue
  <2>. QED BY <2>2
<1>8. Pending(Top) = {} /\ Pending(r) = {} BY <1>1, <1>5, Owed DEF RootKinds
<1>9. Labels(f) = Placed(f) /\ LabelsOnce(f) /\ Targets(f) \subseteq Placed(f)
  <2>1. \A j \in DOMAIN todo : Pending(todo[j]) = {} BY <1>3, <1>4, <1>8
  <2>. QED BY <2>1 DEF IInv, LabelsAccounted
<1>. HIDE DEF r
<1>10. funcs' = Append(funcs, f) /\ UNCHANGED <<ast, f, g_vars, g_scope_depth, ret>>
  BY DEF EndFunction, scope
<1>11. funcs' \in Seq(IrFunc) /\ BranchesResolve'
  BY <1>9, <1>10, Unchanged, AppendResolves DEF IInv
<1>12. TypeOK'
  <2>1. ast \in Programs BY DEF IInv, TypeOK
  <2>. QED BY <1>7, <1>10, <1>11, <2>1, Unchanged, RootTypes DEF IInv
<1>13. Shape' BY <1>5, <1>7 DEF Shape, RootKinds
<1>14. LabelsAccounted' BY <1>7, <1>8, <1>9, <1>10, RootLabels
<1>. QED BY <1>11, <1>12, <1>13, <1>14 DEF IInv

(* _entry ends.                                                            *)
LEMMA EndEntryKeeps ==
    ASSUME IInv, EndEntry PROVE IInv'
<1>1. On("_entry") BY DEF EndEntry
<1>2. /\ \A fs \in Seq(GoodFrames) : Continue(fs) => todo' = fs
      /\ Labels(f) = Placed(f) /\ LabelsOnce(f) /\ Targets(f) \subseteq Placed(f)
  BY <1>1, AtRoot DEF IInv, RootKinds
<1>3. <<>> \in Seq(GoodFrames) BY EmptySeq
<1>4. todo' = <<>> BY <1>2, <1>3 DEF EndEntry
<1>5. Extends(f, f', {}) BY Unchanged, Blanks, EmitRet DEF EndEntry, IInv
<1>6. /\ f' \in IrFunc /\ Labels(f') = Placed(f') /\ LabelsOnce(f')
      /\ Targets(f') \subseteq Placed(f')
  BY <1>2, <1>5 DEF Extends, Labels
<1>7. funcs' = Append(funcs, f') /\ UNCHANGED <<ast, g_vars, g_scope_depth, ret>>
  BY DEF EndEntry, scope
<1>8. funcs' \in Seq(IrFunc) /\ BranchesResolve'
  BY <1>6, <1>7, AppendResolves DEF IInv
<1>9. TypeOK'
  <2>1. ast \in Programs BY DEF IInv, TypeOK
  <2>. QED BY <1>3, <1>4, <1>6, <1>7, <1>8, <2>1, Unchanged, RootTypes DEF IInv
<1>10. DOMAIN todo' = {} BY <1>4
<1>11. Shape' BY <1>10 DEF Shape
<1>12. LabelsAccounted' BY <1>6, <1>10, RootLabels
<1>. QED BY <1>8, <1>9, <1>11, <1>12 DEF IInv

-----------------------------------------------------------------------------
(* The theorems.                                                           *)

(* Before the first step nothing is emitted and nothing is owed.           *)
LEMMA InitIInv == Init => IInv
<1>. SUFFICES ASSUME Init PROVE IInv OBVIOUS
<1>. DEFINE r == Frame("functions", ast)
<1>1. ast \in Programs /\ todo = <<r>> /\ funcs = <<>> BY DEF Init
<1>2. r \in GoodFrames /\ r.k = "functions"
  BY <1>1, NodesAt, FrameGood DEF Frame, Labelled, FrameKinds
<1>3. Pending(r) = {} BY <1>2, Owed
<1>4. /\ f \in IrFunc /\ Placed(f) = {} /\ Targets(f) = {} /\ Labels(f) = {} /\ LabelsOnce(f)
  <2>1. "" \in Names /\ "void" \in TypeTags /\ <<>> \in Seq(TypeTags)
    BY Blanks, EmptySeq DEF TypeTags
  <2>. QED BY <2>1, FuncBegin DEF Init
<1>. HIDE DEF r
<1>5. todo \in Seq(GoodFrames) BY <1>1, <1>2
<1>6. DOMAIN todo = {1} /\ Len(todo) = 1 /\ todo[1] = r BY <1>1
<1>7. TypeOK
  <2>1. funcs \in Seq(IrFunc) BY <1>1, EmptySeq
  <2>2. g_vars = NoVars /\ g_scope_depth = 0 /\ ret = -1 BY DEF Init
  <2>3. GoodVars(g_vars) /\ g_scope_depth \in Nat /\ ret \in Int BY <2>2, FreshVars
  <2>. QED BY <1>1, <1>4, <1>5, <2>1, <2>3, TypedStack DEF TypeInv
<1>8. Shape BY <1>2, <1>6 DEF Shape, RootKinds
<1>9. LabelsAccounted BY <1>3, <1>4, <1>6 DEF LabelsAccounted
<1>10. BranchesResolve BY <1>1 DEF BranchesResolve
<1>. QED BY <1>7, <1>8, <1>9, <1>10 DEF IInv

(* Every step keeps the invariant.                                         *)
LEMMA NextIInv == IInv /\ [Next]_vars => IInv'
<1>. SUFFICES ASSUME IInv, [Next]_vars PROVE IInv' OBVIOUS
<1>1. CASE irb_emit_expr
  BY <1>1, ExprAdvances, InnerStep, AdvanceKeepsIInv DEF IInv
<1>2. CASE irb_emit_stmt
  BY <1>2, StmtAdvances, InnerStep, AdvanceKeepsIInv DEF IInv
<1>3. CASE irb_build_program
  BY <1>3, BeginFunctionKeeps, EndFunctionKeeps, SkipRootNodeKeeps, BeginEntryKeeps,
     EntryStmtKeeps, EndEntryKeeps
     DEF irb_build_program
<1>4. CASE UNCHANGED vars
  BY <1>4 DEF vars, IInv, TypeOK, Shape, LabelsAccounted, BranchesResolve
<1>5. CASE Finish
  BY <1>4, <1>5 DEF Finish
<1>. QED BY <1>1, <1>2, <1>3, <1>4, <1>5 DEF Next

(* The inductive invariant.                                                *)
LEMMA Invariant == Spec => []IInv
BY InitIInv, NextIInv, PTL DEF Spec

(* Every activation resumes on a node of its kind and every instruction    *)
(* is an IR instruction, for any tree of the grammar: the recursive        *)
(* descent of irb_emit_expr and irb_emit_stmt never misreads a node.       *)
THEOREM TypeCorrect == Spec => []TypeOK
BY Invariant, PTL DEF IInv

(* However statements and operators nest, every label ir_new_label gave    *)
(* out is emitted once or owed by one suspended activation.                *)
THEOREM LabelsCorrect == Spec => []LabelsAccounted
BY Invariant, PTL DEF IInv

(* A function irb_build_program hands to codegen_js_func has each label at *)
(* most once and no branch to a label that is not in its code.             *)
THEOREM BranchesCorrect == Spec => []BranchesResolve
BY Invariant, PTL DEF IInv

-----------------------------------------------------------------------------
(* The second half: what the IR builder computes with.  The value an       *)
(* activation waits for is a temporary of the function, the code is in     *)
(* static single assignment form, the value of a variable is registered    *)
(* under its name, and the depth of g_vars is that of the blocks being     *)
(* emitted.                                                                *)
(*                                                                         *)
(* No one of the four is inductive.  VInv is: an instruction reads what    *)
(* irb_emit_expr returned or what g_vars holds, so that single assignment  *)
(* needs ValuesAvailable, and a placeholder of vt_get stays undefined      *)
(* because a destination is always a fresh temporary.                      *)

(* The temporaries a frame holds; a value for every activation that waits. *)
Holding(fr, g) == \A m \in DOMAIN fr.ts : fr.ts[m] \in Temps(g)
Feeds(above, fr) == fr.k \in Consumers => above.k \in Producers

Waits ==
    /\ \A j \in DOMAIN todo :
          /\ Holding(todo[j], f)
          /\ todo[j].k \in RootKinds => todo[j].ts = <<>>
          /\ todo[j].k \in Consumers =>
                IF j = 1 THEN ret \in Temps(f) ELSE todo[j - 1].k \in Producers

(* The variables v in the function g: each has a temporary, registered     *)
(* under its name if an instruction defines it.                            *)
Valued(v, g) ==
    /\ Assigned(g)
    /\ \A n \in DOMAIN v :
          /\ v[n].temp \in Temps(g)
          /\ \/ Registered(g, n, v[n].temp)
             \/ \A i \in DOMAIN g.code : g.code[i].dst # v[n].temp

(* No variable is from a deeper block than d.                              *)
Within(v, d) == \A n \in DOMAIN v : v[n].depth <= d

Blocks(s) == {j \in DOMAIN s : s[j].k = "block"}
Depths == g_scope_depth = Cardinality(Blocks(todo)) /\ Within(g_vars, g_scope_depth)

VInv == Waits /\ Valued(g_vars, f) /\ Depths

(* A step that is neither at the bottom of the stack nor at a block: the   *)
(* function grows, and the variables have their values in it.              *)
Calm ==
    /\ todo # <<>> /\ Top.k \notin RootKinds \cup {"end", "block"}
    /\ f \in IrFunc /\ Grows(f, f')
    /\ Valued(g_vars', f')
    /\ g_scope_depth' = g_scope_depth /\ Within(g_vars', g_scope_depth)

-----------------------------------------------------------------------------
(* The stack after a step.                                                 *)
LEMMA After ==
    ASSUME TypeOK, todo # <<>>, NEW S, NEW frames \in Seq(S), Continue(frames),
           NEW d, d = Len(frames) - 1
    PROVE  /\ Len(todo) \in Nat \ {0} /\ d \in Int
           /\ DOMAIN todo = 1 .. Len(todo) /\ DOMAIN todo' = 1 .. Len(todo) + d
           /\ DOMAIN frames = 1 .. d + 1
           /\ Top = todo[1]
           /\ \A i \in 1 .. d + 1 : todo'[i] = frames[i]
           /\ \A i \in 2 .. Len(todo) : todo'[i + d] = todo[i]
<1>1. Steps(GoodFrames \cup S, todo, frames, todo', d)
  <2>1. todo \in Seq(GoodFrames) BY TypedStack DEF TypeInv
  <2>2. todo \in Seq(GoodFrames \cup S) /\ frames \in Seq(GoodFrames \cup S) BY <2>1, SeqDef
  <2>. QED BY <2>2 DEF Steps, Continue
<1>. QED BY <1>1, Shifted DEF Top

(* The blocks below the running activation are there after the step, too:  *)
(* their number changes with the frames at the top alone.                  *)
LEMMA BlocksAfter ==
    ASSUME TypeOK, todo # <<>>, NEW S, NEW frames \in Seq(S), Continue(frames)
    PROVE  /\ IsFiniteSet(Blocks(todo)) /\ IsFiniteSet(Blocks(frames))
           /\ Cardinality(Blocks(frames)) \in Nat /\ Cardinality(Blocks(todo)) \in Nat
           /\ Cardinality(Blocks(todo')) =
                 Cardinality(Blocks(todo)) - (IF Top.k = "block" THEN 1 ELSE 0)
                                           + Cardinality(Blocks(frames))
<1>. DEFINE R == GoodFrames \cup S
            K == {"block"}
            d == Len(frames) - 1
<1>1. todo \in Seq(R) /\ frames \in Seq(R)
  <2>1. todo \in Seq(GoodFrames) BY TypedStack DEF TypeInv
  <2>. QED BY <2>1, SeqDef
<1>2. Steps(R, todo, frames, todo', d) BY <1>1 DEF Steps, Continue
<1>3. Blocks(todo) = At(todo, K) /\ Blocks(frames) = At(frames, K) /\ Blocks(todo') = At(todo', K)
  BY DEF Blocks, At
<1>4. Top.k = "block" <=> todo[1].k \in K BY DEF Top
<1>. HIDE DEF R, K, d
<1>5. /\ IsFiniteSet(At(todo, K)) /\ IsFiniteSet(At(frames, K))
      /\ Cardinality(At(frames, K)) \in Nat /\ Cardinality(At(todo, K)) \in Nat
  BY <1>1, LevelType
<1>6. /\ LevelIn(todo, 2, K) \in Nat
      /\ Cardinality(At(todo, K)) = LevelIn(todo, 2, K) + (IF todo[1].k \in K THEN 1 ELSE 0)
      /\ Cardinality(At(todo', K)) = LevelIn(todo, 2, K) + Cardinality(At(frames, K))
  BY <1>2, LevelsAfter
<1>. QED BY <1>3, <1>4, <1>5, <1>6

-----------------------------------------------------------------------------
(* The variables of a function that grows, or that names one more.         *)
LEMMA ValuedGrows ==
    ASSUME NEW g \in IrFunc, NEW h, Grows(g, h), NEW v, Valued(v, g)
    PROVE  Valued(v, h)
<1>1. Temps(g) \subseteq Temps(h) /\ Assigned(h) BY GrowsTemps DEF Valued, Grows
<1>2. ASSUME NEW n \in DOMAIN v
      PROVE  /\ v[n].temp \in Temps(h)
             /\ \/ Registered(h, n, v[n].temp)
                \/ \A i \in DOMAIN h.code : h.code[i].dst # v[n].temp
  <2>1. v[n].temp \in Temps(g) BY DEF Valued
  <2>2. CASE Registered(g, n, v[n].temp) BY <1>1, <2>1, <2>2 DEF Grows
  <2>3. CASE \A i \in DOMAIN g.code : g.code[i].dst # v[n].temp
    BY <1>1, <2>1, <2>3 DEF Grows
  <2>. QED BY <2>2, <2>3 DEF Valued
<1>. QED BY <1>1, <1>2 DEF Valued

(* vt_get: the variable it enters has a placeholder nothing defines.       *)
LEMMA VtGetValued ==
    ASSUME TypeOK, Valued(g_vars, f), Within(g_vars, g_scope_depth), NEW name \in Names
    PROVE  /\ Grows(f, vt_get_func(name))
           /\ vt_get(name) \in Temps(vt_get_func(name))
           /\ Valued(vt_get_vars(name), vt_get_func(name))
           /\ Within(vt_get_vars(name), g_scope_depth)
           /\ name \in DOMAIN vt_get_vars(name)
<1>. DEFINE g == vt_get_func(name)
            v == vt_get_vars(name)
<1>1. f \in IrFunc /\ g_scope_depth \in Nat /\ f.temp_count \in Nat BY DEF TypeOK, IrFunc
<1>2. CASE name \in DOMAIN g_vars
  <2>1. g = f /\ v = [n \in DOMAIN g_vars |-> g_vars[n]] /\ vt_get(name) = g_vars[name].temp
    BY <1>2 DEF vt_get, vt_get_func, vt_get_vars
  <2>2. v = g_vars BY <2>1 DEF TypeOK
  <2>3. Grows(f, g) BY <1>1, <2>1, NewGrows
  <2>. HIDE DEF g, v
  <2>4. vt_get(name) \in Temps(g) BY <1>2, <2>1 DEF Valued
  <2>. QED BY <1>2, <2>1, <2>2, <2>3, <2>4 DEF g, v
<1>3. CASE name \notin DOMAIN g_vars
  <2>1. /\ g = ir_new_temp(f) /\ vt_get(name) = f.temp_count
        /\ DOMAIN v = DOMAIN g_vars \cup {name}
        /\ \A n \in DOMAIN g_vars : v[n] = g_vars[n]
        /\ v[name] = [temp |-> f.temp_count, depth |-> g_scope_depth]
    BY <1>3 DEF vt_get, vt_get_func, vt_get_vars
  <2>. HIDE DEF g, v
  <2>2. Grows(f, g) /\ f.temp_count \in Temps(g) BY <1>1, <2>1, NewGrows
  <2>3. Valued(g_vars, g) /\ Assigned(g) BY <1>1, <2>2, ValuedGrows DEF Valued
  <2>4. \A i \in DOMAIN g.code : g.code[i].dst # f.temp_count
    <3>1. \A i \in DOMAIN f.code : f.code[i].dst # f.temp_count
      BY <1>1 DEF Valued, Assigned, Temps
    <3>. QED BY <1>1, <2>1, <3>1, TempMore
  <2>5. v[name].temp = f.temp_count /\ v[name].depth = g_scope_depth BY <2>1
  <2>6. Valued(v, g) BY <2>1, <2>2, <2>3, <2>4, <2>5 DEF Valued
  <2>7. Within(v, g_scope_depth) BY <1>1, <2>1, <2>5 DEF Within
  <2>. QED BY <2>1, <2>2, <2>6, <2>7 DEF g, v
<1>. QED BY <1>2, <1>3

(* An assignment registers the value under the name.                       *)
LEMMA BindValued ==
    ASSUME NEW g \in IrFunc, NEW v, Valued(v, g), NEW name \in Names, NEW t \in Temps(g),
           v = [n \in DOMAIN v |-> v[n]], \A n \in DOMAIN v : v[n] \in VarTemp,
           NEW d, Within(v, d)
    PROVE  /\ Grows(g, ir_register_local(g, name, t))
           /\ Valued([v EXCEPT ![name].temp = t], ir_register_local(g, name, t))
           /\ Within([v EXCEPT ![name].temp = t], d)
<1>. DEFINE h == ir_register_local(g, name, t)
            w == [v EXCEPT ![name].temp = t]
<1>1. t \in Int BY DEF Temps
<1>2. Grows(g, h) /\ Registered(h, name, t) BY <1>1, RegisterGrows
<1>3. t \in Temps(h) BY <1>2, GrowsTemps
<1>4. DOMAIN w = DOMAIN v /\ \A n \in DOMAIN v : n # name => w[n] = v[n] OBVIOUS
<1>5. name \in DOMAIN v => w[name].temp = t /\ w[name].depth = v[name].depth
  BY DEF VarTemp
<1>. HIDE DEF h, w
<1>6. Valued(v, h) BY <1>2, ValuedGrows
<1>7. ASSUME NEW n \in DOMAIN w
      PROVE  /\ w[n].temp \in Temps(h) /\ w[n].depth <= d
             /\ \/ Registered(h, n, w[n].temp)
                \/ \A i \in DOMAIN h.code : h.code[i].dst # w[n].temp
  <2>1. CASE n = name BY <1>2, <1>3, <1>4, <1>5, <2>1 DEF Within
  <2>2. CASE n # name BY <1>4, <1>6, <2>2 DEF Valued, Within
  <2>. QED BY <2>1, <2>2
<1>8. Valued(w, h) BY <1>6, <1>7 DEF Valued
<1>9. Within(w, d) BY <1>7 DEF Within
<1>. QED BY <1>2, <1>8, <1>9 DEF h, w

-----------------------------------------------------------------------------
(* The values waited for after the three forms of a step: pop; pop and     *)
(* push one frame; pop and push two.                                       *)
LEMMA WaitsPop ==
    ASSUME TypeOK, Waits, todo # <<>>, Temps(f) \subseteq Temps(f'), Continue(<<>>),
           Top.k \in Producers => ret' \in Temps(f')
    PROVE  Waits'
<1>. DEFINE frames == <<>>
<1>0. frames \in Seq(Int) /\ Len(frames) = 0 /\ DOMAIN frames = {} BY EmptySeq
<1>1. frames \in Seq(Int) /\ Len(frames) - 1 = -1 /\ DOMAIN frames = {} BY <1>0
<1>2. todo # <<>> /\ Continue(frames) OBVIOUS
<1>. HIDE DEF frames
<1>. DEFINE n == Len(todo)
            t == todo'
            d == Len(frames) - 1
<1>3. /\ n \in Nat \ {0} /\ DOMAIN todo = 1 .. n /\ DOMAIN t = 1 .. n - 1
      /\ Top = todo[1] /\ \A i \in 2 .. n : t[i - 1] = todo[i]
  <2>1. /\ n \in Nat \ {0} /\ DOMAIN todo = 1 .. n /\ DOMAIN t = 1 .. n + d
        /\ Top = todo[1] /\ \A i \in 1 .. d + 1 : t[i] = frames[i]
        /\ \A i \in 2 .. n : t[i + d] = todo[i]
    BY <1>1, <1>2, After
  <2>2. d = -1 BY <1>1
  <2>. HIDE DEF n, t, frames, d
  <2>. QED BY <1>1, <2>1, <2>2
<1>. HIDE DEF n, t
<1>4. ASSUME NEW j \in DOMAIN t
      PROVE  /\ Holding(t[j], f')
             /\ t[j].k \in RootKinds => t[j].ts = <<>>
             /\ t[j].k \in Consumers =>
                   IF j = 1 THEN ret' \in Temps(f') ELSE t[j - 1].k \in Producers
  <2>1. j + 1 \in 2 .. n /\ j + 1 \in DOMAIN todo /\ t[j] = todo[j + 1] BY <1>3
  <2>2. /\ Holding(t[j], f')
        /\ t[j].k \in RootKinds => t[j].ts = <<>>
        /\ t[j].k \in Consumers => todo[j].k \in Producers
    BY <1>3, <2>1 DEF Waits, Holding
  <2>3. j # 1 => t[j - 1] = todo[j] BY <1>3
  <2>. QED BY <1>3, <2>2, <2>3
<1>. QED BY <1>4 DEF Waits, t, Holding

(* Waits after a step that pushes one frame.                               *)
LEMMA WaitsOne ==
    ASSUME TypeOK, Waits, todo # <<>>, Temps(f) \subseteq Temps(f'), NEW a,
           Continue(<<a>>), a.k \notin RootKinds, Holding(a, f'), a.k \notin Consumers,
           Top.k \in Producers => a.k \in Producers
    PROVE  Waits'
<1>. DEFINE frames == <<a>>
<1>1. frames \in Seq({a}) /\ Len(frames) - 1 = 0 /\ frames[1] = a OBVIOUS
<1>. DEFINE n == Len(todo)
            t == todo'
            d == Len(frames) - 1
<1>3. /\ n \in Nat \ {0} /\ DOMAIN todo = 1 .. n /\ DOMAIN t = 1 .. n
      /\ Top = todo[1] /\ t[1] = a /\ \A i \in 2 .. n : t[i] = todo[i]
  <2>1. /\ n \in Nat \ {0} /\ DOMAIN todo = 1 .. n /\ DOMAIN t = 1 .. n + d
        /\ Top = todo[1] /\ \A i \in 1 .. d + 1 : t[i] = frames[i]
        /\ \A i \in 2 .. n : t[i + d] = todo[i]
    BY <1>1, After
  <2>2. d = 0 BY <1>1
  <2>. HIDE DEF n, t, frames, d
  <2>. QED BY <1>1, <2>1, <2>2
<1>. HIDE DEF n, t
<1>4. ASSUME NEW j \in DOMAIN t
      PROVE  /\ Holding(t[j], f')
             /\ t[j].k \in RootKinds => t[j].ts = <<>>
             /\ t[j].k \in Consumers =>
                   IF j = 1 THEN ret' \in Temps(f') ELSE t[j - 1].k \in Producers
  <2>1. CASE j = 1 BY <1>3, <2>1
  <2>2. CASE j # 1
    <3>1. j \in 2 .. n /\ t[j] = todo[j] BY <1>3, <2>2
    <3>2. /\ Holding(t[j], f')
          /\ t[j].k \in RootKinds => t[j].ts = <<>>
          /\ t[j].k \in Consumers => todo[j - 1].k \in Producers
      BY <1>3, <2>2, <3>1 DEF Waits, Holding
    <3>3. j # 2 => t[j - 1] = todo[j - 1] BY <1>3, <3>1
    <3>. QED BY <1>3, <2>2, <3>2, <3>3
  <2>. QED BY <2>1, <2>2
<1>. QED BY <1>4 DEF Waits, t, Holding

(* Waits after a step that pushes two.                                     *)
LEMMA WaitsTwo ==
    ASSUME TypeOK, Waits, todo # <<>>, Temps(f) \subseteq Temps(f'), NEW a, NEW b,
           Continue(<<a, b>>), a.k \notin RootKinds, Holding(a, f'), b.k \notin RootKinds, Holding(b, f'),
           a.k \notin Consumers, Feeds(a, b), Top.k \in Producers => b.k \in Producers
    PROVE  Waits'
<1>. DEFINE frames == <<a, b>>
<1>1. frames \in Seq({a, b}) /\ Len(frames) - 1 = 1 /\ frames[1] = a /\ frames[2] = b OBVIOUS
<1>. DEFINE n == Len(todo)
            t == todo'
            d == Len(frames) - 1
<1>3. /\ n \in Nat \ {0} /\ DOMAIN todo = 1 .. n /\ DOMAIN t = 1 .. n + 1
      /\ Top = todo[1] /\ t[1] = a /\ t[2] = b /\ \A i \in 2 .. n : t[i + 1] = todo[i]
  <2>1. /\ n \in Nat \ {0} /\ DOMAIN todo = 1 .. n /\ DOMAIN t = 1 .. n + d
        /\ Top = todo[1] /\ \A i \in 1 .. d + 1 : t[i] = frames[i]
        /\ \A i \in 2 .. n : t[i + d] = todo[i]
    BY <1>1, After
  <2>2. d = 1 BY <1>1
  <2>. HIDE DEF n, t, frames, d
  <2>. QED BY <1>1, <2>1, <2>2
<1>. HIDE DEF n, t
<1>4. ASSUME NEW j \in DOMAIN t
      PROVE  /\ Holding(t[j], f')
             /\ t[j].k \in RootKinds => t[j].ts = <<>>
             /\ t[j].k \in Consumers =>
                   IF j = 1 THEN ret' \in Temps(f') ELSE t[j - 1].k \in Producers
  <2>1. CASE j = 1 BY <1>3, <2>1
  <2>2. CASE j = 2 BY <1>3, <2>2 DEF Feeds
  <2>3. CASE j # 1 /\ j # 2
    <3>1. j - 1 \in 2 .. n /\ t[j] = todo[j - 1] BY <1>3, <2>3
    <3>2. /\ Holding(t[j], f')
          /\ t[j].k \in RootKinds => t[j].ts = <<>>
          /\ t[j].k \in Consumers => todo[j - 1 - 1].k \in Producers
      BY <1>3, <3>1 DEF Waits, Holding
    <3>3. j # 3 => t[j - 1] = todo[j - 1 - 1] BY <1>3, <3>1
    <3>. QED BY <1>3, <2>3, <3>1, <3>2, <3>3
  <2>. QED BY <2>1, <2>2, <2>3
<1>. QED BY <1>4 DEF Waits, t, Holding

-----------------------------------------------------------------------------
(* A calm step keeps the number of blocks.                                 *)
LEMMA CalmDepths ==
    ASSUME TypeOK, Depths, Calm, NEW S, NEW frames \in Seq(S), Continue(frames),
           \A j \in DOMAIN frames : frames[j].k # "block"
    PROVE  Depths'
<1>1. todo # <<>> /\ Top.k # "block" BY DEF Calm
<1>2. Blocks(frames) = {} BY DEF Blocks
<1>3. Cardinality(Blocks(frames)) = 0 BY <1>2, FS_EmptySet
<1>4. Cardinality(Blocks(todo')) = Cardinality(Blocks(todo)) BY <1>1, <1>3, BlocksAfter
<1>5. Blocks(todo)' = Blocks(todo') BY DEF Blocks
<1>. QED BY <1>4, <1>5 DEF Depths, Calm, Within

(* What is left to show of a calm step.                                    *)
LEMMA CalmVInv ==
    ASSUME Calm, Waits', Depths' PROVE VInv'
<1>1. Valued(g_vars, f)' BY DEF Calm, Valued, Registered, Assigned
<1>. QED BY <1>1 DEF VInv

(* The same for a calm step, which keeps the depth, too.                   *)
LEMMA CalmPop ==
    ASSUME TypeOK, VInv, Calm, Continue(<<>>), Top.k \in Producers => ret' \in Temps(f')
    PROVE  VInv'
<1>1. <<>> \in Seq(Int) /\ DOMAIN <<>> = {} BY EmptySeq
<1>2. Depths' BY <1>1, CalmDepths DEF VInv
<1>3. Temps(f) \subseteq Temps(f') BY GrowsTemps DEF Calm
<1>4. Waits' BY <1>3, WaitsPop DEF VInv, Calm
<1>. QED BY <1>2, <1>4, CalmVInv

(* A frame that a calm step pushes.                                        *)
Pushable(fr) == fr.k \notin RootKinds \cup {"block"} /\ Holding(fr, f')

(* A calm step that pushes one frame.                                      *)
LEMMA CalmOne ==
    ASSUME TypeOK, VInv, Calm, NEW a, Continue(<<a>>), Pushable(a), a.k \notin Consumers,
           Top.k \in Producers => a.k \in Producers
    PROVE  VInv'
<1>1. <<a>> \in Seq({a}) /\ \A j \in DOMAIN <<a>> : <<a>>[j] = a OBVIOUS
<1>2. Depths' BY <1>1, CalmDepths DEF VInv, Pushable
<1>3. Temps(f) \subseteq Temps(f') BY GrowsTemps DEF Calm
<1>4. Waits' BY <1>3, WaitsOne DEF VInv, Calm, Pushable
<1>. QED BY <1>2, <1>4, CalmVInv

(* A calm step that pushes two.                                            *)
LEMMA CalmTwo ==
    ASSUME TypeOK, VInv, Calm, NEW a, NEW b, Continue(<<a, b>>), Pushable(a), Pushable(b),
           a.k \notin Consumers, Feeds(a, b), Top.k \in Producers => b.k \in Producers
    PROVE  VInv'
<1>1. <<a, b>> \in Seq({a, b}) /\ \A j \in DOMAIN <<a, b>> : <<a, b>>[j] \in {a, b} OBVIOUS
<1>2. Depths' BY <1>1, CalmDepths DEF VInv, Pushable
<1>3. Temps(f) \subseteq Temps(f') BY GrowsTemps DEF Calm
<1>4. Waits' BY <1>3, WaitsTwo DEF VInv, Calm, Pushable
<1>. QED BY <1>2, <1>4, CalmVInv

-----------------------------------------------------------------------------
(* What the running activation finds.                                      *)
LEMMA Found ==
    ASSUME TypeOK, VInv, NEW k, On(k)
    PROVE  /\ todo # <<>> /\ Top.k = k /\ Top.n \in NodesOf[k] /\ Top.l \in Nat
           /\ Top.ts \in Seq(Int) /\ Holding(Top, f)
           /\ k = "apply" => Len(Top.ts) = 1 /\ Top.ts[1] \in Temps(f)
           /\ k \in Consumers => ret \in Temps(f)
           /\ f \in IrFunc /\ Valued(g_vars, f) /\ Within(g_vars, g_scope_depth)
<1>1. /\ todo # <<>> /\ Top.k = k /\ Top.n \in NodesOf[k] /\ Top.l \in Nat
      /\ Top.ts \in Seq(Int) /\ (k = "apply" => Len(Top.ts) = 1)
  BY OnStep
<1>2. todo \in Seq(GoodFrames) BY TypedStack DEF TypeInv
<1>3. 1 \in DOMAIN todo /\ Top = todo[1]
  <2>1. Len(todo) \in Nat /\ DOMAIN todo = 1 .. Len(todo) /\ Len(todo) # 0 /\ Head(todo) = todo[1]
    BY <1>1, <1>2, EmptySeq, LenProperties
  <2>. QED BY <2>1 DEF Top
<1>4. Holding(Top, f) /\ (k \in Consumers => ret \in Temps(f))
  BY <1>1, <1>3 DEF VInv, Waits
<1>5. k = "apply" => 1 \in DOMAIN Top.ts BY <1>1
<1>. QED BY <1>1, <1>4, <1>5 DEF VInv, Depths, Holding, TypeOK

(* A step that emits nothing, or emits and leaves the variables alone.     *)
LEMMA CalmEmits ==
    ASSUME TypeOK, VInv, todo # <<>>, Top.k \notin RootKinds \cup {"end", "block"},
           UNCHANGED scope, Grows(f, f')
    PROVE  Calm
<1>1. f \in IrFunc /\ Valued(g_vars, f) /\ Within(g_vars, g_scope_depth)
  BY DEF TypeOK, VInv, Depths
<1>2. g_vars' = g_vars /\ g_scope_depth' = g_scope_depth BY DEF scope
<1>3. Valued(g_vars, f') BY <1>1, ValuedGrows
<1>. QED BY <1>1, <1>2, <1>3 DEF Calm

(* A step that emits nothing is calm.                                      *)
LEMMA CalmSame ==
    ASSUME TypeOK, VInv, todo # <<>>, Top.k \notin RootKinds \cup {"end", "block"},
           UNCHANGED <<scope, f>>
    PROVE  Calm
<1>1. Grows(f, f') /\ UNCHANGED scope BY NewGrows DEF TypeOK
<1>. QED BY <1>1, CalmEmits

(* The frames the descent makes hold no temporaries at first.              *)
LEMMA FreshFrame ==
    ASSUME NEW k, k \notin RootKinds \cup {"block"}, NEW n, NEW l
    PROVE  /\ Pushable(Labelled(k, n, l)) /\ Labelled(k, n, l).k = k
           /\ Pushable(Frame(k, n)) /\ Frame(k, n).k = k
BY DEF Pushable, Labelled, Frame, Holding

-----------------------------------------------------------------------------
(* irb_emit_expr.                                                          *)
LEMMA LiteralValues ==
    ASSUME TypeOK, VInv, EmitLiteral PROVE VInv'
<1>1. On("expr") /\ Top.n.kind \in Literals BY DEF EmitLiteral, OnExpr
<1>2. /\ todo # <<>> /\ Top.k = "expr" /\ f \in IrFunc /\ Top.n \in Exprs
  BY <1>1, Found, NodesAt
<1>3. ir_lit(Top.n.kind, Top.n.value) \in Operand /\ Reads(ir_lit(Top.n.kind, Top.n.value), f)
  BY <1>1, <1>2, ExprNodes, ReadsOf
<1>4. Grows(f, f') /\ ret' \in Temps(f') BY <1>2, <1>3, MovGrows DEF EmitLiteral, Yield
<1>5. Calm BY <1>2, <1>4, CalmEmits DEF EmitLiteral, RootKinds
<1>. QED BY <1>4, <1>5, CalmPop DEF EmitLiteral

(* A name that is read.                                                    *)
LEMMA IdentValues ==
    ASSUME TypeOK, VInv, EmitIdent PROVE VInv'
<1>. DEFINE name == Top.n.name
<1>1. On("expr") /\ Top.n.kind = "ident" BY DEF EmitIdent, OnExpr
<1>2. /\ todo # <<>> /\ Top.k = "expr" /\ f \in IrFunc /\ Top.n \in Exprs
      /\ Valued(g_vars, f) /\ Within(g_vars, g_scope_depth)
  BY <1>1, Found, NodesAt
<1>3. name \in Names BY <1>1, <1>2, ExprNodes
<1>4. /\ ret' = vt_get(name) /\ f' = vt_get_func(name) /\ g_vars' = vt_get_vars(name)
      /\ g_scope_depth' = g_scope_depth
  BY DEF EmitIdent
<1>. HIDE DEF name
<1>5. /\ Grows(f, f') /\ ret' \in Temps(f') /\ Valued(g_vars', f')
      /\ Within(g_vars', g_scope_depth)
  BY <1>2, <1>3, <1>4, VtGetValued
<1>6. Calm BY <1>2, <1>4, <1>5 DEF Calm, RootKinds
<1>. QED BY <1>5, <1>6, CalmPop DEF EmitIdent

(* The (left) operand comes first.                                         *)
LEMMA OperandValues ==
    ASSUME TypeOK, VInv, EmitOperand PROVE VInv'
<1>. DEFINE k == Top.n.kind
            a == FirstOperand(Top.n)
            b == Frame(k, Top.n)
<1>1. On("expr") /\ k \in {"unary", "binary", "assign"} BY DEF EmitOperand, OnExpr
<1>2. todo # <<>> /\ Top.k = "expr" BY <1>1, Found
<1>3. \E e : a = Frame("expr", e) BY <1>1 DEF FirstOperand
<1>4. Pushable(a) /\ a.k = "expr" BY <1>3, FreshFrame DEF RootKinds
<1>5. Pushable(b) /\ b.k = k BY <1>1, FreshFrame DEF RootKinds
<1>6. Calm BY <1>2, CalmSame DEF EmitOperand, RootKinds
<1>7. Continue(<<a, b>>) BY DEF EmitOperand
<1>. HIDE DEF a, b
<1>. QED BY <1>1, <1>4, <1>5, <1>6, <1>7, CalmTwo DEF Feeds, Producers, Consumers

(* The unary operator.                                                     *)
LEMMA UnaryValues ==
    ASSUME TypeOK, VInv, emit_unary PROVE VInv'
<1>. DEFINE zero == ir_emit_mov(f, ir_lit("int", 0))
            z == ir_temp(LastTemp(zero))
            v == ir_temp(ret)
            neg == ir_emit_bin_like(zero, "sub", z, v)
            not == ir_emit_bin_like(zero, "eq", v, z)
<1>1. On("unary") BY DEF emit_unary
<1>2. todo # <<>> /\ Top.k = "unary" /\ f \in IrFunc /\ ret \in Temps(f)
  BY <1>1, Found DEF Consumers
<1>3. ir_lit("int", 0) \in Operand /\ Reads(ir_lit("int", 0), f) BY ReadsOf DEF Literals
<1>4. Grows(f, zero) /\ LastTemp(zero) \in Temps(zero) BY <1>2, <1>3, MovGrows
<1>5. zero \in IrFunc /\ ret \in Temps(zero) BY <1>2, <1>4, GrowsTemps DEF Grows
<1>. HIDE DEF zero
<1>6. z \in Operand /\ Reads(z, zero) /\ v \in Operand /\ Reads(v, zero) BY <1>4, <1>5, ReadsOf
<1>. HIDE DEF z, v
<1>7. /\ Grows(zero, neg) /\ LastTemp(neg) \in Temps(neg)
      /\ Grows(zero, not) /\ LastTemp(not) \in Temps(not)
  BY <1>5, <1>6, BinLikeGrows DEF ArithOps, RelOps
<1>. HIDE DEF neg, not
<1>8. \/ f' = neg /\ ret' = LastTemp(neg)
      \/ f' = not /\ ret' = LastTemp(not)
  BY DEF emit_unary, Yield, neg, not, zero, z, v
<1>9. Grows(zero, f') /\ ret' \in Temps(f') BY <1>7, <1>8
<1>10. Grows(f, f') BY <1>2, <1>4, <1>9, GrowsTwice
<1>11. Calm BY <1>2, <1>10, CalmEmits DEF emit_unary, RootKinds
<1>. QED BY <1>9, <1>11, CalmPop DEF emit_unary

(* The variable gets the value.                                            *)
LEMMA AssignValues ==
    ASSUME TypeOK, VInv, EmitAssign PROVE VInv'
<1>. DEFINE name == Top.n.name
            g == vt_get_func(name)
            v == vt_get_vars(name)
<1>1. On("assign") BY DEF EmitAssign
<1>2. /\ todo # <<>> /\ Top.k = "assign" /\ f \in IrFunc /\ ret \in Temps(f)
      /\ Top.n \in Exprs /\ Top.n.kind = "assign"
      /\ Valued(g_vars, f) /\ Within(g_vars, g_scope_depth)
  BY <1>1, Found, NodesAt DEF Consumers
<1>3. name \in Names BY <1>2, ExprNodes
<1>4. /\ f' = ir_register_local(g, name, ret) /\ g_vars' = [v EXCEPT ![name].temp = ret]
      /\ g_scope_depth' = g_scope_depth /\ ret' = ret
  BY DEF EmitAssign
<1>5. Grows(f, g) /\ Valued(v, g) /\ Within(v, g_scope_depth)
  BY <1>2, <1>3, VtGetValued
<1>6. GoodVars(v) BY <1>3, VtGet
<1>7. g \in IrFunc /\ ret \in Temps(g) BY <1>2, <1>5, GrowsTemps DEF Grows
<1>. HIDE DEF name, g, v
<1>8. v = [n \in DOMAIN v |-> v[n]] /\ \A n \in DOMAIN v : v[n] \in VarTemp BY <1>6 DEF GoodVars
<1>9. Grows(g, f') /\ Valued(g_vars', f') /\ Within(g_vars', g_scope_depth)
  BY <1>3, <1>4, <1>5, <1>7, <1>8, BindValued
<1>10. Grows(f, f') BY <1>2, <1>5, <1>9, GrowsTwice
<1>11. ret' \in Temps(f') BY <1>2, <1>4, <1>10, GrowsTemps
<1>12. Calm BY <1>2, <1>4, <1>9, <1>10 DEF Calm, RootKinds
<1>. QED BY <1>11, <1>12, CalmPop DEF EmitAssign

(* The right operand is next.                                              *)
LEMMA RightValues ==
    ASSUME TypeOK, VInv, EmitRight PROVE VInv'
<1>. DEFINE a == Frame("expr", Top.n.right)
            b == [Frame("apply", Top.n) EXCEPT !.ts = <<ret>>]
<1>1. On("binary") BY DEF EmitRight
<1>2. todo # <<>> /\ Top.k = "binary" /\ f \in IrFunc /\ ret \in Temps(f)
  BY <1>1, Found DEF Consumers
<1>3. Pushable(a) /\ a.k = "expr" BY FreshFrame DEF RootKinds
<1>4. b = [k |-> "apply", n |-> Top.n, l |-> 0, i |-> 1, ts |-> <<ret>>] BY DEF Frame, Labelled
<1>5. Continue(<<a, b>>) /\ f' = f BY DEF EmitRight
<1>. HIDE DEF a, b
<1>6. b.k = "apply" /\ b.ts = <<ret>> BY <1>4
<1>7. Pushable(b) BY <1>2, <1>5, <1>6 DEF Pushable, Holding, RootKinds
<1>8. Calm BY <1>2, CalmSame DEF EmitRight, RootKinds
<1>. QED BY <1>2, <1>3, <1>5, <1>6, <1>7, <1>8, CalmTwo DEF Feeds, Producers, Consumers

(* An arithmetic operator or a comparison.                                 *)
LEMMA BinCmpValues ==
    ASSUME TypeOK, VInv, EmitBinCmp PROVE VInv'
<1>1. On("apply") /\ Top.n.op \in ArithOps \cup RelOps BY DEF EmitBinCmp
<1>2. /\ todo # <<>> /\ Top.k = "apply" /\ f \in IrFunc
      /\ ret \in Temps(f) /\ Top.ts[1] \in Temps(f)
  BY <1>1, Found DEF Consumers
<1>3. /\ ir_temp(Top.ts[1]) \in Operand /\ Reads(ir_temp(Top.ts[1]), f)
      /\ ir_temp(ret) \in Operand /\ Reads(ir_temp(ret), f)
  BY <1>2, ReadsOf
<1>4. Grows(f, f') /\ ret' \in Temps(f')
  BY <1>1, <1>2, <1>3, BinLikeGrows DEF EmitBinCmp, Yield
<1>5. Calm BY <1>2, <1>4, CalmEmits DEF EmitBinCmp, RootKinds
<1>. QED BY <1>4, <1>5, CalmPop DEF EmitBinCmp

(* "and" skips its right operand.                                          *)
LEMMA BranchAndValues ==
    ASSUME TypeOK, VInv, BranchAnd PROVE VInv'
<1>. DEFINE l == f.label_count
            a == Frame("expr", Top.n.right)
            b == Labelled("and", Top.n, l)
            g == ir_new_labels(f, 2)
            c == ir_temp(Top.ts[1])
<1>1. On("apply") BY DEF BranchAnd
<1>2. todo # <<>> /\ Top.k = "apply" /\ f \in IrFunc /\ Top.ts[1] \in Temps(f) BY <1>1, Found
<1>3. Pushable(a) /\ a.k = "expr" /\ Pushable(b) /\ b.k = "and" BY FreshFrame DEF RootKinds
<1>4. Grows(f, g) /\ l \in Nat BY <1>2, NewGrows DEF IrFunc
<1>5. g \in IrFunc /\ Top.ts[1] \in Temps(g) BY <1>2, <1>4, GrowsTemps DEF Grows
<1>6. f' = ir_emit_brfalse(g, c, l) /\ Continue(<<a, b>>) /\ UNCHANGED scope BY DEF BranchAnd
<1>. HIDE DEF a, b, g, l
<1>7. c \in Operand /\ Reads(c, g) BY <1>5, ReadsOf
<1>8. Grows(g, f') BY <1>4, <1>5, <1>6, <1>7, FlowGrows
<1>9. Grows(f, f') BY <1>2, <1>4, <1>8, GrowsTwice
<1>10. Calm BY <1>2, <1>6, <1>9, CalmEmits DEF RootKinds
<1>. QED BY <1>2, <1>3, <1>6, <1>10, CalmTwo DEF Feeds, Producers, Consumers

(* "or" skips its right operand.                                           *)
LEMMA BranchOrValues ==
    ASSUME TypeOK, VInv, BranchOr PROVE VInv'
<1>. DEFINE l == f.label_count
            a == Frame("expr", Top.n.right)
            b == Labelled("or", Top.n, l)
            g == ir_new_labels(f, 3)
            c == ir_temp(Top.ts[1])
            skip == ir_emit_brfalse(g, c, l + 2)
            br == ir_emit_br(skip, l)
<1>1. On("apply") BY DEF BranchOr
<1>2. todo # <<>> /\ Top.k = "apply" /\ f \in IrFunc /\ Top.ts[1] \in Temps(f) BY <1>1, Found
<1>3. Pushable(a) /\ a.k = "expr" /\ Pushable(b) /\ b.k = "or" BY FreshFrame DEF RootKinds
<1>4. Grows(f, g) /\ l \in Nat /\ l + 2 \in Nat BY <1>2, NewGrows DEF IrFunc
<1>5. g \in IrFunc /\ Top.ts[1] \in Temps(g) BY <1>2, <1>4, GrowsTemps DEF Grows
<1>6. f' = ir_emit_label(br, l + 2) /\ Continue(<<a, b>>) /\ UNCHANGED scope BY DEF BranchOr
<1>. HIDE DEF a, b, g
<1>7. c \in Operand /\ Reads(c, g) BY <1>5, ReadsOf
<1>8. Grows(g, skip) BY <1>4, <1>5, <1>7, FlowGrows
<1>9. skip \in IrFunc BY <1>8 DEF Grows
<1>. HIDE DEF l, skip
<1>10. Grows(skip, br) BY <1>4, <1>9, ReadsOf, Blanks, FlowGrows
<1>11. br \in IrFunc BY <1>10 DEF Grows
<1>. HIDE DEF br
<1>12. Grows(br, f') BY <1>4, <1>6, <1>11, ReadsOf, Blanks, FlowGrows
<1>13. Grows(f, f') BY <1>2, <1>4, <1>5, <1>8, <1>9, <1>10, <1>12, GrowsTwice
<1>14. Calm BY <1>2, <1>6, <1>13, CalmEmits DEF RootKinds
<1>. QED BY <1>2, <1>3, <1>6, <1>14, CalmTwo DEF Feeds, Producers, Consumers

(* The result of "and" and "or".                                           *)
LEMMA ShortCircuitValues ==
    ASSUME TypeOK, VInv, NEW k \in {"and", "or"}, NEW constant \in Int,
           EmitShortCircuit(k, constant)
    PROVE  VInv'
<1>. DEFINE l == Top.l
            tres == ir_emit_mov(f, ir_temp(ret))
            br == ir_emit_br(tres, l + 1)
            other == ir_emit_label(br, l)
            lit == ir_lit("int", constant)
            mov == ir_emit_mov(other, lit)
<1>1. On(k) BY DEF EmitShortCircuit
<1>2. todo # <<>> /\ Top.k = k /\ f \in IrFunc /\ ret \in Temps(f) /\ l \in Nat /\ l + 1 \in Nat
  BY <1>1, Found DEF Consumers
<1>3. f' = ir_emit_label(mov, l + 1) /\ ret' = LastTemp(tres) /\ Continue(<<>>) /\ UNCHANGED scope
  BY DEF EmitShortCircuit
<1>4. ir_temp(ret) \in Operand /\ Reads(ir_temp(ret), f) BY <1>2, ReadsOf
<1>5. Grows(f, tres) /\ LastTemp(tres) \in Temps(tres) BY <1>2, <1>4, MovGrows
<1>6. tres \in IrFunc BY <1>5 DEF Grows
<1>. HIDE DEF l, tres
<1>7. Grows(tres, br) BY <1>2, <1>6, ReadsOf, Blanks, FlowGrows
<1>8. br \in IrFunc BY <1>7 DEF Grows
<1>. HIDE DEF br
<1>9. Grows(br, other) BY <1>2, <1>8, ReadsOf, Blanks, FlowGrows
<1>10. other \in IrFunc BY <1>9 DEF Grows
<1>. HIDE DEF other
<1>11. lit \in Operand /\ Reads(lit, other) BY ReadsOf DEF Literals
<1>. HIDE DEF lit
<1>12. Grows(other, mov) BY <1>10, <1>11, MovGrows
<1>13. mov \in IrFunc BY <1>12 DEF Grows
<1>. HIDE DEF mov
<1>14. Grows(mov, f') BY <1>2, <1>3, <1>13, ReadsOf, Blanks, FlowGrows
<1>15. Grows(tres, f') BY <1>6, <1>7, <1>8, <1>9, <1>10, <1>12, <1>14, GrowsTwice
<1>16. Grows(f, f') BY <1>2, <1>5, <1>15, GrowsTwice
<1>17. ret' \in Temps(f') BY <1>3, <1>5, <1>6, <1>15, GrowsTemps
<1>18. Calm BY <1>2, <1>3, <1>16, CalmEmits DEF RootKinds
<1>. QED BY <1>3, <1>17, <1>18, CalmPop

(* Calls.                                                                  *)
LEMMA CallNoArgsValues ==
    ASSUME TypeOK, VInv, CallNoArgs PROVE VInv'
<1>1. On("expr") /\ Top.n.kind = "call" BY DEF CallNoArgs, OnExpr
<1>2. todo # <<>> /\ Top.k = "expr" /\ f \in IrFunc /\ Top.n \in Exprs BY <1>1, Found, NodesAt
<1>3. Top.n.name \in Names BY <1>1, <1>2, ExprNodes
<1>4. <<>> \in Seq(Int) /\ \A m \in DOMAIN <<>> : <<>>[m] \in Temps(f) BY EmptySeq
<1>5. Grows(f, f') /\ ret' \in Temps(f')
  BY <1>2, <1>3, <1>4, CallGrows DEF CallNoArgs, Yield
<1>6. Calm BY <1>2, <1>5, CalmEmits DEF CallNoArgs, RootKinds
<1>. QED BY <1>5, <1>6, CalmPop DEF CallNoArgs

(* The first argument.                                                     *)
LEMMA FirstArgValues ==
    ASSUME TypeOK, VInv, FirstArg PROVE VInv'
<1>. DEFINE a == Frame("expr", Top.n.args[1])
            b == ArgFrame(Top.n, 1, <<>>)
<1>1. On("expr") BY DEF FirstArg, OnExpr
<1>2. todo # <<>> /\ Top.k = "expr" BY <1>1, Found
<1>3. Pushable(a) /\ a.k = "expr" BY FreshFrame DEF RootKinds
<1>4. Pushable(b) /\ b.k = "arg" BY DEF Pushable, ArgFrame, Holding, RootKinds
<1>5. Continue(<<a, b>>) BY DEF FirstArg
<1>6. Calm BY <1>2, CalmSame DEF FirstArg, RootKinds
<1>. HIDE DEF a, b
<1>. QED BY <1>2, <1>3, <1>4, <1>5, <1>6, CalmTwo DEF Feeds, Producers, Consumers

(* The arguments a call has collected, with the last one.                  *)
LEMMA ArgTemps ==
    ASSUME TypeOK, VInv, On("arg")
    PROVE  /\ Append(Top.ts, ret) \in Seq(Int)
           /\ \A m \in DOMAIN Append(Top.ts, ret) : Append(Top.ts, ret)[m] \in Temps(f)
<1>1. Top.ts \in Seq(Int) /\ Holding(Top, f) /\ ret \in Temps(f) BY Found DEF Consumers
<1>2. ret \in Int BY DEF TypeOK
<1>3. /\ DOMAIN Top.ts = 1 .. Len(Top.ts) /\ Len(Top.ts) \in Nat
      /\ Append(Top.ts, ret) \in Seq(Int)
      /\ DOMAIN Append(Top.ts, ret) = 1 .. Len(Top.ts) + 1
      /\ \A m \in 1 .. Len(Top.ts) : Append(Top.ts, ret)[m] = Top.ts[m]
      /\ Append(Top.ts, ret)[Len(Top.ts) + 1] = ret
  BY <1>1, <1>2, AppendProperties
<1>. QED BY <1>1, <1>3 DEF Holding

(* The next argument.                                                      *)
LEMMA NextArgValues ==
    ASSUME TypeOK, VInv, NextArg PROVE VInv'
<1>. DEFINE a == Frame("expr", Top.n.args[Top.i + 1])
            b == ArgFrame(Top.n, Top.i + 1, Append(Top.ts, ret))
<1>1. On("arg") BY DEF NextArg
<1>2. todo # <<>> /\ Top.k = "arg" BY <1>1, Found
<1>3. Pushable(a) /\ a.k = "expr" BY FreshFrame DEF RootKinds
<1>4. Continue(<<a, b>>) /\ f' = f BY DEF NextArg
<1>5. b.k = "arg" /\ b.ts = Append(Top.ts, ret) BY DEF ArgFrame
<1>6. Calm BY <1>2, CalmSame DEF NextArg, RootKinds
<1>. HIDE DEF a, b
<1>7. Pushable(b) BY <1>1, <1>4, <1>5, ArgTemps DEF Pushable, Holding, RootKinds
<1>. QED BY <1>2, <1>3, <1>4, <1>5, <1>6, <1>7, CalmTwo DEF Feeds, Producers, Consumers

(* The call, after its arguments.                                          *)
LEMMA CallValues ==
    ASSUME TypeOK, VInv, EmitCall PROVE VInv'
<1>1. On("arg") BY DEF EmitCall
<1>2. /\ todo # <<>> /\ Top.k = "arg" /\ f \in IrFunc /\ Top.n \in Exprs
      /\ Top.n.kind = "call"
  BY <1>1, Found, NodesAt
<1>3. Top.n.name \in Names BY <1>2, ExprNodes
<1>4. Grows(f, f') /\ ret' \in Temps(f')
  BY <1>1, <1>2, <1>3, ArgTemps, CallGrows DEF EmitCall, Yield
<1>5. Calm BY <1>2, <1>4, CalmEmits DEF EmitCall, RootKinds
<1>. QED BY <1>4, <1>5, CalmPop DEF EmitCall

(* Every step of an expression.                                            *)
LEMMA ExprValues ==
    ASSUME TypeOK, VInv, irb_emit_expr PROVE VInv'
<1>1. EmitAnd => VInv' BY ShortCircuitValues DEF EmitAnd
<1>2. EmitOr => VInv' BY ShortCircuitValues DEF EmitOr
<1>. QED BY <1>1, <1>2, LiteralValues, IdentValues, OperandValues, UnaryValues, AssignValues,
        RightValues, BinCmpValues, BranchAndValues, BranchOrValues, CallNoArgsValues,
        FirstArgValues, NextArgValues, CallValues
        DEF irb_emit_expr

-----------------------------------------------------------------------------
(* irb_emit_stmt.                                                          *)

(* The statements without code and without a block.                        *)
LEMMA SkipValues ==
    ASSUME TypeOK, VInv, SkipStmt PROVE VInv'
<1>1. On("stmt") BY DEF SkipStmt
<1>2. todo # <<>> /\ Top.k = "stmt" BY <1>1, Found
<1>3. Calm BY <1>2, CalmSame DEF SkipStmt, RootKinds
<1>. QED BY <1>2, <1>3, CalmPop DEF SkipStmt, Producers

(* An expression used as a statement.                                      *)
LEMMA ExprStmtValues ==
    ASSUME TypeOK, VInv, EmitExprStmt PROVE VInv'
<1>. DEFINE a == Frame("expr", IF Top.n.kind = "expr" THEN Top.n.expr ELSE Top.n)
<1>1. On("stmt") BY DEF EmitExprStmt
<1>2. todo # <<>> /\ Top.k = "stmt" BY <1>1, Found
<1>3. Pushable(a) /\ a.k = "expr" BY FreshFrame DEF RootKinds
<1>4. Calm BY <1>2, CalmSame DEF EmitExprStmt, RootKinds
<1>5. Continue(<<a>>) BY DEF EmitExprStmt
<1>. HIDE DEF a
<1>. QED BY <1>2, <1>3, <1>4, <1>5, CalmOne DEF Producers, Consumers

(* A declaration enters and registers the variable.                        *)
LEMMA DeclValues ==
    ASSUME TypeOK, VInv, EmitDecl PROVE VInv'
<1>. DEFINE name == Top.n.name
            g == vt_get_func(name)
            v == vt_get_vars(name)
            t == vt_get(name)
            a == Frame("expr", Top.n.init)
            b == Frame("init", Top.n)
<1>1. On("stmt") /\ Top.n.kind = "decl" BY DEF EmitDecl, OnStmt
<1>2. /\ todo # <<>> /\ Top.k = "stmt" /\ f \in IrFunc
      /\ Valued(g_vars, f) /\ Within(g_vars, g_scope_depth)
  BY <1>1, Found
<1>3. Top.n \in Stmts /\ Top.n.kind = "decl" BY StmtStep DEF EmitDecl
<1>4. name \in Names BY <1>1, <1>3, StmtNodes
<1>5. /\ f' = ir_register_local(g, name, t) /\ g_vars' = v /\ g_scope_depth' = g_scope_depth
      /\ Continue(IF Top.n.init = NullNode THEN <<>> ELSE <<a, b>>)
  BY DEF EmitDecl
<1>6. /\ Grows(f, g) /\ t \in Temps(g) /\ Valued(v, g) /\ Within(v, g_scope_depth)
  BY <1>2, <1>4, VtGetValued
<1>7. Pushable(a) /\ a.k = "expr" /\ Pushable(b) /\ b.k = "init" BY FreshFrame DEF RootKinds
<1>. HIDE DEF name, g, v, t, a, b
<1>8. g \in IrFunc /\ t \in Int BY <1>6 DEF Grows, Temps
<1>9. Grows(g, f') BY <1>4, <1>5, <1>8, RegisterGrows
<1>10. Grows(f, f') BY <1>2, <1>6, <1>9, GrowsTwice
<1>11. Valued(g_vars', f') BY <1>5, <1>6, <1>8, <1>9, ValuedGrows
<1>12. Calm BY <1>2, <1>5, <1>6, <1>10, <1>11 DEF Calm, RootKinds
<1>13. CASE Top.n.init = NullNode BY <1>2, <1>5, <1>12, <1>13, CalmPop DEF Producers
<1>14. CASE Top.n.init # NullNode
  BY <1>2, <1>5, <1>7, <1>12, <1>14, CalmTwo DEF Feeds, Producers, Consumers
<1>. QED BY <1>13, <1>14

(* The initial value of a variable.                                        *)
LEMMA InitValues ==
    ASSUME TypeOK, VInv, EmitInit PROVE VInv'
<1>. DEFINE name == Top.n.name
<1>1. On("init") BY DEF EmitInit
<1>2. /\ todo # <<>> /\ Top.k = "init" /\ f \in IrFunc /\ ret \in Temps(f)
      /\ Top.n \in Stmts /\ Top.n.kind = "decl"
      /\ Valued(g_vars, f) /\ Within(g_vars, g_scope_depth)
  BY <1>1, Found, NodesAt DEF Consumers
<1>3. name \in Names BY <1>2, StmtNodes
<1>4. /\ f' = ir_register_local(f, name, ret) /\ g_vars' = [g_vars EXCEPT ![name].temp = ret]
      /\ g_scope_depth' = g_scope_depth
  BY DEF EmitInit
<1>. HIDE DEF name
<1>5. g_vars = [n \in DOMAIN g_vars |-> g_vars[n]] /\ \A n \in DOMAIN g_vars : g_vars[n] \in VarTemp
  BY DEF TypeOK
<1>6. Grows(f, f') /\ Valued(g_vars', f') /\ Within(g_vars', g_scope_depth)
  BY <1>2, <1>3, <1>4, <1>5, BindValued
<1>7. Calm BY <1>2, <1>4, <1>6 DEF Calm, RootKinds
<1>. QED BY <1>2, <1>7, CalmPop DEF EmitInit, Producers

(* if, while, for.                                                         *)
LEMMA IfValues ==
    ASSUME TypeOK, VInv, EmitIf PROVE VInv'
<1>. DEFINE a == Frame("expr", Top.n.cond)
            b == Labelled("then", Top.n, f.label_count)
<1>1. On("stmt") BY DEF EmitIf, OnStmt
<1>2. todo # <<>> /\ Top.k = "stmt" /\ f \in IrFunc BY <1>1, Found
<1>3. Pushable(a) /\ a.k = "expr" /\ Pushable(b) /\ b.k = "then" BY FreshFrame DEF RootKinds
<1>4. Grows(f, f') BY <1>2, NewGrows DEF EmitIf
<1>5. Continue(<<a, b>>) BY DEF EmitIf
<1>6. Calm BY <1>2, <1>4, CalmEmits DEF EmitIf, RootKinds
<1>. HIDE DEF a, b
<1>. QED BY <1>2, <1>3, <1>5, <1>6, CalmTwo DEF Feeds, Producers, Consumers

(* The branch of an "if".                                                  *)
LEMMA ThenValues ==
    ASSUME TypeOK, VInv, EmitThen PROVE VInv'
<1>. DEFINE a == Frame("stmt", Top.n.then)
            b == Labelled("else", Top.n, Top.l)
<1>1. On("then") BY DEF EmitThen
<1>2. todo # <<>> /\ Top.k = "then" /\ f \in IrFunc /\ ret \in Temps(f) /\ Top.l \in Nat
  BY <1>1, Found DEF Consumers
<1>3. Pushable(a) /\ a.k = "stmt" /\ Pushable(b) /\ b.k = "else" BY FreshFrame DEF RootKinds
<1>4. Grows(f, f') BY <1>2, ReadsOf, FlowGrows DEF EmitThen
<1>5. Continue(<<a, b>>) BY DEF EmitThen
<1>6. Calm BY <1>2, <1>4, CalmEmits DEF EmitThen, RootKinds
<1>. HIDE DEF a, b
<1>. QED BY <1>2, <1>3, <1>5, <1>6, CalmTwo DEF Feeds, Producers, Consumers

(* Its other branch.                                                       *)
LEMMA ElseValues ==
    ASSUME TypeOK, VInv, EmitElse PROVE VInv'
<1>. DEFINE a == Frame("stmt", Top.n.else)
            b == Labelled("endif", Top.n, Top.l)
            br == ir_emit_br(f, Top.l + 1)
<1>1. On("else") BY DEF EmitElse
<1>2. todo # <<>> /\ Top.k = "else" /\ f \in IrFunc /\ Top.l \in Nat /\ Top.l + 1 \in Nat
  BY <1>1, Found
<1>3. Pushable(a) /\ a.k = "stmt" /\ Pushable(b) /\ b.k = "endif" BY FreshFrame DEF RootKinds
<1>4. Grows(f, br) BY <1>2, Blanks, ReadsOf, FlowGrows
<1>5. br \in IrFunc /\ f' = ir_emit_label(br, Top.l) BY <1>4 DEF EmitElse, Grows
<1>6. Grows(br, f') BY <1>2, <1>5, Blanks, ReadsOf, FlowGrows
<1>7. Grows(f, f') BY <1>2, <1>4, <1>6, GrowsTwice
<1>8. Continue(<<a, b>>) BY DEF EmitElse
<1>9. Calm BY <1>2, <1>7, CalmEmits DEF EmitElse, RootKinds
<1>. HIDE DEF a, b
<1>. QED BY <1>2, <1>3, <1>8, <1>9, CalmTwo DEF Feeds, Producers, Consumers

(* The end of an "if".                                                     *)
LEMMA EndIfValues ==
    ASSUME TypeOK, VInv, EmitEndIf PROVE VInv'
<1>1. On("endif") BY DEF EmitEndIf
<1>2. todo # <<>> /\ Top.k = "endif" /\ f \in IrFunc /\ Top.l + 1 \in Nat BY <1>1, Found
<1>3. Grows(f, f') BY <1>2, Blanks, ReadsOf, FlowGrows DEF EmitEndIf
<1>4. Calm BY <1>2, <1>3, CalmEmits DEF EmitEndIf, RootKinds
<1>. QED BY <1>2, <1>4, CalmPop DEF EmitEndIf, Producers

(* The first part of a "for".                                              *)
LEMMA ForInitValues ==
    ASSUME TypeOK, VInv, EmitForInit PROVE VInv'
<1>. DEFINE a == Frame("stmt", Top.n.init)
            b == Frame("for", Top.n)
<1>1. On("stmt") BY DEF EmitForInit, OnStmt
<1>2. todo # <<>> /\ Top.k = "stmt" BY <1>1, Found
<1>3. Pushable(a) /\ a.k = "stmt" /\ Pushable(b) /\ b.k = "for" BY FreshFrame DEF RootKinds
<1>4. Continue(<<a, b>>) BY DEF EmitForInit
<1>5. Calm BY <1>2, CalmSame DEF EmitForInit, RootKinds
<1>. HIDE DEF a, b
<1>. QED BY <1>2, <1>3, <1>4, <1>5, CalmTwo DEF Feeds, Producers, Consumers

(* The head of a loop.                                                     *)
LEMMA LoopValues ==
    ASSUME TypeOK, VInv, EmitLoop PROVE VInv'
<1>. DEFINE l == f.label_count
            a == Frame("expr", Top.n.cond)
            b == Labelled("test", Top.n, l)
            g == ir_new_labels(f, 3)
<1>1. On("stmt") \/ On("for") BY DEF EmitLoop, OnStmt
<1>2. todo # <<>> /\ Top.k \in {"stmt", "for"} /\ f \in IrFunc BY <1>1, Found
<1>3. Pushable(a) /\ a.k = "expr" /\ Pushable(b) /\ b.k = "test" BY FreshFrame DEF RootKinds
<1>4. Grows(f, g) /\ l \in Nat BY <1>2, NewGrows DEF IrFunc
<1>5. g \in IrFunc BY <1>4 DEF Grows
<1>6. f' = ir_emit_label(g, l) /\ Continue(<<a, b>>) /\ UNCHANGED scope BY DEF EmitLoop
<1>. HIDE DEF a, b, g, l
<1>7. Grows(g, f') BY <1>4, <1>5, <1>6, Blanks, ReadsOf, FlowGrows
<1>8. Grows(f, f') BY <1>2, <1>4, <1>7, GrowsTwice
<1>9. Calm BY <1>2, <1>6, <1>8, CalmEmits DEF RootKinds
<1>. QED BY <1>2, <1>3, <1>6, <1>9, CalmTwo DEF Feeds, Producers, Consumers

(* The condition of a loop.                                                *)
LEMMA TestValues ==
    ASSUME TypeOK, VInv, EmitTest PROVE VInv'
<1>. DEFINE k == IF Top.n.kind = "for" THEN "step" ELSE "loop"
            a == Frame("stmt", Top.n.body)
            b == Labelled(k, Top.n, Top.l)
            br == ir_emit_brfalse(f, ir_temp(ret), Top.l + 2)
<1>1. On("test") BY DEF EmitTest
<1>2. /\ todo # <<>> /\ Top.k = "test" /\ f \in IrFunc /\ ret \in Temps(f)
      /\ Top.l + 1 \in Nat /\ Top.l + 2 \in Nat
  BY <1>1, Found DEF Consumers
<1>3. /\ Pushable(a) /\ a.k = "stmt" /\ Pushable(b) /\ b.k = k /\ k \in {"step", "loop"}
  BY FreshFrame DEF RootKinds
<1>4. Grows(f, br) BY <1>2, ReadsOf, FlowGrows
<1>5. br \in IrFunc /\ f' = ir_emit_label(br, Top.l + 1) BY <1>4 DEF EmitTest, Grows
<1>6. Grows(br, f') BY <1>2, <1>5, Blanks, ReadsOf, FlowGrows
<1>7. Grows(f, f') BY <1>2, <1>4, <1>6, GrowsTwice
<1>8. Continue(<<a, b>>) BY DEF EmitTest
<1>9. Calm BY <1>2, <1>7, CalmEmits DEF EmitTest, RootKinds
<1>. HIDE DEF a, b
<1>. QED BY <1>2, <1>3, <1>8, <1>9, CalmTwo DEF Feeds, Producers, Consumers

(* The last part of a "for".                                               *)
LEMMA StepValues ==
    ASSUME TypeOK, VInv, EmitStep PROVE VInv'
<1>. DEFINE a == Frame("stmt", Top.n.step)
            b == Labelled("loop", Top.n, Top.l)
<1>1. On("step") BY DEF EmitStep
<1>2. todo # <<>> /\ Top.k = "step" BY <1>1, Found
<1>3. Pushable(a) /\ a.k = "stmt" /\ Pushable(b) /\ b.k = "loop" BY FreshFrame DEF RootKinds
<1>4. Continue(<<a, b>>) BY DEF EmitStep
<1>5. Calm BY <1>2, CalmSame DEF EmitStep, RootKinds
<1>. HIDE DEF a, b
<1>. QED BY <1>2, <1>3, <1>4, <1>5, CalmTwo DEF Feeds, Producers, Consumers

(* The jump back to the head of a loop.                                    *)
LEMMA LoopEndValues ==
    ASSUME TypeOK, VInv, EmitLoopEnd PROVE VInv'
<1>. DEFINE br == ir_emit_br(f, Top.l)
<1>1. On("loop") BY DEF EmitLoopEnd
<1>2. todo # <<>> /\ Top.k = "loop" /\ f \in IrFunc /\ Top.l \in Nat /\ Top.l + 2 \in Nat
  BY <1>1, Found
<1>3. Grows(f, br) BY <1>2, Blanks, ReadsOf, FlowGrows
<1>4. br \in IrFunc /\ f' = ir_emit_label(br, Top.l + 2) BY <1>3 DEF EmitLoopEnd, Grows
<1>5. Grows(br, f') BY <1>2, <1>4, Blanks, ReadsOf, FlowGrows
<1>6. Grows(f, f') BY <1>2, <1>3, <1>5, GrowsTwice
<1>7. Calm BY <1>2, <1>6, CalmEmits DEF EmitLoopEnd, RootKinds
<1>. QED BY <1>2, <1>7, CalmPop DEF EmitLoopEnd, Producers

(* return.                                                                 *)
LEMMA ReturnVoidValues ==
    ASSUME TypeOK, VInv, ReturnVoid PROVE VInv'
<1>1. On("stmt") BY DEF ReturnVoid, OnStmt
<1>2. todo # <<>> /\ Top.k = "stmt" /\ f \in IrFunc BY <1>1, Found
<1>3. Grows(f, f') BY <1>2, Blanks, ReadsOf, FlowGrows DEF ReturnVoid
<1>4. Calm BY <1>2, <1>3, CalmEmits DEF ReturnVoid, RootKinds
<1>. QED BY <1>2, <1>4, CalmPop DEF ReturnVoid, Producers

(* "return" with a value.                                                  *)
LEMMA ReturnExprValues ==
    ASSUME TypeOK, VInv, ReturnExpr PROVE VInv'
<1>. DEFINE a == Frame("expr", Top.n.expr)
            b == Frame("return", Top.n)
<1>1. On("stmt") BY DEF ReturnExpr, OnStmt
<1>2. todo # <<>> /\ Top.k = "stmt" BY <1>1, Found
<1>3. Pushable(a) /\ a.k = "expr" /\ Pushable(b) /\ b.k = "return" BY FreshFrame DEF RootKinds
<1>4. Continue(<<a, b>>) BY DEF ReturnExpr
<1>5. Calm BY <1>2, CalmSame DEF ReturnExpr, RootKinds
<1>. HIDE DEF a, b
<1>. QED BY <1>2, <1>3, <1>4, <1>5, CalmTwo DEF Feeds, Producers, Consumers

(* The code of a "return" with a value.                                    *)
LEMMA ReturnValueValues ==
    ASSUME TypeOK, VInv, ReturnValue PROVE VInv'
<1>1. On("return") BY DEF ReturnValue
<1>2. todo # <<>> /\ Top.k = "return" /\ f \in IrFunc /\ ret \in Temps(f)
  BY <1>1, Found DEF Consumers
<1>3. Grows(f, f') BY <1>2, ReadsOf, FlowGrows DEF ReturnValue
<1>4. Calm BY <1>2, <1>3, CalmEmits DEF ReturnValue, RootKinds
<1>. QED BY <1>2, <1>4, CalmPop DEF ReturnValue, Producers

-----------------------------------------------------------------------------
(* Blocks: the depth follows the number of blocks.                         *)
LEMMA SameFunction ==
    ASSUME TypeOK, VInv, UNCHANGED f
    PROVE  Temps(f) \subseteq Temps(f') /\ Assigned(f')
BY DEF VInv, Valued

(* Fewer variables, or the same, in the same function.                     *)
LEMMA FewerValued ==
    ASSUME NEW g, NEW v, NEW w, Valued(v, g), DOMAIN w \subseteq DOMAIN v,
           \A n \in DOMAIN w : w[n] = v[n]
    PROVE  Valued(w, g)
BY DEF Valued

(* A block opens a scope.                                                  *)
LEMMA BlockValues ==
    ASSUME TypeOK, VInv, emit_block PROVE VInv'
<1>. DEFINE a == Frame("block", Top.n)
            frames == <<a>>
<1>1. On("stmt") BY DEF emit_block, OnStmt
<1>2. todo # <<>> /\ Top.k = "stmt" BY <1>1, Found
<1>3. a.k = "block" /\ a.ts = <<>> BY DEF Frame, Labelled
<1>4. /\ Continue(frames) /\ f' = f /\ g_vars' = g_vars
      /\ g_scope_depth' = g_scope_depth + 1
  BY DEF emit_block, irb_enter_scope
<1>5. g_scope_depth \in Nat /\ \A n \in DOMAIN g_vars : g_vars[n].depth \in Nat
  BY DEF TypeOK, VarTemp
<1>. HIDE DEF a
<1>6. Holding(a, f') /\ a.k \notin RootKinds /\ a.k \notin Consumers
  BY <1>3 DEF Holding, RootKinds, Consumers
<1>7. Waits' BY <1>2, <1>4, <1>6, SameFunction, WaitsOne DEF VInv, Producers
<1>8. Cardinality(Blocks(frames)) = 1
  <2>1. Blocks(frames) = {1} BY <1>3 DEF Blocks
  <2>. QED BY <2>1, FS_Singleton
<1>9. frames \in Seq({a}) OBVIOUS
<1>. HIDE DEF frames
<1>10. Cardinality(Blocks(todo')) = Cardinality(Blocks(todo)) + 1
  <2>1. /\ Cardinality(Blocks(todo')) = Cardinality(Blocks(todo)) - 0 + Cardinality(Blocks(frames))
        /\ Cardinality(Blocks(todo)) \in Nat
    BY <1>2, <1>4, <1>9, BlocksAfter
  <2>. QED BY <1>8, <2>1
<1>11. Blocks(todo)' = Blocks(todo') BY DEF Blocks
<1>12. Depths' BY <1>4, <1>5, <1>10, <1>11 DEF VInv, Depths, Within
<1>13. Valued(g_vars, f)' BY <1>4 DEF VInv, Valued, Registered, Assigned
<1>. QED BY <1>7, <1>12, <1>13 DEF VInv

(* A block goes on with its next statement.                                *)
LEMMA NextStmtValues ==
    ASSUME TypeOK, VInv, NextStmt PROVE VInv'
<1>. DEFINE a == Frame("stmt", Top.n.stmts[Top.i])
            b == [Top EXCEPT !.i = @ + 1]
            frames == <<a, b>>
<1>1. On("block") BY DEF NextStmt
<1>2. todo # <<>> /\ Top.k = "block" /\ Holding(Top, f) /\ Top \in GoodFrames
  BY <1>1, Found, OnStep
<1>3. a.k = "stmt" /\ a.ts = <<>> BY DEF Frame, Labelled
<1>4. b.k = "block" /\ b.ts = Top.ts BY <1>2 DEF GoodFrames, FrameType
<1>5. Continue(frames) /\ f' = f /\ g_vars' = g_vars /\ g_scope_depth' = g_scope_depth
  BY DEF NextStmt, scope
<1>. HIDE DEF a, b
<1>6. /\ Holding(a, f') /\ a.k \notin RootKinds /\ a.k \notin Consumers
      /\ Holding(b, f') /\ b.k \notin RootKinds /\ Feeds(a, b)
      /\ Top.k \notin Producers
  BY <1>2, <1>3, <1>4, <1>5 DEF Holding, RootKinds, Consumers, Producers, Feeds
<1>7. Waits' BY <1>2, <1>5, <1>6, SameFunction, WaitsTwo DEF VInv
<1>8. Cardinality(Blocks(frames)) = 1
  <2>1. Blocks(frames) = {2} BY <1>3, <1>4 DEF Blocks
  <2>. QED BY <2>1, FS_Singleton
<1>9. frames \in Seq({a, b}) OBVIOUS
<1>. HIDE DEF frames
<1>10. Cardinality(Blocks(todo')) = Cardinality(Blocks(todo))
  <2>1. /\ Cardinality(Blocks(todo')) = Cardinality(Blocks(todo)) - 1 + Cardinality(Blocks(frames))
        /\ Cardinality(Blocks(todo)) \in Nat
    BY <1>2, <1>5, <1>9, BlocksAfter
  <2>. QED BY <1>8, <2>1
<1>11. Blocks(todo)' = Blocks(todo') BY DEF Blocks
<1>12. Depths' BY <1>5, <1>10, <1>11 DEF VInv, Depths, Within
<1>13. Valued(g_vars, f)' BY <1>5 DEF VInv, Valued, Registered, Assigned
<1>. QED BY <1>7, <1>12, <1>13 DEF VInv

(* The variables of the block that ends are those of its depth.            *)
LEMMA LeaveBlockValues ==
    ASSUME TypeOK, VInv, LeaveBlock PROVE VInv'
<1>. DEFINE frames == <<>>
            d == g_scope_depth
<1>1. On("block") BY DEF LeaveBlock
<1>2. todo # <<>> /\ Top.k = "block" BY <1>1, Found
<1>3. Continue(frames) /\ f' = f BY DEF LeaveBlock
<1>4. /\ DOMAIN g_vars' = {m \in DOMAIN g_vars : g_vars[m].depth # d}
      /\ \A n \in DOMAIN g_vars' : g_vars'[n] = g_vars[n]
      /\ g_scope_depth' = IF d > 0 THEN d - 1 ELSE 0
  BY DEF LeaveBlock, irb_leave_scope
<1>5. d \in Nat /\ \A n \in DOMAIN g_vars : g_vars[n].depth \in Nat /\ g_vars[n].depth <= d
  BY DEF TypeOK, VarTemp, VInv, Depths, Within
<1>6. frames \in Seq(Int) /\ DOMAIN frames = {} BY EmptySeq
<1>7. Waits' BY <1>2, <1>3, SameFunction, WaitsPop DEF VInv, Producers
<1>. HIDE DEF frames
<1>8. Blocks(frames) = {} BY <1>6 DEF Blocks
<1>9. Cardinality(Blocks(todo')) = Cardinality(Blocks(todo)) - 1
  <2>1. /\ Cardinality(Blocks(todo')) = Cardinality(Blocks(todo)) - 1 + Cardinality(Blocks(frames))
        /\ Cardinality(Blocks(todo)) \in Nat
    BY <1>2, <1>3, <1>6, BlocksAfter
  <2>2. Cardinality(Blocks(frames)) = 0 BY <1>8, FS_EmptySet
  <2>. QED BY <2>1, <2>2
<1>10. d # 0
  <2>1. todo \in Seq(GoodFrames) BY TypedStack DEF TypeInv
  <2>2. 1 \in DOMAIN todo /\ Top = todo[1]
    BY <1>2, <2>1, EmptySeq, LenProperties DEF Top
  <2>3. Blocks(todo) # {} BY <1>2, <2>2 DEF Blocks
  <2>4. IsFiniteSet(Blocks(todo)) BY <1>2, <1>3, <1>6, BlocksAfter
  <2>. QED BY <2>3, <2>4, FS_EmptySet DEF VInv, Depths
<1>11. Blocks(todo)' = Blocks(todo') BY DEF Blocks
<1>12. d = Cardinality(Blocks(todo)) BY DEF VInv, Depths
<1>. HIDE DEF d
<1>13. g_scope_depth' = Cardinality(Blocks(todo')) /\ g_scope_depth' = d - 1
  BY <1>4, <1>5, <1>9, <1>10, <1>12
<1>14. \A n \in DOMAIN g_vars' : g_vars'[n].depth <= d - 1 BY <1>4, <1>5
<1>15. Depths' BY <1>11, <1>13, <1>14 DEF Depths, Within
<1>16. Valued(g_vars', f) BY <1>4, FewerValued DEF VInv
<1>17. Valued(g_vars, f)' BY <1>3, <1>16 DEF Valued, Registered, Assigned
<1>. QED BY <1>7, <1>15, <1>17 DEF VInv

(* Every step of a statement.                                              *)
LEMMA StmtValues ==
    ASSUME TypeOK, VInv, irb_emit_stmt PROVE VInv'
BY SkipValues, ExprStmtValues, BlockValues, NextStmtValues, LeaveBlockValues, DeclValues,
   InitValues, IfValues, ThenValues, ElseValues, EndIfValues, ForInitValues, LoopValues,
   TestValues, StepValues, LoopEndValues, ReturnVoidValues, ReturnExprValues,
   ReturnValueValues
   DEF irb_emit_stmt

-----------------------------------------------------------------------------
(* irb_build_program.                                                      *)

(* A stack at the bottom of which nothing waits and no block is open.      *)
LEMMA BottomVInv ==
    ASSUME TypeOK', \A j \in DOMAIN todo' : todo'[j].k \in RootKinds \cup {"end", "stmt"},
           \A j \in DOMAIN todo' : todo'[j].ts = <<>>,
           Valued(g_vars', f'), g_scope_depth' = 0, Within(g_vars', 0)
    PROVE  VInv'
<1>1. Waits' BY DEF Waits, Holding, RootKinds, Consumers
<1>2. Blocks(todo') = {} BY DEF Blocks, RootKinds
<1>3. Cardinality(Blocks(todo')) = 0 BY <1>2, FS_EmptySet
<1>4. Blocks(todo)' = Blocks(todo') BY DEF Blocks
<1>5. Depths' BY <1>3, <1>4 DEF Depths, Within
<1>6. Valued(g_vars, f)' BY DEF Valued, Registered, Assigned
<1>. QED BY <1>1, <1>5, <1>6 DEF VInv

(* The bottom of the stack holds no temporary, and no block is open there. *)
LEMMA AtBottom ==
    ASSUME IInv, VInv, NEW k \in RootKinds, On(k)
    PROVE  /\ Top.k = k /\ Top.ts = <<>> /\ Top \in GoodFrames
           /\ g_scope_depth = 0
           /\ \A fs \in Seq(GoodFrames) : Continue(fs) => todo' = fs
<1>1. todo # <<>> /\ Top.k = k /\ Top \in GoodFrames BY OnStep DEF IInv
<1>2. \A fs \in Seq(GoodFrames) : Continue(fs) => todo' = fs BY AtRoot DEF IInv
<1>3. todo \in Seq(GoodFrames) BY TypedStack DEF TypeInv, IInv
<1>4. Len(todo) \in Nat \ {0} /\ DOMAIN todo = 1 .. Len(todo) /\ Top = todo[1]
  BY <1>1, <1>3, EmptySeq, LenProperties DEF Top
<1>5. Len(todo) = 1 BY <1>1, <1>4 DEF IInv, Shape
<1>6. Top.ts = <<>> BY <1>1, <1>4 DEF VInv, Waits
<1>7. Blocks(todo) = {} BY <1>1, <1>4, <1>5 DEF Blocks, RootKinds
<1>8. g_scope_depth = 0 BY <1>7, FS_EmptySet DEF VInv, Depths
<1>. QED BY <1>1, <1>2, <1>6, <1>8

(* A function that begins has no code and no variables.                    *)
LEMMA BeginValued ==
    ASSUME NEW name, NEW type, NEW params, NEW h, h = ir_func_begin(name, type, params)
    PROVE  Valued(NoVars, h) /\ Within(NoVars, 0)
<1>1. h.code = <<>> BY DEF ir_func_begin
<1>2. DOMAIN NoVars = {} BY DEF NoVars
<1>. QED BY <1>1, <1>2 DEF Valued, Assigned, Within

(* A function begins.                                                      *)
LEMMA BeginFunctionValues ==
    ASSUME IInv, IInv', VInv, BeginFunction PROVE VInv'
<1>. DEFINE n == ast.stmts[Top.i]
            a == Frame("stmt", n.body)
            b == Frame("end", n)
            c == [Top EXCEPT !.i = @ + 1]
<1>1. On("functions") /\ RootNode({"function"}) BY DEF BeginFunction
<1>2. /\ Top.k = "functions" /\ Top.ts = <<>> /\ Top \in GoodFrames
      /\ \A fs \in Seq(GoodFrames) : Continue(fs) => todo' = fs
  BY <1>1, AtBottom DEF RootKinds
<1>3. n \in Stmts /\ n.kind = "function"
  <2>1. todo # <<>> BY <1>1 DEF On
  <2>. QED BY <1>1, <2>1, RootNodeStmt DEF IInv
<1>4. a \in GoodFrames /\ a.k = "stmt" /\ a.ts = <<>>
  BY <1>3, StmtNodes, StmtFrame DEF InnerFrames, Frame, Labelled
<1>5. b \in GoodFrames /\ b.k = "end" /\ b.ts = <<>>
  BY <1>3, NodesAt, FrameGood DEF Frame, Labelled, FrameKinds
<1>6. c \in GoodFrames /\ c.k = "functions" /\ c.ts = <<>>
  <2>1. todo # <<>> BY <1>1 DEF On
  <2>2. c \in GoodFrames /\ c.k = "functions" BY <1>2, <2>1, NextChild DEF IInv
  <2>3. c.ts = <<>> BY <1>2 DEF GoodFrames, FrameType
  <2>. QED BY <2>2, <2>3
<1>7. Continue(<<a, b, c>>) BY DEF BeginFunction
<1>8. f' = ir_func_begin(n.name, n.ret_type, param_types(n)) BY DEF BeginFunction
<1>. HIDE DEF a, b, c, n
<1>9. <<a, b, c>> \in Seq(GoodFrames) BY <1>4, <1>5, <1>6
<1>10. todo' = <<a, b, c>> BY <1>2, <1>7, <1>9
<1>11. \A j \in DOMAIN todo' : todo'[j] \in {a, b, c} BY <1>10
<1>12. g_vars' = NoVars /\ g_scope_depth' = 0 BY DEF BeginFunction, irb_reset_state
<1>13. Valued(g_vars', f') /\ Within(g_vars', 0) BY <1>8, <1>12, BeginValued
<1>. QED BY <1>4, <1>5, <1>6, <1>11, <1>12, <1>13, BottomVInv DEF IInv, RootKinds

(* _entry begins.                                                          *)
LEMMA BeginEntryValues ==
    ASSUME IInv, IInv', VInv, BeginEntry PROVE VInv'
<1>. DEFINE a == Frame("_entry", ast)
<1>1. On("functions") BY DEF BeginEntry
<1>2. \A fs \in Seq(GoodFrames) : Continue(fs) => todo' = fs BY <1>1, AtBottom DEF RootKinds
<1>3. ast \in Programs BY DEF IInv, TypeOK
<1>4. a \in GoodFrames /\ a.k = "_entry" /\ a.ts = <<>>
  BY <1>3, NodesAt, FrameGood DEF Frame, Labelled, FrameKinds
<1>5. Continue(<<a>>) BY DEF BeginEntry
<1>6. f' = ir_func_begin("_entry", "void", <<>>) BY DEF BeginEntry
<1>. HIDE DEF a
<1>7. <<a>> \in Seq(GoodFrames) BY <1>4
<1>8. todo' = <<a>> BY <1>2, <1>5, <1>7
<1>9. \A j \in DOMAIN todo' : todo'[j] = a BY <1>8
<1>10. g_vars' = NoVars /\ g_scope_depth' = 0 BY DEF BeginEntry, irb_reset_state
<1>11. Valued(g_vars', f') /\ Within(g_vars', 0) BY <1>6, <1>10, BeginValued
<1>. QED BY <1>4, <1>9, <1>10, <1>11, BottomVInv DEF IInv, RootKinds

(* The steps of irb_build_program that leave the variables alone.          *)
LEMMA RootStepValues ==
    ASSUME IInv, IInv', VInv, NEW k \in RootKinds, On(k), UNCHANGED scope, Valued(g_vars, f'),
           NEW frames \in Seq(GoodFrames), Continue(frames),
           \A j \in DOMAIN frames : /\ frames[j].k \in {k, "stmt"}
                                    /\ frames[j].ts = <<>>
    PROVE  VInv'
<1>1. g_scope_depth = 0 /\ todo' = frames BY AtBottom
<1>2. g_vars' = g_vars /\ g_scope_depth' = 0 BY <1>1 DEF scope
<1>3. Within(g_vars', 0) BY <1>1, <1>2 DEF VInv, Depths
<1>. QED BY <1>1, <1>2, <1>3, BottomVInv DEF IInv

(* A root node of the other pass.                                          *)
LEMMA SkipRootNodeValues ==
    ASSUME IInv, IInv', VInv, SkipRootNode PROVE VInv'
<1>. DEFINE c == [Top EXCEPT !.i = @ + 1]
<1>1. PICK k \in RootKinds : On(k) BY DEF SkipRootNode, RootKinds
<1>2. Top.k = k /\ Top.ts = <<>> /\ Top \in GoodFrames /\ todo # <<>>
  BY <1>1, AtBottom DEF On
<1>3. c \in GoodFrames /\ c.k = k BY <1>2, NextChild DEF IInv, RootKinds
<1>4. c.ts = <<>> BY <1>2 DEF GoodFrames, FrameType
<1>5. Continue(<<c>>) /\ UNCHANGED scope /\ f' = f BY DEF SkipRootNode
<1>. HIDE DEF c
<1>6. <<c>> \in Seq(GoodFrames) /\ \A j \in DOMAIN <<c>> : <<c>>[j] = c BY <1>3
<1>7. Valued(g_vars, f') BY <1>5 DEF VInv
<1>. QED BY <1>1, <1>3, <1>4, <1>5, <1>6, <1>7, RootStepValues

(* A root statement of _entry.                                             *)
LEMMA EntryStmtValues ==
    ASSUME IInv, IInv', VInv, EntryStmt PROVE VInv'
<1>. DEFINE a == Frame("stmt", ast.stmts[Top.i])
            c == [Top EXCEPT !.i = @ + 1]
<1>1. On("_entry") /\ RootNode(NotAFunction) BY DEF EntryStmt
<1>2. Top.k = "_entry" /\ Top.ts = <<>> /\ Top \in GoodFrames /\ todo # <<>>
  BY <1>1, AtBottom DEF On, RootKinds
<1>3. a \in GoodFrames /\ a.k = "stmt" /\ a.ts = <<>>
  BY <1>1, <1>2, RootNodeStmt, StmtFrame DEF IInv, InnerFrames, Frame, Labelled
<1>4. c \in GoodFrames /\ c.k = "_entry" BY <1>2, NextChild DEF IInv
<1>5. c.ts = <<>> BY <1>2 DEF GoodFrames, FrameType
<1>6. Continue(<<a, c>>) /\ UNCHANGED scope /\ f' = f BY DEF EntryStmt
<1>. HIDE DEF a, c
<1>7. <<a, c>> \in Seq(GoodFrames) /\ \A j \in DOMAIN <<a, c>> : <<a, c>>[j] \in {a, c}
  BY <1>3, <1>4
<1>8. Valued(g_vars, f') BY <1>6 DEF VInv
<1>9. "_entry" \in RootKinds BY DEF RootKinds
<1>. QED BY <1>1, <1>3, <1>4, <1>5, <1>6, <1>7, <1>8, <1>9, RootStepValues

(* _entry ends.                                                            *)
LEMMA EndEntryValues ==
    ASSUME IInv, IInv', VInv, EndEntry PROVE VInv'
<1>. DEFINE frames == <<>>
<1>1. On("_entry") BY DEF EndEntry
<1>2. f \in IrFunc /\ Valued(g_vars, f) BY DEF IInv, TypeOK, VInv
<1>3. Grows(f, f') BY <1>2, Blanks, ReadsOf, FlowGrows DEF EndEntry
<1>4. Valued(g_vars, f') BY <1>2, <1>3, ValuedGrows
<1>5. frames \in Seq(GoodFrames) /\ DOMAIN frames = {} BY EmptySeq
<1>6. Continue(frames) /\ UNCHANGED scope BY DEF EndEntry
<1>. HIDE DEF frames
<1>7. "_entry" \in RootKinds BY DEF RootKinds
<1>. QED BY <1>1, <1>4, <1>5, <1>6, <1>7, RootStepValues

(* The end of a function: what is below it is the bottom of the stack.     *)
LEMMA EndFunctionValues ==
    ASSUME IInv, IInv', VInv, EndFunction PROVE VInv'
<1>. DEFINE frames == <<>>
<1>1. On("end") BY DEF EndFunction
<1>2. todo # <<>> /\ Top.k = "end" BY <1>1, Found DEF IInv
<1>3. Continue(frames) /\ f' = f /\ g_vars' = g_vars /\ g_scope_depth' = g_scope_depth
  BY DEF EndFunction, scope
<1>4. frames \in Seq(Int) /\ DOMAIN frames = {} BY EmptySeq
<1>5. Waits' BY <1>2, <1>3, SameFunction, WaitsPop DEF VInv, IInv, Producers
<1>. HIDE DEF frames
<1>6. Blocks(frames) = {} BY <1>4 DEF Blocks
<1>7. Cardinality(Blocks(todo')) = Cardinality(Blocks(todo))
  <2>1. /\ Cardinality(Blocks(todo')) = Cardinality(Blocks(todo)) - 0 + Cardinality(Blocks(frames))
        /\ Cardinality(Blocks(todo)) \in Nat
    BY <1>2, <1>3, <1>4, BlocksAfter DEF IInv
  <2>2. Cardinality(Blocks(frames)) = 0 BY <1>6, FS_EmptySet
  <2>. QED BY <2>1, <2>2
<1>8. Blocks(todo)' = Blocks(todo') BY DEF Blocks
<1>9. Depths' BY <1>3, <1>7, <1>8 DEF VInv, Depths, Within
<1>10. Valued(g_vars, f)' BY <1>3 DEF VInv, Valued, Registered, Assigned
<1>. QED BY <1>5, <1>9, <1>10 DEF VInv

-----------------------------------------------------------------------------
(* The theorems.                                                           *)

(* Nothing waits before the first step.                                    *)
LEMMA InitValued == Init => VInv
<1>. SUFFICES ASSUME Init PROVE VInv OBVIOUS
<1>. DEFINE r == Frame("functions", ast)
<1>1. todo = <<r>> /\ g_vars = NoVars /\ g_scope_depth = 0 BY DEF Init
<1>2. r.k = "functions" /\ r.ts = <<>> BY DEF Frame, Labelled
<1>. HIDE DEF r
<1>3. DOMAIN todo = {1} /\ todo[1] = r BY <1>1
<1>4. Waits BY <1>2, <1>3 DEF Waits, Holding, RootKinds, Consumers
<1>5. Blocks(todo) = {} BY <1>2, <1>3 DEF Blocks
<1>6. Cardinality(Blocks(todo)) = 0 BY <1>5, FS_EmptySet
<1>7. Valued(g_vars, f) /\ Within(g_vars, 0) BY <1>1, BeginValued DEF Init
<1>8. Depths BY <1>1, <1>6, <1>7 DEF Depths
<1>. QED BY <1>4, <1>7, <1>8 DEF VInv

(* Every step keeps the four together.                                     *)
LEMMA NextValued == IInv /\ VInv /\ [Next]_vars => VInv'
<1>. SUFFICES ASSUME IInv, VInv, [Next]_vars PROVE VInv' OBVIOUS
<1>1. TypeOK BY DEF IInv
<1>2. IInv' BY NextIInv
<1>3. CASE irb_emit_expr BY <1>1, <1>3, ExprValues
<1>4. CASE irb_emit_stmt BY <1>1, <1>4, StmtValues
<1>5. CASE irb_build_program
  BY <1>2, <1>5, BeginFunctionValues, EndFunctionValues, SkipRootNodeValues,
     BeginEntryValues, EntryStmtValues, EndEntryValues
     DEF irb_build_program
<1>6. CASE UNCHANGED vars
  <2>1. UNCHANGED <<f, g_vars, g_scope_depth, todo, ret>> BY <1>6 DEF vars
  <2>. QED BY <2>1 DEF VInv, Waits, Valued, Depths, Within, Blocks, Assigned, Registered, Holding
<1>7. CASE Finish BY <1>6, <1>7 DEF Finish
<1>. QED BY <1>3, <1>4, <1>5, <1>6, <1>7 DEF Next

(* The two invariants hold together.                                       *)
LEMMA ValuesInvariant == Spec => [](IInv /\ VInv)
<1>1. Init => IInv /\ VInv BY InitIInv, InitValued
<1>2. (IInv /\ VInv) /\ [Next]_vars => (IInv /\ VInv)' BY NextIInv, NextValued
<1>. QED BY <1>1, <1>2, PTL DEF Spec

(* Whatever the tree: an activation that resumes with the result of        *)
(* irb_emit_expr resumes with a temporary of the function, never with -1,  *)
(* and so do the arguments collected for a call and every variable.        *)
THEOREM ValuesCorrect == Spec => []ValuesAvailable
<1>1. VInv => ValuesAvailable BY DEF VInv, Waits, Valued, ValuesAvailable, Holding
<1>. QED BY ValuesInvariant, <1>1, PTL

(* ir_new_temp is what makes a destination: in the code of every function, *)
(* however far it is built, destinations increase and an operand is        *)
(* defined above its use, or nowhere.                                      *)
THEOREM AssignmentCorrect == Spec => []SingleAssignment
<1>1. VInv => SingleAssignment
  <2>. SUFFICES ASSUME VInv PROVE SingleAssignment OBVIOUS
  <2>1. Assigned(f) BY DEF VInv, Valued
  <2>. QED BY <2>1 DEF Assigned, SingleAssignment
<1>. QED BY ValuesInvariant, <1>1, PTL

(* irb_enter_scope and irb_leave_scope are paired: the depth is the number *)
(* of open blocks, no variable is from a block that has been closed, and   *)
(* a function ends right above the bottom of the descent.                  *)
THEOREM ScopesCorrect == Spec => []ScopesBalanced
<1>1. IInv /\ VInv => ScopesBalanced
  BY DEF IInv, Shape, VInv, Depths, Within, Blocks, ScopesBalanced
<1>. QED BY ValuesInvariant, <1>1, PTL

(* The names codegen_js.c gives to temporaries: the current temporary of a *)
(* variable is registered under its name, or no instruction computes it.   *)
THEOREM NamesCorrect == Spec => []VariablesNamed
<1>1. VInv => VariablesNamed
  BY DEF VInv, Valued, Registered, VariablesNamed
<1>. QED BY ValuesInvariant, <1>1, PTL

-----------------------------------------------------------------------------
(* The whole program.                                                      *)

(* The functions of the first i root nodes are in funcs, in that order.    *)
Translated(i) ==
    /\ Len(funcs) = Cardinality(FunctionsIn(i))
    /\ \A j \in FunctionsIn(i) : funcs[Cardinality(FunctionsIn(j))].name = ast.stmts[j].name

(* The function at node i is under construction.                           *)
InFunction(i) ==
    /\ i \in 1 .. Len(ast.stmts) /\ ast.stmts[i].kind = "function" /\ f.name = ast.stmts[i].name
    /\ Translated(i - 1)

(* The two passes over the root block: irb_build_program is at the bottom  *)
(* of the stack and its i is the next node; when a function is open its    *)
(* end is right above, and f bears its name until it is appended.          *)
Passes ==
    LET n == Len(todo)
        i == todo[n].i
    IN  /\ todo # <<>> /\ todo[n].k = "functions" =>
              /\ i - 1 \in 0 .. Len(ast.stmts)
              /\ n = 1 => Translated(i - 1)
              /\ n > 1 => todo[n - 1].k = "end" /\ InFunction(i - 1)
        /\ todo # <<>> /\ todo[n].k = "_entry" =>
              /\ Translated(Len(ast.stmts)) /\ f.name = "_entry"
              /\ \A j \in DOMAIN todo : todo[j].k # "end"

(* The invariant: when todo is empty the property is what is left of it.   *)
PInv == Passes /\ ProgramComplete

(* One more node: the functions are as many, or one more and it is last.   *)
LEMMA NextNode ==
    ASSUME NEW i \in Nat
    PROVE  /\ IsFiniteSet(FunctionsIn(i)) /\ Cardinality(FunctionsIn(i)) \in Nat
           /\ \A j \in FunctionsIn(i) : j \in Nat /\ j <= i
           /\ ast.stmts[i + 1].kind # "function" => FunctionsIn(i + 1) = FunctionsIn(i)
           /\ ast.stmts[i + 1].kind = "function" =>
                 /\ FunctionsIn(i + 1) = FunctionsIn(i) \cup {i + 1}
                 /\ Cardinality(FunctionsIn(i + 1)) = Cardinality(FunctionsIn(i)) + 1
<1>1. IsFiniteSet(1 .. i) /\ FunctionsIn(i) \subseteq 1 .. i BY FS_Interval DEF FunctionsIn
<1>2. IsFiniteSet(FunctionsIn(i)) /\ Cardinality(FunctionsIn(i)) \in Nat
  BY <1>1, FS_Subset, FS_CardinalityType
<1>3. ASSUME ast.stmts[i + 1].kind # "function" PROVE FunctionsIn(i + 1) = FunctionsIn(i)
  BY <1>3 DEF FunctionsIn
<1>4. ASSUME ast.stmts[i + 1].kind = "function"
      PROVE  /\ FunctionsIn(i + 1) = FunctionsIn(i) \cup {i + 1}
             /\ Cardinality(FunctionsIn(i + 1)) = Cardinality(FunctionsIn(i)) + 1
  <2>1. FunctionsIn(i + 1) = FunctionsIn(i) \cup {i + 1} BY <1>4 DEF FunctionsIn
  <2>2. i + 1 \notin FunctionsIn(i) BY DEF FunctionsIn
  <2>. QED BY <1>2, <2>1, <2>2, FS_AddElement
<1>. QED BY <1>1, <1>2, <1>3, <1>4

(* A function of the first i nodes has a place among them.                 *)
LEMMA Ranked ==
    ASSUME NEW i \in Nat, NEW j \in FunctionsIn(i)
    PROVE  Cardinality(FunctionsIn(j)) \in 1 .. Cardinality(FunctionsIn(i))
<1>1. j \in 1 .. i /\ j \in FunctionsIn(j) /\ FunctionsIn(j) \subseteq FunctionsIn(i)
  BY DEF FunctionsIn
<1>2. /\ IsFiniteSet(FunctionsIn(i)) /\ Cardinality(FunctionsIn(i)) \in Nat
      /\ IsFiniteSet(FunctionsIn(j)) /\ Cardinality(FunctionsIn(j)) \in Nat
  BY <1>1, NextNode
<1>3. Cardinality(FunctionsIn(j)) <= Cardinality(FunctionsIn(i)) BY <1>1, <1>2, FS_Subset
<1>4. Cardinality(FunctionsIn(j)) # 0 BY <1>1, <1>2, FS_EmptySet
<1>. QED BY <1>2, <1>3, <1>4

(* The next node is no function, or the one that is appended.              *)
LEMMA TranslatedNext ==
    ASSUME NEW i \in Nat, Translated(i), UNCHANGED ast, funcs \in Seq(IrFunc), f \in IrFunc,
           \/ ast.stmts[i + 1].kind # "function" /\ funcs' = funcs
           \/ /\ ast.stmts[i + 1].kind = "function" /\ funcs' = Append(funcs, f)
              /\ f.name = ast.stmts[i + 1].name
    PROVE  Translated(i + 1)'
<1>1. \A m : FunctionsIn(m)' = FunctionsIn(m) BY DEF FunctionsIn
<1>2. CASE ast.stmts[i + 1].kind # "function" /\ funcs' = funcs
  BY <1>1, <1>2, NextNode DEF Translated
<1>3. CASE ast.stmts[i + 1].kind = "function" /\ funcs' = Append(funcs, f)
           /\ f.name = ast.stmts[i + 1].name
  <2>1. /\ FunctionsIn(i + 1) = FunctionsIn(i) \cup {i + 1}
        /\ Cardinality(FunctionsIn(i + 1)) = Cardinality(FunctionsIn(i)) + 1
    BY <1>3, NextNode
  <2>2. /\ Len(funcs) \in Nat /\ Len(funcs') = Len(funcs) + 1 /\ funcs'[Len(funcs) + 1] = f
        /\ \A m \in 1 .. Len(funcs) : funcs'[m] = funcs[m]
    BY <1>3, AppendProperties
  <2>3. Len(funcs) = Cardinality(FunctionsIn(i)) BY DEF Translated
  <2>4. ASSUME NEW j \in FunctionsIn(i + 1)
        PROVE  funcs'[Cardinality(FunctionsIn(j))].name = ast.stmts[j].name
    <3>1. CASE j = i + 1 BY <1>3, <2>1, <2>2, <2>3, <3>1
    <3>2. CASE j \in FunctionsIn(i)
      <4>1. Cardinality(FunctionsIn(j)) \in 1 .. Len(funcs) BY <2>3, <3>2, Ranked
      <4>. QED BY <2>2, <3>2, <4>1 DEF Translated
    <3>. QED BY <2>1, <2>4, <3>1, <3>2
  <2>. QED BY <1>1, <2>1, <2>2, <2>3, <2>4 DEF Translated
<1>. QED BY <1>2, <1>3

(* Nothing is translated that was not.                                     *)
LEMMA TranslatedStays ==
    ASSUME UNCHANGED <<ast, funcs>>, NEW i, Translated(i)
    PROVE  Translated(i)'
<1>1. \A m : FunctionsIn(m)' = FunctionsIn(m) BY DEF FunctionsIn
<1>. QED BY <1>1 DEF Translated

-----------------------------------------------------------------------------
(* The descent does not rename the function under construction.            *)
Bears(g, name) == "name" \in DOMAIN g /\ g.name = name

(* No operation on a function touches its name.                            *)
LEMMA BearsKept ==
    ASSUME NEW g, NEW name, Bears(g, name)
    PROVE  /\ Bears(ir_new_temp(g), name)
           /\ \A n : Bears(ir_new_labels(g, n), name)
           /\ \A ins : Bears(ir_push(g, ins), name)
           /\ \A m, t : Bears(ir_register_local(g, m, t), name)
BY DEF Bears, ir_new_temp, ir_new_labels, ir_push, ir_register_local

(* Nor do the operations that emit an instruction.                         *)
LEMMA BearsEmitted ==
    ASSUME NEW g, NEW name, Bears(g, name)
    PROVE  /\ \A l : Bears(ir_emit_label(g, l), name) /\ Bears(ir_emit_br(g, l), name)
           /\ \A c, l : Bears(ir_emit_brfalse(g, c, l), name)
           /\ \A c : Bears(ir_emit_ret(g, c), name) /\ Bears(ir_emit_mov(g, c), name)
           /\ \A op, a, b : Bears(ir_emit_bin_like(g, op, a, b), name)
           /\ \A m, ts : Bears(ir_emit_call(g, m, ts), name)
<1>1. Bears(ir_new_temp(g), name) /\ \A ins : Bears(ir_push(g, ins), name) BY BearsKept
<1>2. \A ins : Bears(ir_push(ir_new_temp(g), ins), name) BY <1>1, BearsKept
<1>. QED
  BY <1>1, <1>2 DEF ir_emit_label, ir_emit_br, ir_emit_brfalse, ir_emit_ret, ir_emit_mov,
     ir_emit_bin_like, ir_emit_call

(* A step of the descent leaves the name of f as it is.                    *)
LEMMA NameStays ==
    ASSUME NEW name, Bears(f, name), irb_emit_expr \/ irb_emit_stmt
    PROVE  Bears(f', name)
<1>1. \A m : Bears(vt_get_func(m), name) BY BearsKept DEF vt_get_func
<1>2. \A m, o, t : Bears(ir_register_local(vt_get_func(m), o, t), name) BY <1>1, BearsKept
<1>3. CASE EmitLiteral \/ EmitIdent \/ EmitOperand
  BY <1>1, <1>3, BearsEmitted DEF EmitLiteral, EmitIdent, EmitOperand, Yield
<1>4. CASE emit_unary
  <2>1. \A c : Bears(ir_emit_mov(f, c), name) BY BearsEmitted
  <2>2. \A c, op, a, b : Bears(ir_emit_bin_like(ir_emit_mov(f, c), op, a, b), name)
    BY <2>1, BearsEmitted
  <2>. QED BY <1>4, <2>2 DEF emit_unary, Yield
<1>5. CASE EmitAssign \/ EmitDecl \/ EmitInit
  BY <1>2, <1>5, BearsKept DEF EmitAssign, EmitDecl, EmitInit
<1>6. CASE EmitRight \/ EmitBinCmp \/ CallNoArgs \/ FirstArg \/ NextArg \/ EmitCall
  BY <1>6, BearsEmitted DEF EmitRight, EmitBinCmp, CallNoArgs, FirstArg, NextArg, EmitCall, Yield
<1>7. CASE BranchAnd \/ BranchOr
  <2>1. \A n : Bears(ir_new_labels(f, n), name) BY BearsKept
  <2>2. \A n, c, l : Bears(ir_emit_brfalse(ir_new_labels(f, n), c, l), name)
    BY <2>1, BearsEmitted
  <2>3. \A n, c, l, m : Bears(ir_emit_br(ir_emit_brfalse(ir_new_labels(f, n), c, l), m), name)
    BY <2>2, BearsEmitted
  <2>4. \A n, c, l, m, o :
          Bears(ir_emit_label(ir_emit_br(ir_emit_brfalse(ir_new_labels(f, n), c, l), m), o), name)
    BY <2>3, BearsEmitted
  <2>. QED BY <1>7, <2>2, <2>4 DEF BranchAnd, BranchOr
<1>8. ASSUME NEW k, NEW c, EmitShortCircuit(k, c) PROVE Bears(f', name)
  <2>. DEFINE tres  == ir_emit_mov(f, ir_temp(ret))
              br    == ir_emit_br(tres, Top.l + 1)
              other == ir_emit_label(br, Top.l)
              mov   == ir_emit_mov(other, ir_lit("int", c))
  <2>1. Bears(tres, name) BY BearsEmitted
  <2>2. Bears(br, name) BY <2>1, BearsEmitted
  <2>3. Bears(other, name) BY <2>2, BearsEmitted
  <2>4. Bears(mov, name) BY <2>3, BearsEmitted
  <2>5. f' = ir_emit_label(mov, Top.l + 1) BY <1>8 DEF EmitShortCircuit
  <2>. QED BY <2>4, <2>5, BearsEmitted
<1>9. CASE EmitAnd \/ EmitOr BY <1>8, <1>9 DEF EmitAnd, EmitOr
<1>10. CASE \/ SkipStmt \/ EmitExprStmt \/ emit_block \/ NextStmt \/ LeaveBlock
            \/ EmitForInit \/ EmitStep \/ ReturnExpr
  BY <1>10 DEF SkipStmt, EmitExprStmt, emit_block, NextStmt, LeaveBlock, EmitForInit, EmitStep,
     ReturnExpr
<1>11. CASE EmitIf \/ EmitThen \/ EmitEndIf \/ ReturnVoid \/ ReturnValue
  BY <1>11, BearsKept, BearsEmitted DEF EmitIf, EmitThen, EmitEndIf, ReturnVoid, ReturnValue
<1>12. CASE EmitElse \/ EmitLoopEnd
  <2>1. \A l : Bears(ir_emit_br(f, l), name) BY BearsEmitted
  <2>2. \A l, m : Bears(ir_emit_label(ir_emit_br(f, l), m), name) BY <2>1, BearsEmitted
  <2>. QED BY <1>12, <2>2 DEF EmitElse, EmitLoopEnd
<1>13. CASE EmitLoop
  <2>1. \A n : Bears(ir_new_labels(f, n), name) BY BearsKept
  <2>. QED BY <1>13, <2>1, BearsEmitted DEF EmitLoop
<1>14. CASE EmitTest
  <2>1. \A c, l : Bears(ir_emit_brfalse(f, c, l), name) BY BearsEmitted
  <2>. QED BY <1>14, <2>1, BearsEmitted DEF EmitTest
<1>. QED
  BY <1>3, <1>4, <1>5, <1>6, <1>7, <1>9, <1>10, <1>11, <1>12, <1>13, <1>14
     DEF irb_emit_expr, irb_emit_stmt

-----------------------------------------------------------------------------
(* The descent keeps the bottom of the stack, and the end above it.        *)
LEMMA BottomStays ==
    ASSUME TypeOK, Shape, todo # <<>>, Top.k \notin RootKinds \cup {"end"},
           NEW frames, Typed(frames)
    PROVE  /\ Len(todo) \in Nat /\ Len(todo) > 1 /\ Len(todo') \in Nat /\ Len(todo') > 0
           /\ todo'[Len(todo')] = todo[Len(todo)]
           /\ todo[Len(todo) - 1].k = "end" =>
                 Len(todo') > 1 /\ todo'[Len(todo') - 1] = todo[Len(todo) - 1]
           /\ todo[Len(todo) - 1].k # "end" /\ Len(todo') > 1 => todo'[Len(todo') - 1].k # "end"
           /\ (\A j \in DOMAIN todo : todo[j].k # "end")
                 => \A j \in DOMAIN todo' : todo'[j].k # "end"
<1>. DEFINE m == Len(frames)
            n == Len(todo)
            t == todo'
<1>1. todo \in Seq(GoodFrames) BY TypedStack DEF TypeInv
<1>2. frames \in Seq(GoodFrames) /\ t = frames \o Tail(todo) BY DEF Typed, Continue
<1>3. /\ n \in Nat \ {0} /\ m \in Nat /\ Len(t) = m + n - 1
      /\ DOMAIN todo = 1 .. n /\ DOMAIN frames = 1 .. m /\ DOMAIN t = 1 .. Len(t)
      /\ Head(todo) = todo[1]
      /\ \A i \in 1 .. m : t[i] = frames[i]
      /\ \A i \in m + 1 .. Len(t) : t[i] = todo[i - m + 1]
  BY <1>1, <1>2, Replaced
<1>4. \A i \in 1 .. m : t[i].k \notin RootKinds \cup {"end"} BY <1>3 DEF Typed, InnerFrames
<1>5. n # 1 BY <1>3 DEF Shape, Top
<1>6. todo[n - 1].k = "end" => n - 1 # 1 BY <1>3 DEF Top
<1>. HIDE DEF m, n, t
<1>7. t[Len(t)] = todo[n] BY <1>3, <1>5
<1>8. n - 1 # 1 => Len(t) - 1 \in m + 1 .. Len(t) /\ Len(t) - 1 - m + 1 = n - 1
  BY <1>3, <1>5
<1>9. n - 1 # 1 => Len(t) > 1 /\ t[Len(t) - 1] = todo[n - 1] BY <1>3, <1>5, <1>8
<1>10. n - 1 = 1 /\ Len(t) > 1 => t[Len(t) - 1].k # "end"
  <2>. SUFFICES ASSUME n - 1 = 1, Len(t) > 1 PROVE t[Len(t) - 1].k # "end" OBVIOUS
  <2>1. Len(t) - 1 \in 1 .. m BY <1>3
  <2>. QED BY <1>4, <2>1
<1>11. ASSUME \A j \in DOMAIN todo : todo[j].k # "end", NEW j \in DOMAIN t
       PROVE  t[j].k # "end"
  <2>1. CASE j \in 1 .. m BY <1>4, <2>1
  <2>2. CASE j \notin 1 .. m
    <3>1. j \in m + 1 .. Len(t) /\ j - m + 1 \in DOMAIN todo BY <1>3, <1>11, <2>2
    <3>. QED BY <1>3, <1>11, <3>1
  <2>. QED BY <2>1, <2>2
<1>. QED BY <1>3, <1>5, <1>6, <1>7, <1>9, <1>10, <1>11 DEF m, n, t

(* A step of the descent stays in the function it is in.                   *)
LEMMA InnerPasses ==
    ASSUME IInv, PInv, irb_emit_expr \/ irb_emit_stmt PROVE PInv'
<1>1. Advances BY ExprAdvances, StmtAdvances DEF IInv
<1>2. PICK frames, placed, P : Typed(frames) BY <1>1 DEF Advances
<1>3. todo # <<>> /\ UNCHANGED <<ast, funcs>> BY <1>2 DEF Typed, Around, unit
<1>4. Top.k \notin RootKinds \cup {"end"} BY InnerStep
<1>5. /\ Len(todo) \in Nat /\ Len(todo) > 1 /\ Len(todo') \in Nat /\ Len(todo') > 0
      /\ todo'[Len(todo')] = todo[Len(todo)]
      /\ todo[Len(todo) - 1].k = "end" =>
            Len(todo') > 1 /\ todo'[Len(todo') - 1] = todo[Len(todo) - 1]
      /\ (\A j \in DOMAIN todo : todo[j].k # "end")
            => \A j \in DOMAIN todo' : todo'[j].k # "end"
  BY <1>2, <1>3, <1>4, BottomStays DEF IInv
<1>6. f'.name = f.name
  <2>1. Bears(f, f.name) BY DEF Bears, IInv, TypeOK, IrFunc
  <2>2. Bears(f', f.name) BY <2>1, NameStays
  <2>. QED BY <2>2 DEF Bears
<1>7. \A i : Translated(i) => Translated(i)' BY <1>3, TranslatedStays
<1>8. \A i : InFunction(i) => InFunction(i)' BY <1>3, <1>6, <1>7 DEF InFunction
<1>9. Passes' BY <1>3, <1>5, <1>6, <1>7, <1>8 DEF PInv, Passes
<1>10. todo' # <<>> BY <1>5, EmptySeq
<1>. QED BY <1>9, <1>10 DEF PInv, ProgramComplete, Done

-----------------------------------------------------------------------------
(* The steps of irb_build_program.                                         *)

(* What is known of the bottom of the stack when it runs.                  *)
LEMMA PassAt ==
    ASSUME IInv, PInv, NEW k \in RootKinds, On(k)
    PROVE  /\ todo # <<>> /\ Top.k = k /\ Top \in GoodFrames /\ Top.i \in Nat \ {0}
           /\ \A fs \in Seq(GoodFrames) : Continue(fs) => todo' = fs
           /\ k = "functions" => Top.i - 1 \in 0 .. Len(ast.stmts) /\ Translated(Top.i - 1)
           /\ k = "_entry" => Translated(Len(ast.stmts)) /\ f.name = "_entry"
           /\ Len(ast.stmts) \in Nat
<1>1. /\ todo # <<>> /\ Top.k = k /\ Top \in GoodFrames
      /\ \A fs \in Seq(GoodFrames) : Continue(fs) => todo' = fs
  BY AtRoot DEF IInv
<1>2. todo \in Seq(GoodFrames) BY TypedStack DEF TypeInv, IInv
<1>3. Len(todo) \in Nat \ {0} /\ DOMAIN todo = 1 .. Len(todo) /\ Top = todo[1]
  BY <1>1, <1>2, EmptySeq, LenProperties DEF Top
<1>4. Len(todo) = 1 BY <1>1, <1>3 DEF IInv, Shape
<1>5. Top = todo[Len(todo)] BY <1>3, <1>4
<1>6. Top.i \in Nat \ {0} BY <1>1 DEF GoodFrames, FrameType
<1>7. Len(ast.stmts) \in Nat
  <2>1. ast.stmts \in Seq(Stmts) BY AstAssumption DEF IInv, TypeOK
  <2>. QED BY <2>1, LenProperties
<1>8. k = "functions" => Top.i - 1 \in 0 .. Len(ast.stmts) /\ Translated(Top.i - 1)
  BY <1>1, <1>4, <1>5 DEF PInv, Passes
<1>9. k = "_entry" => Translated(Len(ast.stmts)) /\ f.name = "_entry"
  BY <1>1, <1>4, <1>5 DEF PInv, Passes
<1>. QED BY <1>1, <1>6, <1>7, <1>8, <1>9

(* The first pass comes to a function.                                     *)
LEMMA BeginFunctionPasses ==
    ASSUME IInv, PInv, BeginFunction PROVE PInv'
<1>. DEFINE n == ast.stmts[Top.i]
            a == Frame("stmt", n.body)
            b == Frame("end", n)
            c == [Top EXCEPT !.i = @ + 1]
<1>1. On("functions") /\ RootNode({"function"}) /\ Continue(<<a, b, c>>) /\ UNCHANGED <<ast, funcs>>
      /\ f' = ir_func_begin(n.name, n.ret_type, param_types(n))
  BY DEF BeginFunction, unit
<1>2. /\ todo # <<>> /\ Top.k = "functions" /\ Top \in GoodFrames /\ Top.i \in Nat \ {0}
      /\ \A fs \in Seq(GoodFrames) : Continue(fs) => todo' = fs
      /\ Translated(Top.i - 1) /\ Len(ast.stmts) \in Nat
  BY <1>1, PassAt DEF RootKinds
<1>3. n \in Stmts /\ n.kind = "function" BY <1>1, <1>2, RootNodeStmt DEF IInv
<1>4. a \in GoodFrames
  BY <1>3, StmtNodes, StmtFrame DEF InnerFrames
<1>5. b \in GoodFrames /\ b.k = "end" BY <1>3, NodesAt, FrameGood DEF Frame, Labelled, FrameKinds
<1>6. c \in GoodFrames /\ c.k = "functions" BY <1>2, NextChild DEF IInv
<1>7. c.i = Top.i + 1 BY <1>2 DEF GoodFrames, FrameType
<1>8. Top.i \in 1 .. Len(ast.stmts) BY <1>1, <1>2 DEF RootNode
<1>9. f'.name = n.name BY <1>1 DEF ir_func_begin
<1>. PICK i : i = Top.i OBVIOUS
<1>10. Translated(i - 1)'
  <2>1. Translated(i - 1) BY <1>2
  <2>. QED BY <1>1, <2>1, TranslatedStays
<1>11. ast' = ast /\ n = ast'.stmts[i] BY <1>1
<1>. HIDE DEF a, b, c, n
<1>12. <<a, b, c>> \in Seq(GoodFrames) BY <1>4, <1>5, <1>6
<1>13. todo' = <<a, b, c>> BY <1>1, <1>2, <1>12
<1>14. todo' # <<>> /\ Len(todo') = 3 /\ todo'[3] = c /\ todo'[3 - 1] = b BY <1>13
<1>15. c.i - 1 = i /\ i \in 0 .. Len(ast.stmts) BY <1>2, <1>7, <1>8
<1>16. InFunction(i)' BY <1>3, <1>8, <1>9, <1>10, <1>11 DEF InFunction
<1>17. Passes' BY <1>5, <1>6, <1>11, <1>14, <1>15, <1>16 DEF Passes
<1>. QED BY <1>14, <1>17 DEF PInv, ProgramComplete, Done

(* A function ends: it is the next of those translated.                    *)
LEMMA EndFunctionPasses ==
    ASSUME IInv, PInv, EndFunction PROVE PInv'
<1>. DEFINE r == todo[2]
<1>1. todo # <<>> /\ Top.k = "end" BY DEF EndFunction, On
<1>2. todo \in Seq(GoodFrames) BY TypedStack DEF IInv, TypeInv
<1>3. Len(todo) \in Nat \ {0} /\ DOMAIN todo = 1 .. Len(todo) /\ Top = todo[1]
  BY <1>1, <1>2, EmptySeq, LenProperties DEF Top
<1>4. Len(todo) = 2 BY <1>1, <1>3 DEF IInv, Shape
<1>5. r \in GoodFrames /\ r.k \in RootKinds
  BY <1>2, <1>3, <1>4, ElementOfSeq DEF IInv, Shape
<1>6. r.k = "functions"
  <2>1. 1 \in DOMAIN todo /\ todo[1].k = "end" BY <1>1, <1>3, <1>4
  <2>2. todo[Len(todo)].k # "_entry" BY <1>1, <2>1 DEF PInv, Passes
  <2>. QED BY <1>4, <1>5, <2>2 DEF RootKinds
<1>7. /\ todo' # <<>> /\ Len(todo') = 1 /\ todo'[1] = r
  <2>1. <<>> \in Seq(GoodFrames) /\ Len(<<>>) = 0 BY EmptySeq
  <2>2. /\ todo' \in Seq(GoodFrames) /\ Len(todo') = 0 + 2 - 1
        /\ \A j \in 0 + 1 .. Len(todo') : todo'[j] = todo[j - 0 + 1]
    BY <1>1, <1>2, <1>4, <2>1, Replaced DEF EndFunction, Continue
  <2>3. todo' # <<>>
    <3>1. Len(todo') = 1 BY <2>2
    <3>. QED BY <2>1, <3>1
  <2>4. todo'[1] = todo[1 - 0 + 1] BY <2>2
  <2>. QED BY <2>2, <2>3, <2>4
<1>8. r.i - 1 \in 0 .. Len(ast.stmts) /\ InFunction(r.i - 1)
  BY <1>1, <1>4, <1>6 DEF PInv, Passes
<1>9. funcs' = Append(funcs, f) /\ UNCHANGED <<ast, f>> BY DEF EndFunction
<1>10. Len(ast.stmts) \in Nat
  <2>1. ast.stmts \in Seq(Stmts) BY AstAssumption DEF IInv, TypeOK
  <2>. QED BY <2>1, LenProperties
<1>. PICK i : i = r.i - 1 OBVIOUS
<1>11. Translated(i)'
  <2>. PICK j : j = i - 1 OBVIOUS
  <2>1. r.i \in Nat BY <1>5 DEF GoodFrames, FrameType
  <2>2. j \in Nat /\ j + 1 = i BY <1>8, <1>10, <2>1 DEF InFunction
  <2>3. Translated(j) /\ ast.stmts[j + 1].kind = "function" /\ f.name = ast.stmts[j + 1].name
    BY <1>8, <2>2 DEF InFunction
  <2>4. funcs \in Seq(IrFunc) /\ f \in IrFunc BY DEF IInv, TypeOK
  <2>5. Translated(j + 1)' BY <1>9, <2>2, <2>3, <2>4, TranslatedNext
  <2>. QED BY <2>2, <2>5
<1>. HIDE DEF r
<1>12. Passes' BY <1>6, <1>7, <1>8, <1>9, <1>11 DEF Passes
<1>. QED BY <1>7, <1>12 DEF PInv, ProgramComplete, Done

(* A root node of the other pass is passed over.                           *)
LEMMA SkipRootNodePasses ==
    ASSUME IInv, PInv, SkipRootNode PROVE PInv'
<1>. DEFINE c == [Top EXCEPT !.i = @ + 1]
<1>1. Continue(<<c>>) /\ UNCHANGED <<ast, funcs, f>> BY DEF SkipRootNode, unit
<1>2. PICK k \in RootKinds : On(k) /\ (k = "functions" => RootNode(NotAFunction))
  BY DEF SkipRootNode, RootKinds
<1>3. /\ todo # <<>> /\ Top.k = k /\ Top \in GoodFrames /\ Top.i \in Nat \ {0}
      /\ \A fs \in Seq(GoodFrames) : Continue(fs) => todo' = fs
      /\ k = "functions" => Translated(Top.i - 1)
      /\ k = "_entry" => Translated(Len(ast.stmts)) /\ f.name = "_entry"
      /\ Len(ast.stmts) \in Nat
  BY <1>2, PassAt
<1>4. c \in GoodFrames /\ c.k = k BY <1>3, NextChild DEF IInv, RootKinds
<1>5. c.i = Top.i + 1 BY <1>3 DEF GoodFrames, FrameType
<1>. PICK i : i = Top.i OBVIOUS
<1>6. k = "functions" => Translated(i)' /\ i \in 0 .. Len(ast.stmts)
  <2>. SUFFICES ASSUME k = "functions" PROVE Translated(i)' /\ i \in 0 .. Len(ast.stmts)
    OBVIOUS
  <2>. PICK j : j = i - 1 OBVIOUS
  <2>1. ast.stmts[i].kind # "function" /\ i \in 0 .. Len(ast.stmts)
    BY <1>2, <1>3 DEF RootNode, NotAFunction
  <2>2. j \in Nat /\ j + 1 = i /\ Translated(j) BY <1>3
  <2>3. funcs \in Seq(IrFunc) /\ f \in IrFunc BY DEF IInv, TypeOK
  <2>4. Translated(j + 1)' BY <1>1, <2>1, <2>2, <2>3, TranslatedNext
  <2>. QED BY <2>1, <2>2, <2>4
<1>7. \A j : Translated(j) => Translated(j)' BY <1>1, TranslatedStays
<1>. HIDE DEF c
<1>8. <<c>> \in Seq(GoodFrames) BY <1>4
<1>9. todo' = <<c>> BY <1>1, <1>3, <1>8
<1>10. todo' # <<>> /\ Len(todo') = 1 /\ todo'[1] = c /\ DOMAIN todo' = {1} BY <1>9
<1>11. c.i - 1 = i BY <1>3, <1>5
<1>12. Passes' BY <1>1, <1>3, <1>4, <1>6, <1>7, <1>10, <1>11 DEF Passes, RootKinds
<1>. QED BY <1>10, <1>12 DEF PInv, ProgramComplete, Done

(* The first pass is over: the functions of the root block are translated. *)
LEMMA BeginEntryPasses ==
    ASSUME IInv, PInv, BeginEntry PROVE PInv'
<1>. DEFINE a == Frame("_entry", ast)
<1>1. /\ On("functions") /\ Top.i > Len(ast.stmts) /\ Continue(<<a>>) /\ UNCHANGED <<ast, funcs>>
      /\ f' = ir_func_begin("_entry", "void", <<>>)
  BY DEF BeginEntry, unit
<1>2. /\ \A fs \in Seq(GoodFrames) : Continue(fs) => todo' = fs
      /\ Top.i - 1 \in 0 .. Len(ast.stmts) /\ Translated(Top.i - 1)
      /\ Len(ast.stmts) \in Nat /\ Top.i \in Nat
  BY <1>1, PassAt DEF RootKinds
<1>3. Top.i - 1 = Len(ast.stmts) BY <1>1, <1>2
<1>4. Translated(Len(ast.stmts)) BY <1>2, <1>3
<1>5. Translated(Len(ast.stmts))' BY <1>1, <1>4, TranslatedStays
<1>6. ast \in Programs BY DEF IInv, TypeOK
<1>7. a \in GoodFrames /\ a.k = "_entry"
  BY <1>6, NodesAt, FrameGood DEF Frame, Labelled, FrameKinds
<1>8. f'.name = "_entry" BY <1>1 DEF ir_func_begin
<1>. HIDE DEF a
<1>9. <<a>> \in Seq(GoodFrames) BY <1>7
<1>10. todo' = <<a>> BY <1>1, <1>2, <1>9
<1>11. todo' # <<>> /\ Len(todo') = 1 /\ todo'[1] = a /\ DOMAIN todo' = {1} BY <1>10
<1>12. Passes' BY <1>5, <1>7, <1>8, <1>11 DEF Passes
<1>. QED BY <1>11, <1>12 DEF PInv, ProgramComplete, Done

(* A root statement of _entry.                                             *)
LEMMA EntryStmtPasses ==
    ASSUME IInv, PInv, EntryStmt PROVE PInv'
<1>. DEFINE a == Frame("stmt", ast.stmts[Top.i])
            c == [Top EXCEPT !.i = @ + 1]
<1>1. On("_entry") /\ RootNode(NotAFunction) /\ Continue(<<a, c>>) /\ UNCHANGED <<ast, funcs, f>>
  BY DEF EntryStmt, unit
<1>2. /\ todo # <<>> /\ Top.k = "_entry" /\ Top \in GoodFrames
      /\ \A fs \in Seq(GoodFrames) : Continue(fs) => todo' = fs
      /\ Translated(Len(ast.stmts)) /\ f.name = "_entry"
  BY <1>1, PassAt DEF RootKinds
<1>3. ast.stmts[Top.i] \in Stmts BY <1>1, <1>2, RootNodeStmt DEF IInv
<1>4. a \in GoodFrames /\ a.k = "stmt"
  BY <1>3, StmtFrame DEF InnerFrames, Frame, Labelled
<1>5. c \in GoodFrames /\ c.k = "_entry" BY <1>2, NextChild DEF IInv
<1>6. Translated(Len(ast.stmts))' BY <1>1, <1>2, TranslatedStays
<1>. HIDE DEF a, c
<1>7. <<a, c>> \in Seq(GoodFrames) BY <1>4, <1>5
<1>8. todo' = <<a, c>> BY <1>1, <1>2, <1>7
<1>9. /\ todo' # <<>> /\ Len(todo') = 2 /\ todo'[1] = a /\ todo'[2] = c /\ DOMAIN todo' = {1, 2}
  BY <1>8
<1>10. Passes' BY <1>1, <1>2, <1>4, <1>5, <1>6, <1>9 DEF Passes
<1>. QED BY <1>9, <1>10 DEF PInv, ProgramComplete, Done

(* _entry ends, and with it the program.                                   *)
LEMMA EndEntryPasses ==
    ASSUME IInv, PInv, EndEntry PROVE PInv'
<1>. DEFINE ins == Instr("ret", -1, NoOper, NoOper)
            n == Len(funcs)
            m == Len(ast.stmts)
<1>1. On("_entry") /\ Continue(<<>>) /\ funcs' = Append(funcs, f') /\ ast' = ast
      /\ f' = ir_emit_ret(f, NoOper)
  BY DEF EndEntry
<1>2. /\ \A fs \in Seq(GoodFrames) : Continue(fs) => todo' = fs
      /\ Translated(m) /\ f.name = "_entry" /\ m \in Nat
  BY <1>1, PassAt DEF RootKinds
<1>3. <<>> \in Seq(GoodFrames) BY EmptySeq
<1>4. todo' = <<>> BY <1>1, <1>2, <1>3
<1>5. f \in IrFunc /\ funcs \in Seq(IrFunc) BY DEF IInv, TypeOK
<1>6. f' = ir_push(f, ins) BY <1>1 DEF ir_emit_ret
<1>7. f'.name = "_entry"
  <2>1. Bears(f, "_entry") BY <1>2, <1>5 DEF Bears, IrFunc
  <2>2. Bears(f', "_entry") BY <1>6, <2>1, BearsKept
  <2>. QED BY <2>2 DEF Bears
<1>8. f'.code # <<>> /\ f'.code[Len(f'.code)].op = "ret"
  <2>1. f.code \in Seq(IrInstr) BY <1>5 DEF IrFunc
  <2>2. f'.code = Append(f.code, ins) BY <1>5, <1>6 DEF ir_push, IrFunc
  <2>3. ins.op = "ret" BY DEF Instr
  <2>4. ins \in IrInstr BY Blanks, InstrType DEF IrOps
  <2>. HIDE DEF ins
  <2>5. Len(f.code) \in Nat /\ Len(f'.code) = Len(f.code) + 1 /\ f'.code[Len(f'.code)] = ins
    BY <2>1, <2>2, <2>4, AppendProperties
  <2>. QED BY <2>3, <2>5, EmptySeq
<1>9. f' \in IrFunc
  <2>1. Extends(f, f', {}) BY <1>1, <1>5, Blanks, EmitRet
  <2>. QED BY <2>1 DEF Extends
<1>10. /\ n \in Nat /\ Len(funcs') = n + 1 /\ funcs'[Len(funcs')] = f'
       /\ \A i \in 1 .. n : funcs'[i] = funcs[i]
  BY <1>1, <1>5, <1>9, AppendProperties
<1>11. \A i : FunctionsIn(i)' = FunctionsIn(i) BY <1>1 DEF FunctionsIn
<1>12. n = Cardinality(FunctionsIn(m)) BY <1>2 DEF Translated
<1>13. ASSUME NEW j \in FunctionsIn(m)
       PROVE  funcs'[PlaceOf(j, n + 1)].name = ast.stmts[j].name
  <2>1. Cardinality(FunctionsIn(j)) \in 1 .. n BY <1>2, <1>12, <1>13, Ranked
  <2>2. funcs[Cardinality(FunctionsIn(j))].name = ast.stmts[j].name BY <1>2, <1>13 DEF Translated
  <2>3. PlaceOf(j, n + 1) = Cardinality(FunctionsIn(j)) BY <1>10, <2>1 DEF PlaceOf
  <2>. QED BY <1>10, <2>1, <2>2, <2>3
<1>. HIDE DEF n
<1>. PICK k : k = n + 1 OBVIOUS
<1>14. \A j : PlaceOf(j, k)' = PlaceOf(j, k) BY <1>11 DEF PlaceOf
<1>15. /\ k \in DOMAIN funcs' /\ funcs'[k] = f' /\ Len(funcs') = Cardinality(FunctionsIn(m)) + 1
  <2>1. funcs' \in Seq(IrFunc) BY <1>1, <1>5, <1>9
  <2>2. DOMAIN funcs' = 1 .. Len(funcs') BY <2>1, LenProperties
  <2>. QED BY <1>10, <1>12, <2>2
<1>16. (EndsInRet(funcs[k]))' BY <1>8, <1>15 DEF EndsInRet
<1>17. \A j \in FunctionsIn(m) : funcs'[PlaceOf(j, k)'].name = ast.stmts[j].name
  BY <1>13, <1>14
<1>18. ProgramComplete'
  BY <1>1, <1>7, <1>11, <1>15, <1>16, <1>17 DEF ProgramComplete
<1>19. Passes' BY <1>4 DEF Passes
<1>. QED BY <1>18, <1>19 DEF PInv

-----------------------------------------------------------------------------
(* Nothing is translated before the first step.                            *)
LEMMA InitPasses == Init => PInv
<1>. SUFFICES ASSUME Init PROVE PInv OBVIOUS
<1>. DEFINE r == Frame("functions", ast)
<1>1. todo = <<r>> /\ funcs = <<>> /\ ast \in Programs BY DEF Init
<1>2. r.k = "functions" /\ r.i = 1 BY DEF Frame, Labelled
<1>. HIDE DEF r
<1>3. todo # <<>> /\ Len(todo) = 1 /\ todo[1] = r BY <1>1
<1>4. FunctionsIn(0) = {} BY DEF FunctionsIn
<1>5. Translated(0)
  <2>1. Len(funcs) = 0 BY <1>1
  <2>. QED BY <1>4, <2>1, FS_EmptySet DEF Translated
<1>6. Len(ast.stmts) \in Nat
  <2>1. ast.stmts \in Seq(Stmts) BY <1>1, AstAssumption
  <2>. QED BY <2>1, LenProperties
<1>7. 1 - 1 = 0 /\ 0 \in 0 .. Len(ast.stmts) BY <1>6
<1>8. Passes BY <1>2, <1>3, <1>5, <1>7 DEF Passes
<1>. QED BY <1>3, <1>8 DEF PInv, ProgramComplete, Done

(* Every step keeps the account of the functions.                          *)
LEMMA NextPasses == IInv /\ PInv /\ [Next]_vars => PInv'
<1>. SUFFICES ASSUME IInv, PInv, [Next]_vars PROVE PInv' OBVIOUS
<1>1. CASE irb_emit_expr \/ irb_emit_stmt BY <1>1, InnerPasses
<1>2. CASE irb_build_program
  BY <1>2, BeginFunctionPasses, EndFunctionPasses, SkipRootNodePasses, BeginEntryPasses,
     EntryStmtPasses, EndEntryPasses
     DEF irb_build_program
<1>3. CASE UNCHANGED vars
  <2>1. UNCHANGED <<ast, funcs, f, todo>> BY <1>3 DEF vars
  <2>. QED BY <2>1 DEF PInv, Passes, Translated, InFunction, FunctionsIn, PlaceOf, EndsInRet,
     ProgramComplete, Done
<1>4. CASE Finish BY <1>3, <1>4 DEF Finish
<1>. QED BY <1>1, <1>2, <1>3, <1>4 DEF Next

(* Whatever the tree, when irb_build_program returns each function of the  *)
(* root block has been translated once, in source order and under its own  *)
(* name, and there is one function more, _entry, which ends in a return.   *)
THEOREM ProgramCorrect == Spec => []ProgramComplete
<1>1. Init => IInv /\ PInv BY InitIInv, InitPasses
<1>2. (IInv /\ PInv) /\ [Next]_vars => (IInv /\ PInv)' BY NextIInv, NextPasses
<1>3. Spec => [](IInv /\ PInv) BY <1>1, <1>2, PTL DEF Spec
<1>. QED BY <1>3, PTL DEF PInv
=============================================================================
