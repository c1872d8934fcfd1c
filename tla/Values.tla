------------------------------- MODULE Values -------------------------------
(***************************************************************************)
(* The compiler, and an engine that runs the global code it printed, now   *)
(* with the values of variables and the arguments of calls, compared with  *)
(* what the source means.                                                  *)
(***************************************************************************)
EXTENDS Compiler

Source == INSTANCE Meaning

VARIABLES env,              \* the values of the names of the running function
          calls             \* the calls it made

data == <<env, calls>>

-----------------------------------------------------------------------------
(* JavaScript values and operators.                                        *)
Value(t, v) == [t |-> t, v |-> v]
Number(n)   == Value("num", n)
Boolean(b)  == Value("bool", IF b THEN 1 ELSE 0)
Undefined   == Value("undefined", 0)
NaN         == Value("nan", 0)

ToNumber(x) == IF x.t \in {"num", "bool"} THEN Number(x.v) ELSE NaN
Falsy(x)    == x.v = 0

Arith(op, m, n) ==
    CASE op = "add" -> m + n
      [] op = "sub" -> m - n
      [] op = "mul" -> m * n
      [] op = "div" -> m \div n     \* of divisions that come out even
Less(op, m, n) ==
    CASE op = "lt" -> m < n
      [] op = "le" -> m <= n
      [] op = "gt" -> m > n
      [] op = "ge" -> m >= n

(* "===" compares the types as well.                                       *)
StrictlyEqual(a, b) == a = b /\ a # NaN

Operate(op, a, b) ==
    LET x == ToNumber(a)
        y == ToNumber(b)
    IN  CASE op = "eq"      -> Boolean(StrictlyEqual(a, b))
          [] op = "ne"      -> Boolean(~StrictlyEqual(a, b))
          [] op \in ArithOps -> IF NaN \in {x, y} THEN NaN ELSE Number(Arith(op, x.v, y.v))
          [] OTHER          -> Boolean(NaN \notin {x, y} /\ Less(op, x.v, y.v))

-----------------------------------------------------------------------------
(* The running function.                                                   *)
line  == Back!Here
Known(o) == o.kind = "id" => o.v \in DOMAIN env
Read(o)  ==
    CASE o.kind = "id"   -> env[o.v]
      [] o.kind = "bool" -> Boolean(o.v # 0)
      [] OTHER           -> Number(o.v)
Args == [i \in DOMAIN line.reads |-> Read(line.reads[i])]

On(kinds) == Back!OnLine(kinds) /\ \A i \in DOMAIN line.reads : Known(line.reads[i])

(* "_entry();", by the last declaration of the name.  The header of the    *)
(* function gives every name it declares the value undefined.              *)
Call ==
    /\ Back!has_entry /\ Back!JsCall
    /\ js[run'].name = "_entry" /\ \A k \in run' + 1 .. Len(js) : js[k].name # "_entry"
    /\ env' = [n \in js[run'].declared \ {"pc"} |-> Undefined]
    /\ UNCHANGED calls

Write(v) == env' = [n \in DOMAIN env \cup {line.dst} |-> IF n = line.dst THEN v ELSE env[n]]

Assign ==
    /\ On({"assign"})
    /\ Back!FallThrough
    /\ CASE line.op = "call" ->
              Write(Source!Answer(Args)) /\ calls' = Append(calls, [callee |-> line.callee, args |-> Args])
         [] line.op = "mov"  -> Write(Args[1]) /\ UNCHANGED calls
         [] OTHER            -> Write(Operate(line.op, Args[1], Args[2])) /\ UNCHANGED calls

Test ==
    /\ On({"unless"})
    /\ IF Falsy(Args[1]) THEN Back!SetPcAndBreak ELSE Back!FallThrough
    /\ UNCHANGED data

Control ==
    /\ ~On({"assign", "unless"})
    /\ On({"case", "goto", "break", "return"}) \/ at = 0 \/ Back!PastEnd
    /\ Back!JsStep
    /\ UNCHANGED data

(* A name that is not declared is an error of the engine.                  *)
Throw ==
    /\ Back!OnLine({"assign", "unless", "return"})
    /\ \E i \in DOMAIN line.reads : ~Known(line.reads[i])
    /\ status' = "threw"
    /\ UNCHANGED <<run, pc, at, data>>

Execute ==
    /\ Builder!Done /\ Back!Printed
    /\ Call \/ Assign \/ Test \/ Control \/ Throw
    /\ UNCHANGED <<building, fi, pos, g_label_map, g_temps, has_instructions, last_was_br_or_ret, out, js>>

PrintCode == Builder!Done /\ Back!codegen_js_func /\ UNCHANGED <<building, run, pc, at, status, data>>

Stopped == status \in {"returned", "threw"}
Finished == Stopped /\ UNCHANGED <<vars, data>>

RunInit == Init /\ env = [n \in {} |-> Undefined] /\ calls = <<>>
RunNext == (Build /\ UNCHANGED data) \/ PrintCode \/ Execute \/ Finished
RunSpec == RunInit /\ [][RunNext]_<<vars, data>> /\ WF_<<vars, data>>(RunNext)

-----------------------------------------------------------------------------
Meanings == [p \in Programs |-> Source!Run(p, Source!Nothing)]
GlobalsOf(p) == {p.stmts[i].name : i \in {j \in DOMAIN p.stmts : p.stmts[j].kind = "decl"}}

(* When the global code returns, every variable of the outermost block has *)
(* the value the source gives it, whatever temporaries it went through and *)
(* whichever of its names codegen_js.c printed them under.                 *)
SameValues ==
    Stopped => \A n \in GlobalsOf(ast) :
                   n \in DOMAIN env /\ env[n] = Meanings[ast].env[n]

(* It has made the calls the source makes, in their order and with their   *)
(* arguments: none is dropped or repeated on any path.                     *)
SameCalls == Stopped => calls = Meanings[ast].calls

(* Code whose source ends, ends.                                           *)
Stops == <>Stopped
=============================================================================
