----------------------------- MODULE IrMachine -----------------------------
(***************************************************************************)
(* What the code of an IR function means (the comments of ir.h): one       *)
(* activation, started on some code, that executes one instruction per     *)
(* step.  Data are left out: brfalse may go either way.  Control that runs *)
(* past the last instruction returns, like a "ret" without value.          *)
(***************************************************************************)
EXTENDS Ir

VARIABLES code, ip, status

vars == <<code, ip, status>>

Init == code = <<>> /\ ip = 0 /\ status = "idle"

Start ==
    /\ status = "idle"
    /\ status' = "running"
    /\ code' \in Seq(IrInstr)
    /\ ip' = 1

LabelAt(l) == {i \in DOMAIN code : code[i].op = "label" /\ code[i].label = l}

Jump(ins) == ip' \in LabelAt(ins.label) /\ UNCHANGED <<code, status>>
Advance   == ip' = ip + 1 /\ UNCHANGED <<code, status>>
Return    == status' = "returned" /\ UNCHANGED <<code, ip>>

Step ==
    /\ status = "running"
    /\ \/ ip \in DOMAIN code /\ code[ip].op \in {"br", "brfalse"} /\ Jump(code[ip])
       \/ ip \in DOMAIN code /\ code[ip].op \notin {"br", "ret"} /\ Advance
       \/ ip \in DOMAIN code /\ code[ip].op = "ret" /\ Return
       \/ ip = Len(code) + 1 /\ Return

Next == Start \/ Step

(* An activation that has begun goes on: instructions do not block.        *)
Spec == Init /\ [][Next]_vars /\ WF_vars(Step)
=============================================================================
