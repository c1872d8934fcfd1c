----------------------------- MODULE JsMachine -----------------------------
(***************************************************************************)
(* What a JavaScript engine does with a printed function: one activation   *)
(* of "while (true) { switch (pc) { ... } }", or of a straight sequence of *)
(* statements.  "break" leaves the switch, and the end of the switch is    *)
(* the next turn of the loop.  The value a condition tests is left open.   *)
(***************************************************************************)
EXTENDS Integers, Sequences

VARIABLES js,         \* the printed functions
          run,        \* the one running, 0 when none
          pc,
          at,         \* the line, 0 when control is at the head of the switch
          status

Lines == js[run].lines
Here  == Lines[at]

JsIdle == run = 0 /\ pc = 0 /\ at = 0 /\ status = "idle"

JsCall ==
    /\ status = "idle" /\ status' = "running"
    /\ run' \in DOMAIN js
    /\ pc' = 0
    /\ at' = IF js[run'].machine THEN 0 ELSE 1

Cases(n) == {i \in DOMAIN Lines : Lines[i].j = "case" /\ Lines[i].pc = n}

Running    == status = "running"
OnLine(js_kinds) == Running /\ at \in DOMAIN Lines /\ Here.j \in js_kinds
PastEnd    == Running /\ at > Len(Lines)

(* The first case that matches; without one the loop turns again.          *)
Switch ==
    /\ Running /\ at = 0
    /\ at' \in {i \in Cases(pc) : \A k \in Cases(pc) : i <= k}
    /\ UNCHANGED <<run, pc, status>>

FallThrough ==
    /\ OnLine({"case", "assign", "unless"})
    /\ at' = at + 1
    /\ UNCHANGED <<run, pc, status>>

SetPcAndBreak ==
    /\ OnLine({"goto", "unless"})
    /\ pc' = Here.pc /\ at' = 0
    /\ UNCHANGED <<run, status>>

(* The end of the switch, by "break" or by running past its last case.     *)
EndOfSwitch ==
    /\ OnLine({"break"}) \/ (PastEnd /\ js[run].machine)
    /\ at' = 0
    /\ UNCHANGED <<run, pc, status>>

JsReturn ==
    /\ OnLine({"return"}) \/ (PastEnd /\ ~js[run].machine)
    /\ status' = "returned"
    /\ UNCHANGED <<run, pc, at>>

JsStep == Switch \/ FallThrough \/ SetPcAndBreak \/ EndOfSwitch \/ JsReturn
=============================================================================
