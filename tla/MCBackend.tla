----------------------------- MODULE MCBackend -----------------------------
(***************************************************************************)
(* Backend over every well-formed function of a few instructions: all the  *)
(* ways to arrange labels, branches, assignments and returns, not only     *)
(* those the builder produces.  Control never runs past the last one.      *)
(***************************************************************************)
EXTENDS Backend

CONSTANTS MaxLen,       \* the longest code
          LabelIds      \* the labels it may use

MCNames == {"", "_entry", "g", "x", "y"}

Lit == ir_lit("int", 1)

Templates ==
    {LabelInstr(op, NoOper, l) : op \in {"label", "br"}, l \in LabelIds}
    \cup {LabelInstr("brfalse", ir_temp(0), l) : l \in LabelIds}
    \cup {Instr("mov", t, Lit, NoOper) : t \in {0, 1}}
    \cup {Instr("ret", -1, o, NoOper) : o \in {NoOper, ir_temp(1)}}

Codes == UNION {[1 .. n -> Templates] : n \in 1 .. MaxLen}

Function(name, code, locals) ==
    [ir_func_begin(name, "int", <<"int">>) EXCEPT
        !.code = code, !.temp_count = 2, !.label_count = Cardinality(LabelIds), !.locals = locals]

Local(name, t) == [name |-> name, temp |-> t]
LocalLists == {<<>>, <<Local("x", 0), Local("x", 1), Local("y", 0)>>}

WellFormed(func) ==
    /\ LabelsOnce(func) /\ Targets(func) \subseteq Placed(func)
    /\ func.code[Len(func.code)].op \in {"br", "ret"}

(* _entry assigns the same names again, and ends in its only "ret".        *)
Entry == Function("_entry", <<Instr("mov", 0, Lit, NoOper), CallInstr(1, "g", <<0>>),
                              Instr("ret", -1, NoOper, NoOper)>>, <<Local("x", 0), Local("x", 1)>>)

MCIrPrograms ==
    {<<func, Entry>> : func \in {g \in {Function("g", c, <<>>) : c \in Codes} : WellFormed(g)}}
    \cup {<<func, Entry>> : func \in
            {g \in {Function("g", c, names) : c \in [1 .. 3 -> Templates], names \in LocalLists} : WellFormed(g)}}
=============================================================================
