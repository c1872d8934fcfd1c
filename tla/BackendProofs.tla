---------------------------- MODULE BackendProofs ----------------------------
(***************************************************************************)
(* The back end on every IR program whose labels are in order: what        *)
(* codegen_js_program prints, and that a JavaScript engine running it      *)
(* takes the steps of the IR.                                              *)
(*                                                                         *)
(* The first half is about the lines printed for the first instructions of *)
(* a function: which instruction each line stands for, which one control   *)
(* reaches behind it, and how many cases there are so far.  The second is  *)
(* about the engine, to which the lines are given.                         *)
(***************************************************************************)
EXTENDS Backend, SequenceTheorems, FiniteSetTheorems, TLAPS

(* A sequence, of whatever.                                                *)
IsSeq(s) == \E S : s \in Seq(S)

-----------------------------------------------------------------------------
(* The code c of a function.                                               *)
LabelPos(c)   == {i \in DOMAIN c : c[i].op = "label"}
LabelsTo(c, p) == {i \in LabelPos(c) : i <= p}

(* The case of the label at p is the number of labels up to there.         *)
CaseOf(c, p)     == Cardinality(LabelsTo(c, p))
Goes(c, l, n)    == \E p \in LabelPos(c) : c[p].label = l /\ n = CaseOf(c, p)

(* Control does not run past the end.                                      *)
Leaving   == {"br", "ret"}
Leaves(c) == Len(c) > 0 /\ c[Len(c)].op \in Leaving

(* No "return;" of _entry but the last instruction is left out.            *)
Straight(func) ==
    has_labels(func) \/
    \A i \in DOMAIN func.code :
        func.code[i].op = "ret" /\ func.code[i].a.kind = "none" /\ func.name = "_entry"
        => i = Len(func.code)

GoodProgram(p) ==
    /\ p \in Seq(IrFunc)
    /\ \A i \in DOMAIN p : LabelsOnce(p[i]) /\ Targets(p[i]) \subseteq Placed(p[i])

-----------------------------------------------------------------------------
(* The lines ls of a state machine for the instructions of c in front of p.*)
Falls == {"case", "assign", "unless"}

OpsOf(j) ==
    CASE j = "case"   -> {"label"}
      [] j = "goto"   -> {"label", "br"}
      [] j = "unless" -> {"brfalse"}
      [] j = "return" -> {"ret"}
      [] OTHER        -> IrOps \ {"label", "br", "brfalse", "ret"}

Stands(c, ln) ==
    /\ ln.src \in 1 .. Len(c) + 1
    /\ ln.j \in Falls \cup {"goto", "return", "break"}
    /\ ln.j # "break" => ln.src \in DOMAIN c /\ c[ln.src].op \in OpsOf(ln.j)
    /\ ln.j = "case" => ln.pc = CaseOf(c, ln.src)
    /\ ln.j \in {"goto", "unless"} => Goes(c, c[ln.src].label, ln.pc)

CasesTo(ls, n) == {i \in 1 .. n : ls[i].j = "case"}

Lined(c, ls, p) ==
    /\ Len(ls) > 0 /\ ls[1].j = "case" /\ ls[1].pc = 0 /\ ls[1].src = 1
    /\ \A i \in 2 .. Len(ls) : Stands(c, ls[i])

(* Behind a line that control falls through comes the next instruction.    *)
NextSrc(ls, i, p) == IF i = Len(ls) THEN p ELSE ls[i + 1].src
Ordered(ls, p) ==
    \A i \in 1 .. Len(ls) :
        ls[i].j \in Falls => NextSrc(ls, i, p) = ls[i].src + (IF i = 1 THEN 0 ELSE 1)

(* Every label has its case, and the cases are 0, 1, 2, ...                *)
Covered(c, ls, p) ==
    \A q \in LabelPos(c) : q < p => \E i \in 2 .. Len(ls) : ls[i].j = "case" /\ ls[i].src = q
Numbered(c, ls, p) ==
    /\ \A i \in 1 .. Len(ls) : ls[i].j = "case" => ls[i].pc = Cardinality(CasesTo(ls, i - 1))
    /\ Cardinality(CasesTo(ls, Len(ls))) = CaseOf(c, p - 1) + 1

Follows(c, ls, p) == Lined(c, ls, p) /\ Ordered(ls, p) /\ Covered(c, ls, p) /\ Numbered(c, ls, p)

(* No "break" is behind a line that control falls through.                 *)
Sealed(ls) == \A i \in 2 .. Len(ls) : ls[i].j = "break" => ls[i - 1].j \notin Falls

(* But, maybe, the one behind the last instruction.                        *)
AtEnd(c, ln) == ln.j = "break" => ln.src = Len(c) + 1
SealedToEnd(c, ls) == \A i \in 2 .. Len(ls) : ls[i - 1].j \in Falls => AtEnd(c, ls[i])

-----------------------------------------------------------------------------
(* The lines ls of any other function.                                     *)
Lets(ls) ==
    \A i \in DOMAIN ls : ls[i].j = "assign" =>
        (ls[i].let <=> \A h \in 1 .. i - 1 : ls[h].j = "assign" => ls[h].dst # ls[i].dst)

OneByOne(c, ls) ==
    \A i \in DOMAIN ls :
        /\ ls[i].src = i
        /\ i \in DOMAIN c
        /\ ls[i].j = IF c[i].op = "ret" THEN "return" ELSE "assign"

(* Only the last instruction may have no line, and only if it is a "ret".  *)
Counted(c, ls, p) ==
    \/ p = Len(ls) + 1
    \/ p = Len(c) + 1 /\ Len(ls) = Len(c) - 1 /\ c[Len(c)].op = "ret"

Sequential(func, ls, p) ==
    /\ \A i \in DOMAIN ls : ls[i].j \in {"assign", "return"}
    /\ Lets(ls)
    /\ Straight(func) => OneByOne(func.code, ls) /\ Counted(func.code, ls, p)

-----------------------------------------------------------------------------
(* The invariant of the generator.                                         *)
PrintedAs(func, text) ==
    /\ text.machine = has_labels(func)
    /\ IsSeq(text.lines)
    /\ LET c == func.code
           ls == text.lines
       IN  IF has_labels(func)
           THEN /\ Follows(c, ls, Len(c) + 1) /\ SealedToEnd(c, ls)
                /\ Leaves(c) => Sealed(ls) /\ ls[Len(ls)].j \notin Falls
           ELSE Sequential(func, ls, Len(c) + 1)

InMachine(c) ==
    /\ g_label_map = LabelMap(c)
    /\ Follows(c, out, pos) /\ Sealed(out)
    /\ pos > 1 => (out[Len(out)].j \in Falls <=> c[pos - 1].op \notin Leaving)
    /\ last_was_br_or_ret => pos > 1 /\ c[pos - 1].op \in Leaving

InSequence(func) ==
    /\ Sequential(func, out, pos)
    /\ g_temps = {out[i].dst : i \in {h \in DOMAIN out : out[h].j = "assign"}}

GInv ==
    /\ GoodProgram(prog)
    /\ fi \in 1 .. Len(prog) + 1 /\ pos \in Nat
    /\ has_instructions \in BOOLEAN /\ last_was_br_or_ret \in BOOLEAN
    /\ IsSeq(js) /\ Len(js) = fi - 1
    /\ \A k \in 1 .. fi - 1 : PrintedAs(prog[k], js[k])
    /\ IsSeq(out)
    /\ pos > 0 =>
          /\ fi <= Len(prog) /\ pos <= Len(Func.code) + 1
          /\ IF has_labels(Func) THEN InMachine(Func.code) ELSE InSequence(Func)

-----------------------------------------------------------------------------
(* The invariant of the engine.                                            *)
Started ==
    /\ Printed /\ run \in DOMAIN js /\ at \in 0 .. Len(Lines) + 1
    /\ js[run].machine => Cases(pc) # {}
    /\ ~js[run].machine => at > 0
    /\ js[run].machine /\ at \in 2 .. Len(Lines) => AtEnd(Code, Here)
    /\ js[run].machine /\ Leaves(Code) => at <= Len(Lines) /\ (at > 0 => Here.j # "break")

EInv ==
    /\ status \in {"idle", "running", "returned"}
    /\ status = "idle" => run = 0 /\ pc = 0 /\ at = 0
    /\ status # "idle" => Started

BInv == GInv /\ EInv

(* Sequences of whatever.                                                  *)
LEMMA SeqIs ==
    ASSUME NEW s, IsSeq(s)
    PROVE  Len(s) \in Nat /\ DOMAIN s = 1 .. Len(s)
BY LenProperties DEF IsSeq

(* One element more.                                                       *)
LEMMA SeqAppend ==
    ASSUME NEW s, IsSeq(s), NEW e
    PROVE  /\ IsSeq(Append(s, e)) /\ Len(Append(s, e)) = Len(s) + 1
           /\ \A i \in 1 .. Len(s) : Append(s, e)[i] = s[i]
           /\ Append(s, e)[Len(s) + 1] = e
           /\ s \o <<e>> = Append(s, e)
<1>1. PICK S : s \in Seq(S) BY DEF IsSeq
<1>2. s \in Seq(S \cup {e}) BY <1>1, SeqMonotonic
<1>3. e \in S \cup {e} OBVIOUS
<1>4. Append(s, e) \in Seq(S \cup {e}) BY <1>2, <1>3, AppendProperties
<1>. QED BY <1>2, <1>3, <1>4, AppendProperties, AppendIsConcat DEF IsSeq

(* Nothing more.                                                           *)
LEMMA SeqNone ==
    ASSUME NEW s, IsSeq(s)
    PROVE  s \o <<>> = s /\ <<>> \o s = s
BY ConcatEmptySeq DEF IsSeq

(* No element, and one.                                                    *)
LEMMA SeqShort ==
    /\ IsSeq(<<>>) /\ Len(<<>>) = 0
    /\ \A e : IsSeq(<<e>>) /\ Len(<<e>>) = 1 /\ <<e>>[1] = e
<1>1. \A e : <<e>> \in Seq({e}) OBVIOUS
<1>. QED BY <1>1, EmptySeq DEF IsSeq

(* Up to two elements more, as a label prints them.                        *)
LEMMA SeqTwo ==
    ASSUME NEW s, IsSeq(s), NEW d, NEW e
    PROVE  /\ s \o (<<d>> \o <<e>>) = Append(Append(s, d), e)
           /\ s \o (<<>> \o <<e>>) = Append(s, e)
<1>1. PICK S : s \in Seq(S) BY DEF IsSeq
<1>. DEFINE T == S \cup {d, e}
<1>2. s \in Seq(T) BY <1>1, SeqMonotonic
<1>3. <<d>> \in Seq(T) /\ <<e>> \in Seq(T) OBVIOUS
<1>. HIDE DEF T
<1>4. s \o (<<d>> \o <<e>>) = (s \o <<d>>) \o <<e>> BY <1>2, <1>3, ConcatAssociative
<1>5. s \o <<d>> = Append(s, d) /\ IsSeq(Append(s, d)) BY SeqAppend
<1>6. Append(s, d) \o <<e>> = Append(Append(s, d), e) BY <1>5, SeqAppend
<1>7. <<>> \o <<e>> = <<e>> BY SeqShort, SeqNone
<1>. QED BY <1>4, <1>5, <1>6, <1>7, SeqAppend

-----------------------------------------------------------------------------
(* Counting labels and cases.                                              *)
LEMMA LabelsFinite ==
    ASSUME NEW c, DOMAIN c \subseteq Nat, NEW p \in Int
    PROVE  IsFiniteSet(LabelsTo(c, p)) /\ CaseOf(c, p) \in Nat
<1>1. LabelsTo(c, p) \in SUBSET (0 .. p) BY DEF LabelsTo, LabelPos
<1>2. IsFiniteSet(0 .. p) BY FS_Interval
<1>3. IsFiniteSet(LabelsTo(c, p)) BY <1>1, <1>2, FS_Subset
<1>. QED BY <1>3, FS_CardinalityType DEF CaseOf

(* One instruction more.                                                   *)
LEMMA CaseNext ==
    ASSUME NEW c, NEW n \in Nat, DOMAIN c = 1 .. n, NEW p \in 1 .. n
    PROVE  CaseOf(c, p) = CaseOf(c, p - 1) + (IF c[p].op = "label" THEN 1 ELSE 0)
<1>1. IsFiniteSet(LabelsTo(c, p - 1)) /\ CaseOf(c, p - 1) \in Nat BY LabelsFinite
<1>2. CASE c[p].op = "label"
  <2>1. LabelsTo(c, p) = LabelsTo(c, p - 1) \cup {p} BY <1>2 DEF LabelsTo, LabelPos
  <2>2. p \notin LabelsTo(c, p - 1) BY DEF LabelsTo
  <2>3. CaseOf(c, p) = CaseOf(c, p - 1) + 1 BY <1>1, <2>1, <2>2, FS_AddElement DEF CaseOf
  <2>. QED BY <1>2, <2>3
<1>3. CASE c[p].op # "label"
  <2>1. LabelsTo(c, p) = LabelsTo(c, p - 1) BY <1>3 DEF LabelsTo, LabelPos
  <2>. QED BY <1>1, <1>3, <2>1 DEF CaseOf
<1>. QED BY <1>2, <1>3

(* Two labels have two cases, none of them 0.                              *)
LEMMA CaseOnce ==
    ASSUME NEW c, DOMAIN c \subseteq Nat, NEW p \in LabelPos(c), NEW q \in LabelPos(c),
           CaseOf(c, p) = CaseOf(c, q)
    PROVE  p = q
<1>1. ASSUME NEW a \in LabelPos(c), NEW b \in LabelPos(c), a < b, CaseOf(c, a) = CaseOf(c, b)
      PROVE  FALSE
  <2>1. a \in Nat /\ b \in Nat BY DEF LabelPos
  <2>2. LabelsTo(c, a) \in SUBSET LabelsTo(c, b) BY <1>1, <2>1 DEF LabelsTo, LabelPos
  <2>3. b \in LabelsTo(c, b) /\ b \notin LabelsTo(c, a) BY <1>1, <2>1 DEF LabelsTo
  <2>4. IsFiniteSet(LabelsTo(c, b)) BY <2>1, LabelsFinite
  <2>5. Cardinality(LabelsTo(c, a)) = Cardinality(LabelsTo(c, b)) BY <1>1 DEF CaseOf
  <2>6. LabelsTo(c, a) = LabelsTo(c, b) BY <2>2, <2>4, <2>5, FS_Subset
  <2>. QED BY <2>3, <2>6
<1>2. p \in Nat /\ q \in Nat BY DEF LabelPos
<1>. QED BY <1>1, <1>2

(* Case 0 is that of no label: the function begins there.                  *)
LEMMA CaseNotZero ==
    ASSUME NEW c, DOMAIN c \subseteq Nat, NEW p \in LabelPos(c)
    PROVE  CaseOf(c, p) # 0
<1>1. p \in Nat /\ p \in LabelsTo(c, p) BY DEF LabelsTo, LabelPos
<1>2. IsFiniteSet(LabelsTo(c, p)) BY <1>1, LabelsFinite
<1>. QED BY <1>1, <1>2, FS_EmptySet DEF CaseOf

(* What LabelMap says, when no label is placed twice.                      *)
LEMMA MapIs ==
    ASSUME NEW func, func.code \in Seq(IrInstr), LabelsOnce(func), NEW p \in LabelPos(func.code)
    PROVE  /\ func.code[p].label \in DOMAIN LabelMap(func.code)
           /\ LabelMap(func.code)[func.code[p].label] = CaseOf(func.code, p)
<1>. DEFINE c == func.code
            l == c[p].label
            LabelAt == {i \in DOMAIN c : c[i].op = "label"}
            Last(m) == CHOOSE i \in LabelAt :
                          c[i].label = m /\ \A j \in LabelAt : c[j].label = m => j <= i
<1>1. DOMAIN c = 1 .. Len(c) /\ Len(c) \in Nat BY LenProperties
<1>2. p \in LabelAt /\ LabelAt = LabelPos(c) BY DEF LabelPos
<1>3. \A j \in LabelAt : c[j].label = l => j = p BY <1>2 DEF LabelsOnce, LabelPos
<1>4. Last(l) = p
  <2>1. c[p].label = l /\ \A j \in LabelAt : c[j].label = l => j <= p BY <1>1, <1>2, <1>3
  <2>. QED BY <1>2, <1>3, <2>1
<1>5. LabelMap(c) = [m \in {c[i].label : i \in LabelAt} |->
                        Cardinality({i \in LabelAt : i <= Last(m)})]
  BY DEF LabelMap
<1>6. l \in {c[i].label : i \in LabelAt} BY <1>2
<1>. HIDE DEF LabelAt, Last
<1>7. LabelMap(c)[l] = Cardinality({i \in LabelAt : i <= p}) BY <1>4, <1>5, <1>6
<1>8. {i \in LabelAt : i <= p} = LabelsTo(c, p) BY <1>2 DEF LabelsTo
<1>. QED BY <1>5, <1>6, <1>7, <1>8 DEF CaseOf

(* The case a branch or a label names.                                     *)
LEMMA LabelGoes ==
    ASSUME NEW func, func.code \in Seq(IrInstr), LabelsOnce(func), NEW l \in Placed(func),
           g_label_map = LabelMap(func.code)
    PROVE  Goes(func.code, l, label_to_case(l))
<1>1. PICK p \in LabelPos(func.code) : func.code[p].label = l BY DEF Placed, LabelPos
<1>2. label_to_case(l) = CaseOf(func.code, p) BY <1>1, MapIs DEF label_to_case
<1>. QED BY <1>1, <1>2 DEF Goes

-----------------------------------------------------------------------------
(* The lines as they are printed.                                          *)
LEMMA LineFields ==
    /\ \A j, s : Line(j, s).j = j /\ Line(j, s).src = s
    /\ \A n, s : CaseLine(n, s).j = "case" /\ CaseLine(n, s).src = s /\ CaseLine(n, s).pc = n
    /\ \A n, s : GotoLine(n, s).j = "goto" /\ GotoLine(n, s).src = s /\ GotoLine(n, s).pc = n
    /\ \A n, o, s : /\ UnlessLine(n, o, s).j = "unless" /\ UnlessLine(n, o, s).src = s
                    /\ UnlessLine(n, o, s).pc = n
    /\ \A o, s : ReturnLine(o, s).j = "return" /\ ReturnLine(o, s).src = s
BY DEF Line, CaseLine, GotoLine, UnlessLine, ReturnLine

(* What an assignment prints.                                              *)
LEMMA AssignFields ==
    ASSUME NEW ins, NEW seq_mode \in BOOLEAN
    PROVE  /\ AssignLine(ins, seq_mode).j = "assign" /\ AssignLine(ins, seq_mode).src = pos
           /\ AssignLine(ins, seq_mode).dst = js_name(ins.dst)
           /\ AssignLine(ins, seq_mode).let = (seq_mode /\ js_name(ins.dst) \notin g_temps)
BY DEF Line, AssignLine

(* The cases among the lines, with one line more.                          *)
LEMMA CasesGrow ==
    ASSUME NEW ls, IsSeq(ls), NEW ln
    PROVE  /\ \A i \in 0 .. Len(ls) : CasesTo(Append(ls, ln), i) = CasesTo(ls, i)
           /\ Cardinality(CasesTo(Append(ls, ln), Len(ls) + 1)) =
                 Cardinality(CasesTo(ls, Len(ls))) + (IF ln.j = "case" THEN 1 ELSE 0)
           /\ Cardinality(CasesTo(ls, Len(ls))) \in Nat
<1>. DEFINE t == Append(ls, ln)
            m == Len(ls)
<1>1. m \in Nat /\ (\A i \in 1 .. m : t[i] = ls[i]) /\ t[m + 1] = ln BY SeqIs, SeqAppend
<1>. HIDE DEF t, m
<1>2. \A i \in 0 .. m : CasesTo(t, i) = CasesTo(ls, i) BY <1>1 DEF CasesTo
<1>3. CasesTo(ls, m) \in SUBSET (1 .. m) /\ IsFiniteSet(1 .. m) BY <1>1, FS_Interval DEF CasesTo
<1>4. IsFiniteSet(CasesTo(ls, m)) BY <1>3, FS_Subset
<1>5. Cardinality(CasesTo(ls, m)) \in Nat BY <1>4, FS_CardinalityType
<1>6. Cardinality(CasesTo(t, m + 1)) =
         Cardinality(CasesTo(ls, m)) + (IF ln.j = "case" THEN 1 ELSE 0)
  <2>1. CASE ln.j = "case"
    <3>1. CasesTo(t, m + 1) = CasesTo(ls, m) \cup {m + 1} BY <1>1, <2>1 DEF CasesTo
    <3>2. m + 1 \notin CasesTo(ls, m) BY <1>1 DEF CasesTo
    <3>3. Cardinality(CasesTo(t, m + 1)) = Cardinality(CasesTo(ls, m)) + 1
      BY <1>4, <3>1, <3>2, FS_AddElement
    <3>. QED BY <2>1, <3>3
  <2>2. CASE ln.j # "case"
    <3>1. CasesTo(t, m + 1) = CasesTo(ls, m) BY <1>1, <2>2 DEF CasesTo
    <3>. QED BY <1>5, <2>2, <3>1
  <2>. QED BY <2>1, <2>2
<1>. QED BY <1>2, <1>5, <1>6 DEF t, m

(* One line more.  It is behind the last instruction a line was printed    *)
(* for, and either belongs to the next one or closes the case before it.   *)
LEMMA AddLine ==
    ASSUME NEW c, NEW n \in Nat, DOMAIN c = 1 .. n, NEW ls, IsSeq(ls), NEW p \in Nat \ {0},
           Follows(c, ls, p), NEW ln, Stands(c, ln), ln.src = p, NEW q \in {p, p + 1},
           q = p => ln.j \notin Falls,
           q = p + 1 => p \in 1 .. n /\ (c[p].op = "label" <=> ln.j = "case")
    PROVE  Follows(c, Append(ls, ln), q)
<1>. DEFINE t == Append(ls, ln)
            m == Len(ls)
<1>1. /\ m \in Nat /\ IsSeq(t) /\ Len(t) = m + 1
      /\ \A i \in 1 .. m : t[i] = ls[i]
      /\ t[m + 1] = ln
  BY SeqIs, SeqAppend
<1>2. /\ \A i \in 0 .. m : CasesTo(t, i) = CasesTo(ls, i)
      /\ Cardinality(CasesTo(t, m + 1)) =
            Cardinality(CasesTo(ls, m)) + (IF ln.j = "case" THEN 1 ELSE 0)
  BY CasesGrow
<1>. HIDE DEF t
<1>3. Lined(c, ls, p) /\ Ordered(ls, p) /\ Covered(c, ls, p) /\ Numbered(c, ls, p) BY DEF Follows
<1>4. m > 0 BY <1>3 DEF Lined
<1>5. Lined(c, t, q)
  <2>1. ls[1].j = "case" /\ ls[1].pc = 0 /\ ls[1].src = 1 /\ \A i \in 2 .. m : Stands(c, ls[i])
    BY <1>3 DEF Lined
  <2>2. ASSUME NEW i \in 2 .. m + 1 PROVE Stands(c, t[i])
    <3>1. CASE i = m + 1 BY <1>1, <3>1
    <3>2. CASE i # m + 1
      <4>1. i \in 2 .. m /\ t[i] = ls[i] BY <1>1, <3>2
      <4>. QED BY <2>1, <4>1
    <3>. QED BY <3>1, <3>2
  <2>. QED BY <1>1, <1>4, <2>1, <2>2 DEF Lined
<1>6. Ordered(t, q)
  <2>1. \A i \in 1 .. m : ls[i].j \in Falls =>
           (IF i = m THEN p ELSE ls[i + 1].src) = ls[i].src + (IF i = 1 THEN 0 ELSE 1)
    BY <1>3 DEF Ordered, NextSrc
  <2>2. ASSUME NEW i \in 1 .. m + 1, t[i].j \in Falls
        PROVE  (IF i = m + 1 THEN q ELSE t[i + 1].src) = t[i].src + (IF i = 1 THEN 0 ELSE 1)
    <3>1. CASE i = m + 1
      <4>1. t[i] = ln /\ i # 1 BY <1>1, <1>4, <3>1
      <4>2. q = p + 1 BY <2>2, <4>1
      <4>. QED BY <3>1, <4>1, <4>2
    <3>2. CASE i = m
      <4>1. t[i] = ls[i] /\ t[i + 1] = ln /\ i # m + 1 BY <1>1, <1>4, <3>2
      <4>. QED BY <1>4, <2>1, <2>2, <3>2, <4>1
    <3>3. CASE i < m
      <4>1. t[i] = ls[i] /\ t[i + 1] = ls[i + 1] /\ i # m + 1 /\ i # m BY <1>1, <3>3
      <4>. QED BY <1>1, <2>1, <2>2, <3>3, <4>1
    <3>. QED BY <1>1, <3>1, <3>2, <3>3
  <2>. QED BY <1>1, <2>2 DEF Ordered, NextSrc
<1>7. Covered(c, t, q)
  <2>1. ASSUME NEW r \in LabelPos(c), r < q
        PROVE  \E i \in 2 .. m + 1 : t[i].j = "case" /\ t[i].src = r
    <3>1. r \in Nat BY DEF LabelPos
    <3>2. CASE r < p
      <4>1. PICK i \in 2 .. m : ls[i].j = "case" /\ ls[i].src = r BY <1>3, <3>2 DEF Covered
      <4>2. i \in 2 .. m + 1 /\ t[i] = ls[i] BY <1>1, <4>1
      <4>. QED BY <4>1, <4>2
    <3>3. CASE r = p
      <4>1. q = p + 1 BY <2>1, <3>3
      <4>2. c[p].op = "label" BY <3>3 DEF LabelPos
      <4>3. ln.j = "case" BY <4>1, <4>2
      <4>4. m + 1 \in 2 .. m + 1 /\ t[m + 1] = ln BY <1>1, <1>4
      <4>. QED BY <3>3, <4>3, <4>4
    <3>. QED BY <2>1, <3>1, <3>2, <3>3
  <2>. QED BY <1>1, <2>1 DEF Covered
<1>8. Numbered(c, t, q)
  <2>1. /\ \A i \in 1 .. m : ls[i].j = "case" => ls[i].pc = Cardinality(CasesTo(ls, i - 1))
        /\ Cardinality(CasesTo(ls, m)) = CaseOf(c, p - 1) + 1
    BY <1>3 DEF Numbered
  <2>2. CaseOf(c, p - 1) \in Nat BY LabelsFinite
  <2>3. q = p + 1 => CaseOf(c, p) = CaseOf(c, p - 1) + (IF ln.j = "case" THEN 1 ELSE 0)
    BY CaseNext
  <2>4. q = p => ln.j # "case" BY DEF Falls
  <2>5. Cardinality(CasesTo(t, m + 1)) = CaseOf(c, q - 1) + 1
    <3>1. CASE q = p BY <1>2, <2>1, <2>2, <2>4, <3>1
    <3>2. CASE q = p + 1
      <4>1. q - 1 = p BY <3>2
      <4>. QED BY <1>2, <2>1, <2>2, <2>3, <3>2, <4>1
    <3>. QED BY <3>1, <3>2
  <2>6. ASSUME NEW i \in 1 .. m + 1, t[i].j = "case"
        PROVE  t[i].pc = Cardinality(CasesTo(t, i - 1))
    <3>1. CASE i = m + 1
      <4>1. t[i] = ln BY <1>1, <3>1
      <4>2. q = p + 1 BY <2>4, <2>6, <4>1
      <4>3. ln.pc = CaseOf(c, p) BY <2>6, <4>1 DEF Stands
      <4>4. ln.pc = Cardinality(CasesTo(ls, m)) BY <2>1, <2>2, <2>3, <2>6, <4>1, <4>2, <4>3
      <4>5. CasesTo(t, i - 1) = CasesTo(ls, m) BY <1>1, <1>2, <3>1
      <4>. QED BY <4>1, <4>4, <4>5
    <3>2. CASE i # m + 1
      <4>1. i \in 1 .. m /\ t[i] = ls[i] /\ i - 1 \in 0 .. m BY <1>1, <3>2
      <4>2. CasesTo(t, i - 1) = CasesTo(ls, i - 1) BY <1>2, <4>1
      <4>. QED BY <2>1, <2>6, <4>1, <4>2
    <3>. QED BY <3>1, <3>2
  <2>. QED BY <1>1, <2>5, <2>6 DEF Numbered
<1>. QED BY <1>5, <1>6, <1>7, <1>8 DEF Follows, t

(* The case of the start of a function.                                    *)
LEMMA FirstCase ==
    ASSUME NEW c, DOMAIN c \subseteq Nat \ {0}
    PROVE  Follows(c, <<CaseLine(0, 1)>>, 1) /\ Sealed(<<CaseLine(0, 1)>>)
<1>. DEFINE ls == <<CaseLine(0, 1)>>
<1>1. Len(ls) = 1 /\ ls[1] = CaseLine(0, 1) BY SeqShort
<1>2. ls[1].j = "case" /\ ls[1].pc = 0 /\ ls[1].src = 1 BY <1>1, LineFields
<1>. HIDE DEF ls
<1>3. Lined(c, ls, 1) /\ Ordered(ls, 1) /\ Sealed(ls)
  BY <1>1, <1>2 DEF Lined, Ordered, NextSrc, Sealed
<1>4. Covered(c, ls, 1) BY DEF Covered, LabelPos
<1>5. Numbered(c, ls, 1)
  <2>1. LabelsTo(c, 0) = {} BY DEF LabelsTo, LabelPos
  <2>2. CasesTo(ls, 1) = {1} /\ CasesTo(ls, 0) = {} BY <1>2 DEF CasesTo
  <2>3. CaseOf(c, 0) = 0 /\ Cardinality(CasesTo(ls, 1)) = 1 /\ Cardinality(CasesTo(ls, 0)) = 0
    BY <2>1, <2>2, FS_EmptySet, FS_Singleton DEF CaseOf
  <2>. QED BY <1>1, <1>2, <2>3 DEF Numbered
<1>. QED BY <1>3, <1>4, <1>5 DEF Follows, ls

-----------------------------------------------------------------------------
(* The steps of codegen_js_func.                                           *)
LEMMA FuncIs ==
    ASSUME GInv, NEW k \in 1 .. Len(prog)
    PROVE  /\ prog[k] \in IrFunc
           /\ LabelsOnce(prog[k]) /\ Targets(prog[k]) \subseteq Placed(prog[k])
           /\ prog[k].code \in Seq(IrInstr)
           /\ Len(prog[k].code) \in Nat /\ DOMAIN prog[k].code = 1 .. Len(prog[k].code)
<1>1. prog \in Seq(IrFunc) /\ DOMAIN prog = 1 .. Len(prog) BY LenProperties DEF GInv, GoodProgram
<1>2. prog[k] \in IrFunc /\ LabelsOnce(prog[k]) /\ Targets(prog[k]) \subseteq Placed(prog[k])
  BY <1>1, ElementOfSeq DEF GInv, GoodProgram
<1>3. prog[k].code \in Seq(IrInstr) BY <1>2 DEF IrFunc
<1>. QED BY <1>2, <1>3, LenProperties

(* What is being printed.                                                  *)
LEMMA Current ==
    ASSUME GInv, pos > 0
    PROVE  /\ fi \in 1 .. Len(prog) /\ Len(prog) \in Nat /\ pos \in 1 .. Len(Func.code) + 1
           /\ Func \in IrFunc /\ LabelsOnce(Func) /\ Targets(Func) \subseteq Placed(Func)
           /\ Func.code \in Seq(IrInstr)
           /\ Len(Func.code) \in Nat /\ DOMAIN Func.code = 1 .. Len(Func.code)
           /\ InCode => /\ pos \in DOMAIN Func.code /\ Ins = Func.code[pos]
                        /\ Ins \in IrInstr /\ Ins.op \in IrOps
           /\ IsSeq(out) /\ Len(out) \in Nat /\ DOMAIN out = 1 .. Len(out)
           /\ IF has_labels(Func) THEN InMachine(Func.code) ELSE InSequence(Func)
<1>1. prog \in Seq(IrFunc) /\ Len(prog) \in Nat BY LenProperties DEF GInv, GoodProgram
<1>2. fi \in 1 .. Len(prog) /\ pos \in Nat /\ pos <= Len(Func.code) + 1 BY <1>1 DEF GInv
<1>3. /\ Func \in IrFunc /\ LabelsOnce(Func) /\ Targets(Func) \subseteq Placed(Func)
      /\ Func.code \in Seq(IrInstr)
      /\ Len(Func.code) \in Nat /\ DOMAIN Func.code = 1 .. Len(Func.code)
  BY <1>2, FuncIs DEF Func
<1>4. ASSUME InCode PROVE pos \in DOMAIN Func.code /\ Ins = Func.code[pos] /\ Ins \in IrInstr
  <2>1. pos \in 1 .. Len(Func.code) BY <1>2, <1>3, <1>4 DEF InCode
  <2>. QED BY <1>3, <2>1, ElementOfSeq DEF Ins
<1>5. \A x \in IrInstr : x.op \in IrOps BY DEF IrInstr
<1>6. IsSeq(out) BY DEF GInv
<1>7. IF has_labels(Func) THEN InMachine(Func.code) ELSE InSequence(Func) BY DEF GInv
<1>. QED BY <1>1, <1>2, <1>3, <1>4, <1>5, <1>6, <1>7, SeqIs

(* A state machine begins with case 0, a sequence with nothing.            *)
LEMMA BeginFuncKeeps == GInv /\ BeginFunc => GInv'
<1>. SUFFICES ASSUME GInv, BeginFunc PROVE GInv'
  OBVIOUS
<1>1. fi <= Len(prog) /\ UNCHANGED <<prog, fi, js>> /\ pos' = 1 /\ g_temps' = {}
      /\ g_label_map' = LabelMap(Func.code)
      /\ has_instructions' = FALSE /\ last_was_br_or_ret' = FALSE
      /\ out' = IF has_labels(Func) THEN <<CaseLine(0, 1)>> ELSE <<>>
  BY DEF BeginFunc
<1>2. fi \in 1 .. Len(prog) BY <1>1 DEF GInv
<1>3. Len(Func.code) \in Nat /\ DOMAIN Func.code = 1 .. Len(Func.code) BY <1>2, FuncIs DEF Func
<1>4. Func' = Func BY <1>1 DEF Func
<1>5. IsSeq(out') BY <1>1, SeqShort
<1>6. ASSUME has_labels(Func) PROVE InMachine(Func.code)'
  <2>1. out' = <<CaseLine(0, 1)>> BY <1>1, <1>6
  <2>2. Follows(Func.code, out', 1) /\ Sealed(out') BY <1>3, <2>1, FirstCase
  <2>. QED BY <1>1, <1>4, <2>2 DEF InMachine
<1>7. ASSUME ~has_labels(Func) PROVE InSequence(Func)'
  <2>1. out' = <<>> /\ Len(out') = 0 /\ DOMAIN out' = {} BY <1>1, <1>7, SeqShort
  <2>2. Sequential(Func, out', 1) BY <2>1 DEF Sequential, Lets, OneByOne, Counted
  <2>. QED BY <1>1, <1>4, <2>1, <2>2 DEF InSequence
<1>8. has_labels(Func)' = has_labels(Func) BY <1>4 DEF has_labels
<1>9. 1 <= Len(Func.code) + 1 BY <1>3
<1>. QED BY <1>1, <1>4, <1>5, <1>6, <1>7, <1>8, <1>9 DEF GInv

(* A line more that is no "break" behind a line control falls through.     *)
LEMMA SealedAppend ==
    ASSUME NEW ls, IsSeq(ls), Len(ls) > 0, Sealed(ls), NEW ln,
           ln.j = "break" => ls[Len(ls)].j \notin Falls
    PROVE  Sealed(Append(ls, ln))
<1>. DEFINE t == Append(ls, ln)
            m == Len(ls)
<1>1. m \in Nat /\ Len(t) = m + 1 /\ (\A i \in 1 .. m : t[i] = ls[i]) /\ t[m + 1] = ln
  BY SeqIs, SeqAppend
<1>. HIDE DEF t
<1>2. ASSUME NEW i \in 2 .. m + 1, t[i].j = "break" PROVE t[i - 1].j \notin Falls
  <2>1. i - 1 \in 1 .. m /\ t[i - 1] = ls[i - 1] BY <1>1
  <2>2. CASE i = m + 1
    <3>1. t[i] = ln /\ i - 1 = m BY <1>1, <2>2
    <3>. QED BY <1>2, <2>1, <3>1
  <2>3. CASE i # m + 1
    <3>1. i \in 2 .. m /\ t[i] = ls[i] BY <1>1, <2>3
    <3>. QED BY <1>2, <2>1, <3>1 DEF Sealed
  <2>. QED BY <2>2, <2>3
<1>. QED BY <1>1, <1>2 DEF Sealed, t

(* A sealed text stays so to its end when its last line is printed behind  *)
(* the last instruction.                                                   *)
LEMMA SealedToEndAppend ==
    ASSUME NEW c, NEW ls, IsSeq(ls), Len(ls) > 0, Sealed(ls), NEW ln, AtEnd(c, ln)
    PROVE  SealedToEnd(c, ls) /\ SealedToEnd(c, Append(ls, ln))
<1>. DEFINE t == Append(ls, ln)
            m == Len(ls)
<1>1. m \in Nat /\ Len(t) = m + 1 /\ (\A i \in 1 .. m : t[i] = ls[i]) /\ t[m + 1] = ln
  BY SeqIs, SeqAppend
<1>. HIDE DEF t
<1>2. \A i \in 2 .. m : ls[i - 1].j \in Falls => AtEnd(c, ls[i]) BY DEF Sealed, AtEnd
<1>3. ASSUME NEW i \in 2 .. m + 1, t[i - 1].j \in Falls PROVE AtEnd(c, t[i])
  <2>1. CASE i = m + 1 BY <1>1, <2>1
  <2>2. CASE i # m + 1
    <3>1. i \in 2 .. m /\ t[i] = ls[i] /\ t[i - 1] = ls[i - 1] BY <1>1, <2>2
    <3>. QED BY <1>2, <1>3, <3>1
  <2>. QED BY <2>1, <2>2
<1>. QED BY <1>1, <1>2, <1>3 DEF SealedToEnd, t

(* A step at an instruction of a state machine.                            *)
MachineStep(ls) ==
    /\ InCode /\ has_labels(Func)
    /\ out' = ls /\ pos' = pos + 1 /\ UNCHANGED <<prog, fi, g_label_map, js>>
    /\ has_instructions' \in BOOLEAN /\ last_was_br_or_ret' \in BOOLEAN
    /\ last_was_br_or_ret' => Ins.op \in Leaving
    /\ IsSeq(ls) /\ Follows(Func.code, ls, pos + 1) /\ Sealed(ls)
    /\ ls[Len(ls)].j \in Falls <=> Ins.op \notin Leaving

(* An instruction of a state machine; the lines follow the code to it.     *)
LEMMA MachineStepKeeps ==
    ASSUME GInv, NEW ls, MachineStep(ls)
    PROVE  GInv'
<1>1. /\ pos > 0 /\ InCode /\ has_labels(Func)
      /\ out' = ls /\ pos' = pos + 1 /\ UNCHANGED <<prog, fi, g_label_map, js>>
  BY DEF MachineStep, InCode
<1>2. /\ fi \in 1 .. Len(prog) /\ pos \in DOMAIN Func.code /\ Ins = Func.code[pos]
      /\ DOMAIN Func.code = 1 .. Len(Func.code) /\ Len(Func.code) \in Nat
      /\ InMachine(Func.code)
  BY <1>1, Current
<1>3. Func' = Func BY <1>1 DEF Func
<1>4. pos' - 1 = pos /\ pos' > 1 /\ pos' \in Nat /\ pos' <= Len(Func.code) + 1 BY <1>1, <1>2
<1>5. InMachine(Func.code)'
  <2>1. /\ Follows(Func.code, ls, pos + 1) /\ Sealed(ls)
        /\ ls[Len(ls)].j \in Falls <=> Ins.op \notin Leaving
        /\ last_was_br_or_ret' => Ins.op \in Leaving
    BY DEF MachineStep
  <2>2. g_label_map' = LabelMap(Func.code) BY <1>1, <1>2 DEF InMachine
  <2>. QED BY <1>1, <1>2, <1>3, <1>4, <2>1, <2>2 DEF InMachine
<1>6. has_labels(Func)' BY <1>1, <1>3 DEF has_labels
<1>7. IsSeq(out') /\ has_instructions' \in BOOLEAN /\ last_was_br_or_ret' \in BOOLEAN
  BY <1>1 DEF MachineStep
<1>8. /\ GoodProgram(prog') /\ fi' \in 1 .. Len(prog') + 1
      /\ IsSeq(js') /\ Len(js') = fi' - 1
      /\ \A k \in 1 .. fi' - 1 : PrintedAs(prog'[k], js'[k])
  BY <1>1 DEF GInv
<1>9. fi' <= Len(prog') BY <1>1, <1>2
<1>. QED BY <1>3, <1>4, <1>5, <1>6, <1>7, <1>8, <1>9 DEF GInv

(* A label.                                                                *)
LEMMA GenLabelKeeps == GInv /\ GenLabel => GInv'
<1>. SUFFICES ASSUME GInv, GenLabel PROVE GInv'
  OBVIOUS
<1>. DEFINE c == Func.code
            n == label_to_case(Ins.label)
            close == IF ~has_instructions       THEN <<>>
                     ELSE IF last_was_br_or_ret THEN <<Line("break", pos)>>
                     ELSE <<GotoLine(n, pos)>>
            done == IF ~has_instructions       THEN out
                    ELSE IF last_was_br_or_ret THEN Append(out, Line("break", pos))
                    ELSE Append(out, GotoLine(n, pos))
            ls == Append(done, CaseLine(n, pos))
<1>1. /\ InCode /\ pos > 0 /\ Ins.op = "label"
      /\ out' = out \o (close \o <<CaseLine(n, pos)>>)
      /\ pos' = pos + 1 /\ UNCHANGED <<prog, fi, g_label_map, js>>
      /\ has_instructions' = FALSE /\ last_was_br_or_ret' = FALSE
  BY DEF GenLabel, InCode, Emit
<1>2. /\ LabelsOnce(Func) /\ c \in Seq(IrInstr) /\ Len(c) \in Nat /\ DOMAIN c = 1 .. Len(c)
      /\ pos \in DOMAIN c /\ Ins = c[pos]
      /\ IsSeq(out) /\ Len(out) \in Nat
      /\ IF has_labels(Func) THEN InMachine(c) ELSE InSequence(Func)
  BY <1>1, Current
<1>3. has_labels(Func) BY <1>1, <1>2 DEF has_labels
<1>4. /\ g_label_map = LabelMap(c) /\ Follows(c, out, pos) /\ Sealed(out)
      /\ pos > 1 => (out[Len(out)].j \in Falls <=> c[pos - 1].op \notin Leaving)
      /\ last_was_br_or_ret => pos > 1 /\ c[pos - 1].op \in Leaving
      /\ Len(out) > 0
  BY <1>2, <1>3 DEF InMachine, Follows, Lined
<1>5. pos \in LabelPos(c) BY <1>1, <1>2 DEF LabelPos
<1>6. n = CaseOf(c, pos)
  BY <1>2, <1>4, <1>5, MapIs DEF label_to_case
<1>7. out' = ls
  BY <1>1, <1>2, SeqTwo DEF GInv
<1>8. IsSeq(done) /\ Follows(c, done, pos) /\ Sealed(done) /\ Len(done) > 0
  <2>1. ASSUME has_instructions, last_was_br_or_ret
        PROVE  LET s == Append(out, Line("break", pos))
               IN  IsSeq(s) /\ Follows(c, s, pos) /\ Sealed(s) /\ Len(s) > 0
    <3>. DEFINE ln == Line("break", pos)
    <3>1. ln.j = "break" /\ ln.src = pos BY LineFields
    <3>. HIDE DEF ln
    <3>2. Stands(c, ln) /\ ln.j \notin Falls BY <1>2, <3>1 DEF Stands, Falls
    <3>3. Follows(c, Append(out, ln), pos) BY <1>2, <1>4, <3>1, <3>2, AddLine
    <3>4. Sealed(Append(out, ln)) BY <1>2, <1>4, <2>1, SealedAppend
    <3>5. IsSeq(Append(out, ln)) /\ Len(Append(out, ln)) > 0 BY <1>2, SeqAppend
    <3>. QED BY <3>3, <3>4, <3>5 DEF ln
  <2>2. ASSUME has_instructions, ~last_was_br_or_ret
        PROVE  LET s == Append(out, GotoLine(n, pos))
               IN  IsSeq(s) /\ Follows(c, s, pos) /\ Sealed(s) /\ Len(s) > 0
    <3>. DEFINE ln == GotoLine(n, pos)
    <3>1. ln.j = "goto" /\ ln.src = pos /\ ln.pc = n BY LineFields
    <3>. HIDE DEF ln
    <3>2. Goes(c, c[pos].label, n) BY <1>5, <1>6 DEF Goes
    <3>3. c[pos].op \in OpsOf("goto") BY <1>1, <1>2 DEF OpsOf
    <3>4. Stands(c, ln) /\ ln.j \notin Falls BY <1>2, <3>1, <3>2, <3>3 DEF Stands, Falls
    <3>5. Follows(c, Append(out, ln), pos) BY <1>2, <1>4, <3>1, <3>4, AddLine
    <3>6. Sealed(Append(out, ln)) BY <1>2, <1>4, <3>1, SealedAppend
    <3>7. IsSeq(Append(out, ln)) /\ Len(Append(out, ln)) > 0 BY <1>2, SeqAppend
    <3>. QED BY <3>5, <3>6, <3>7 DEF ln
  <2>3. has_instructions \in BOOLEAN /\ last_was_br_or_ret \in BOOLEAN BY DEF GInv
  <2>4. CASE ~has_instructions
    <3>1. done = out BY <2>4
    <3>. HIDE DEF done
    <3>. QED BY <1>2, <1>4, <3>1
  <2>5. CASE has_instructions /\ last_was_br_or_ret
    <3>1. done = Append(out, Line("break", pos)) BY <2>5
    <3>. HIDE DEF done
    <3>. QED BY <2>1, <2>5, <3>1
  <2>6. CASE has_instructions /\ ~last_was_br_or_ret
    <3>1. done = Append(out, GotoLine(n, pos)) BY <2>6
    <3>. HIDE DEF done
    <3>. QED BY <2>2, <2>6, <3>1
  <2>. QED BY <2>3, <2>4, <2>5, <2>6
<1>9. /\ IsSeq(ls) /\ Len(ls) = Len(done) + 1 /\ ls[Len(done) + 1] = CaseLine(n, pos)
  BY <1>8, SeqAppend
<1>10. Follows(c, ls, pos + 1) /\ Sealed(ls) /\ ls[Len(ls)].j \in Falls
  <2>. DEFINE ln == CaseLine(n, pos)
  <2>1. ln.j = "case" /\ ln.src = pos /\ ln.pc = n BY LineFields
  <2>. HIDE DEF ln, done, n
  <2>2. c[pos].op \in OpsOf("case") BY <1>1, <1>2 DEF OpsOf
  <2>3. Stands(c, ln) /\ ln.j \in Falls BY <1>2, <1>6, <2>1, <2>2 DEF Stands, Falls
  <2>4. Follows(c, Append(done, ln), pos + 1) BY <1>1, <1>2, <1>8, <2>1, <2>3, AddLine
  <2>5. Sealed(Append(done, ln)) BY <1>8, <2>1, SealedAppend
  <2>. QED BY <1>9, <2>3, <2>4, <2>5 DEF ln
<1>11. "label" \notin Leaving BY DEF Leaving
<1>. HIDE DEF done, n, close
<1>12. MachineStep(ls) BY <1>1, <1>3, <1>7, <1>9, <1>10, <1>11 DEF MachineStep
<1>. QED BY <1>12, MachineStepKeeps

(* Any other instruction of a state machine.                               *)
LEMMA GenStateMachineInstrKeeps == GInv /\ GenStateMachineInstr => GInv'
<1>. SUFFICES ASSUME GInv, GenStateMachineInstr PROVE GInv'
  OBVIOUS
<1>. DEFINE c == Func.code
            n == label_to_case(Ins.label)
            ln == CASE Ins.op = "br"      -> GotoLine(n, pos)
                    [] Ins.op = "brfalse" -> UnlessLine(n, Ins.a, pos)
                    [] Ins.op = "ret"     -> ReturnLine(Ins.a, pos)
                    [] OTHER              -> AssignLine(Ins, FALSE)
            ls == Append(out, ln)
<1>1. /\ InCode /\ pos > 0 /\ has_labels(Func) /\ Ins.op # "label"
      /\ out' = out \o InstrLines
      /\ pos' = pos + 1 /\ UNCHANGED <<prog, fi, g_label_map, js>>
      /\ has_instructions' = TRUE /\ last_was_br_or_ret' = (Ins.op \in Leaving)
  BY DEF Leaving, GenStateMachineInstr, InCode, Emit
<1>2. /\ LabelsOnce(Func) /\ Targets(Func) \subseteq Placed(Func)
      /\ c \in Seq(IrInstr) /\ Len(c) \in Nat /\ DOMAIN c = 1 .. Len(c)
      /\ pos \in DOMAIN c /\ Ins = c[pos] /\ Ins.op \in IrOps
      /\ IsSeq(out) /\ Len(out) \in Nat
      /\ InMachine(c)
  BY <1>1, Current
<1>3. /\ g_label_map = LabelMap(c) /\ Follows(c, out, pos) /\ Sealed(out) /\ Len(out) > 0
  BY <1>2 DEF InMachine, Follows, Lined
<1>4. InstrLines = <<ln>> BY DEF InstrLines
<1>5. out' = ls
  <2>. HIDE DEF ln
  <2>. QED BY <1>1, <1>2, <1>4, SeqAppend
<1>6. ASSUME Ins.op \in {"br", "brfalse"} PROVE Goes(c, c[pos].label, n)
  <2>1. Ins.label \in Targets(Func) BY <1>2, <1>6 DEF Targets
  <2>2. Ins.label \in Placed(Func) BY <1>2, <2>1
  <2>. QED BY <1>2, <1>3, <2>2, LabelGoes
<1>7. Stands(c, ln) /\ ln.src = pos /\ ln.j \notin {"case", "break"}
      /\ (ln.j \in Falls <=> Ins.op \notin Leaving)
  <2>1. CASE Ins.op = "br"
    <3>1. ln.j = "goto" /\ ln.src = pos /\ ln.pc = n BY <2>1, LineFields
    <3>. HIDE DEF ln, n
    <3>2. Ins.op \in OpsOf("goto") BY <2>1 DEF OpsOf
    <3>. QED BY <1>2, <1>6, <2>1, <3>1, <3>2 DEF Stands, Falls, Leaving
  <2>2. CASE Ins.op = "brfalse"
    <3>1. ln.j = "unless" /\ ln.src = pos /\ ln.pc = n BY <2>2, LineFields
    <3>. HIDE DEF ln, n
    <3>2. Ins.op \in OpsOf("unless") BY <2>2 DEF OpsOf
    <3>. QED BY <1>2, <1>6, <2>2, <3>1, <3>2 DEF Stands, Falls, Leaving
  <2>3. CASE Ins.op = "ret"
    <3>1. ln.j = "return" /\ ln.src = pos BY <2>3, LineFields
    <3>. HIDE DEF ln, n
    <3>2. Ins.op \in OpsOf("return") BY <2>3 DEF OpsOf
    <3>. QED BY <1>2, <2>3, <3>1, <3>2 DEF Stands, Falls, Leaving
  <2>4. CASE Ins.op \notin {"br", "brfalse", "ret"}
    <3>1. ln = AssignLine(Ins, FALSE) BY <2>4
    <3>. HIDE DEF ln, n
    <3>2. ln.j = "assign" /\ ln.src = pos BY <3>1, AssignFields
    <3>3. Ins.op \in OpsOf("assign") BY <1>1, <1>2, <2>4 DEF OpsOf
    <3>. QED BY <1>2, <2>4, <3>2, <3>3 DEF Stands, Falls, Leaving
  <2>. QED BY <2>1, <2>2, <2>3, <2>4
<1>. HIDE DEF ln, n
<1>8. Follows(c, ls, pos + 1)
  <2>1. c[pos].op = "label" <=> ln.j = "case" BY <1>1, <1>2, <1>7
  <2>. QED BY <1>1, <1>2, <1>3, <1>7, <2>1, AddLine
<1>9. Sealed(ls) BY <1>2, <1>3, <1>7, SealedAppend
<1>10. IsSeq(ls) /\ ls[Len(ls)] = ln BY <1>2, SeqAppend
<1>11. MachineStep(ls)
  <2>. DEFINE leaves == Ins.op \in Leaving
  <2>1. leaves \in BOOLEAN OBVIOUS
  <2>2. last_was_br_or_ret' = leaves BY <1>1
  <2>. HIDE DEF leaves
  <2>3. last_was_br_or_ret' \in BOOLEAN /\ (last_was_br_or_ret' => leaves) BY <2>1, <2>2
  <2>. USE DEF leaves
  <2>. QED BY <1>1, <1>5, <1>7, <1>8, <1>9, <1>10, <2>3 DEF MachineStep
<1>. QED BY <1>11, MachineStepKeeps

(* An instruction of a sequence that prints nothing.                       *)
LEMMA SameSequence ==
    ASSUME NEW func, NEW ls, NEW p, Sequential(func, ls, p), NEW q,
           Straight(func) => Counted(func.code, ls, q)
    PROVE  Sequential(func, ls, q)
BY DEF Sequential

(* One line more in a sequence.                                            *)
LEMMA LongerSequence ==
    ASSUME NEW func, NEW n \in Nat, DOMAIN func.code = 1 .. n, Len(func.code) = n,
           NEW p \in 1 .. n, NEW ls, IsSeq(ls), Sequential(func, ls, p), NEW ln,
           ln.src = p, ln.j = (IF func.code[p].op = "ret" THEN "return" ELSE "assign"),
           ln.j = "assign" =>
              (ln.let <=> ln.dst \notin {ls[i].dst : i \in {h \in DOMAIN ls : ls[h].j = "assign"}})
    PROVE  Sequential(func, Append(ls, ln), p + 1)
<1>. DEFINE t == Append(ls, ln)
            m == Len(ls)
<1>1. /\ m \in Nat /\ DOMAIN ls = 1 .. m
      /\ IsSeq(t) /\ Len(t) = m + 1 /\ DOMAIN t = 1 .. m + 1
      /\ (\A i \in 1 .. m : t[i] = ls[i]) /\ t[m + 1] = ln
  BY SeqIs, SeqAppend
<1>. HIDE DEF t
<1>2. \A i \in DOMAIN t : t[i].j \in {"assign", "return"}
  <2>1. ln.j \in {"assign", "return"} OBVIOUS
  <2>2. \A i \in DOMAIN ls : ls[i].j \in {"assign", "return"} BY DEF Sequential
  <2>3. ASSUME NEW i \in 1 .. m + 1 PROVE t[i].j \in {"assign", "return"}
    <3>1. CASE i = m + 1 BY <1>1, <2>1, <3>1
    <3>2. CASE i # m + 1
      <4>1. i \in 1 .. m BY <1>1, <3>2
      <4>. QED BY <1>1, <2>2, <4>1
    <3>. QED BY <3>1, <3>2
  <2>. QED BY <1>1, <2>3
<1>3. Lets(t)
  <2>1. Lets(ls) BY DEF Sequential
  <2>2. ASSUME NEW i \in 1 .. m + 1, t[i].j = "assign"
        PROVE  t[i].let <=> \A h \in 1 .. i - 1 : t[h].j = "assign" => t[h].dst # t[i].dst
    <3>1. CASE i = m + 1
      <4>1. t[i] = ln BY <1>1, <3>1
      <4>2. ln.let <=> \A h \in 1 .. m : ls[h].j = "assign" => ls[h].dst # ln.dst
        BY <1>1, <2>2, <4>1
      <4>3. i - 1 = m BY <1>1, <3>1
      <4>. QED BY <1>1, <4>1, <4>2, <4>3
    <3>2. CASE i # m + 1
      <4>1. i \in 1 .. m /\ t[i] = ls[i] BY <1>1, <3>2
      <4>2. \A h \in 1 .. i - 1 : t[h] = ls[h] BY <1>1, <4>1
      <4>. QED BY <1>1, <2>1, <2>2, <4>1, <4>2 DEF Lets
    <3>. QED BY <3>1, <3>2
  <2>. QED BY <1>1, <2>2 DEF Lets
<1>4. ASSUME Straight(func) PROVE OneByOne(func.code, t) /\ Counted(func.code, t, p + 1)
  <2>1. OneByOne(func.code, ls) /\ Counted(func.code, ls, p) BY <1>4 DEF Sequential
  <2>2. p = m + 1 BY <1>1, <2>1 DEF Counted
  <2>3. ASSUME NEW i \in 1 .. m + 1
        PROVE  /\ t[i].src = i /\ i \in DOMAIN func.code
               /\ t[i].j = IF func.code[i].op = "ret" THEN "return" ELSE "assign"
    <3>1. CASE i = m + 1 BY <1>1, <2>2, <3>1
    <3>2. CASE i # m + 1
      <4>1. i \in 1 .. m /\ t[i] = ls[i] BY <1>1, <3>2
      <4>. QED BY <1>1, <2>1, <4>1 DEF OneByOne
    <3>. QED BY <3>1, <3>2
  <2>4. OneByOne(func.code, t) BY <1>1, <2>3 DEF OneByOne
  <2>5. Counted(func.code, t, p + 1) BY <1>1, <2>2 DEF Counted
  <2>. QED BY <2>4, <2>5
<1>. QED BY <1>2, <1>3, <1>4 DEF Sequential, t

(* An instruction of a sequence; g_temps has the names assigned.           *)
LEMMA GenSequentialInstrKeeps == GInv /\ GenSequentialInstr => GInv'
<1>. SUFFICES ASSUME GInv, GenSequentialInstr PROVE GInv'
  OBVIOUS
<1>. DEFINE c == Func.code
<1>1. /\ InCode /\ pos > 0 /\ ~has_labels(Func)
      /\ pos' = pos + 1
      /\ UNCHANGED <<prog, fi, g_label_map, has_instructions, last_was_br_or_ret, js>>
      /\ CASE Ins.op \in {"br", "brfalse"} -> out' = out \o <<>> /\ UNCHANGED g_temps
           [] Ins.op = "ret" ->
                /\ out' = out \o (IF Func.name = "_entry" /\ Ins.a.kind = "none" THEN <<>>
                                  ELSE <<ReturnLine(Ins.a, pos)>>)
                /\ UNCHANGED g_temps
           [] OTHER -> /\ out' = out \o <<AssignLine(Ins, TRUE)>>
                       /\ g_temps' = g_temps \cup {js_name(Ins.dst)}
  BY DEF GenSequentialInstr, InCode, Emit
<1>2. /\ fi \in 1 .. Len(prog) /\ Targets(Func) \subseteq Placed(Func)
      /\ c \in Seq(IrInstr) /\ Len(c) \in Nat /\ DOMAIN c = 1 .. Len(c)
      /\ pos \in 1 .. Len(c) /\ Ins = c[pos]
      /\ IsSeq(out) /\ Len(out) \in Nat /\ DOMAIN out = 1 .. Len(out)
      /\ InSequence(Func)
  BY <1>1, Current
<1>3. Sequential(Func, out, pos)
      /\ g_temps = {out[i].dst : i \in {h \in DOMAIN out : out[h].j = "assign"}}
  BY <1>2 DEF InSequence
<1>4. Ins.op \notin {"br", "brfalse"}
  <2>1. Placed(Func) = {} BY <1>1 DEF Placed, has_labels
  <2>2. Ins.op \in {"br", "brfalse"} => Ins.label \in Targets(Func) BY <1>2 DEF Targets
  <2>. QED BY <1>2, <2>1, <2>2
<1>5. Func' = Func BY <1>1 DEF Func
<1>6. IsSeq(out') /\ InSequence(Func)'
  <2>1. CASE Ins.op = "ret" /\ Func.name = "_entry" /\ Ins.a.kind = "none"
    <3>1. out' = out /\ UNCHANGED g_temps BY <1>1, <1>2, <2>1, SeqNone
    <3>2. ASSUME Straight(Func) PROVE Counted(c, out, pos + 1)
      <4>1. pos = Len(c) BY <1>1, <1>2, <2>1, <3>2 DEF Straight
      <4>2. Counted(c, out, pos) BY <1>3, <3>2 DEF Sequential
      <4>. QED BY <1>2, <2>1, <4>1, <4>2 DEF Counted
    <3>3. Sequential(Func, out, pos + 1) BY <1>3, <3>2, SameSequence
    <3>. QED BY <1>1, <1>2, <1>3, <1>5, <3>1, <3>3 DEF InSequence
  <2>2. CASE Ins.op = "ret" /\ ~(Func.name = "_entry" /\ Ins.a.kind = "none")
    <3>. DEFINE ln == ReturnLine(Ins.a, pos)
    <3>1. ln.j = "return" /\ ln.src = pos BY LineFields
    <3>2. out' = out \o <<ln>> /\ UNCHANGED g_temps BY <1>1, <2>2
    <3>. HIDE DEF ln
    <3>3. /\ IsSeq(Append(out, ln)) /\ out' = Append(out, ln)
          /\ Len(Append(out, ln)) = Len(out) + 1
          /\ \A i \in 1 .. Len(out) : Append(out, ln)[i] = out[i]
          /\ Append(out, ln)[Len(out) + 1] = ln
      BY <1>2, <3>2, SeqAppend
    <3>4. DOMAIN Append(out, ln) = 1 .. Len(out) + 1 BY <3>3, SeqIs
    <3>5. ln.j # "assign" /\ ln.j = (IF c[pos].op = "ret" THEN "return" ELSE "assign")
      BY <1>2, <2>2, <3>1
    <3>6. Sequential(Func, Append(out, ln), pos + 1) BY <1>2, <1>3, <3>1, <3>5, LongerSequence
    <3>7. {out[i].dst : i \in {h \in DOMAIN out : out[h].j = "assign"}}
             = {Append(out, ln)[i].dst :
                   i \in {h \in DOMAIN Append(out, ln) : Append(out, ln)[h].j = "assign"}}
      BY <1>2, <3>3, <3>4, <3>5
    <3>. QED BY <1>1, <1>3, <1>5, <3>2, <3>3, <3>6, <3>7 DEF InSequence
  <2>3. CASE Ins.op # "ret"
    <3>. DEFINE ln == AssignLine(Ins, TRUE)
                d  == js_name(Ins.dst)
    <3>1. ln.j = "assign" /\ ln.src = pos /\ ln.dst = d /\ ln.let = (TRUE /\ d \notin g_temps)
      BY AssignFields
    <3>2. out' = out \o <<ln>> /\ g_temps' = g_temps \cup {d} BY <1>1, <1>4, <2>3
    <3>. HIDE DEF ln, d
    <3>3. /\ IsSeq(Append(out, ln)) /\ out' = Append(out, ln)
          /\ Len(Append(out, ln)) = Len(out) + 1
          /\ \A i \in 1 .. Len(out) : Append(out, ln)[i] = out[i]
          /\ Append(out, ln)[Len(out) + 1] = ln
      BY <1>2, <3>2, SeqAppend
    <3>4. DOMAIN Append(out, ln) = 1 .. Len(out) + 1 BY <3>3, SeqIs
    <3>5. ln.j = (IF c[pos].op = "ret" THEN "return" ELSE "assign") BY <1>2, <2>3, <3>1
    <3>6. ln.let <=> ln.dst \notin {out[i].dst : i \in {h \in DOMAIN out : out[h].j = "assign"}}
      BY <1>3, <3>1
    <3>7. Sequential(Func, Append(out, ln), pos + 1) BY <1>2, <1>3, <3>1, <3>5, <3>6, LongerSequence
    <3>8. {out[i].dst : i \in {h \in DOMAIN out : out[h].j = "assign"}} \cup {d}
             = {Append(out, ln)[i].dst :
                   i \in {h \in DOMAIN Append(out, ln) : Append(out, ln)[h].j = "assign"}}
      BY <1>2, <3>1, <3>3, <3>4
    <3>. QED BY <1>1, <1>3, <1>5, <3>2, <3>3, <3>7, <3>8 DEF InSequence
  <2>. QED BY <2>1, <2>2, <2>3
<1>7. ~has_labels(Func)' BY <1>1, <1>5 DEF has_labels
<1>8. fi' <= Len(prog') /\ pos' \in Nat /\ pos' <= Len(Func'.code) + 1 BY <1>1, <1>2, <1>5
<1>9. /\ GoodProgram(prog') /\ fi' \in 1 .. Len(prog') + 1
      /\ has_instructions' \in BOOLEAN /\ last_was_br_or_ret' \in BOOLEAN
      /\ IsSeq(js') /\ Len(js') = fi' - 1
      /\ \A k \in 1 .. fi' - 1 : PrintedAs(prog'[k], js'[k])
  BY <1>1 DEF GInv
<1>. QED BY <1>6, <1>7, <1>8, <1>9 DEF GInv

(* The end of a function.                                                  *)
LEMMA EndFuncKeeps == GInv /\ EndFunc => GInv'
<1>. SUFFICES ASSUME GInv, EndFunc PROVE GInv'
  OBVIOUS
<1>. DEFINE c == Func.code
            ln == Line("break", pos)
            ls == IF has_labels(Func) /\ has_instructions THEN Append(out, ln) ELSE out
            text == [name |-> Func.name, machine |-> has_labels(Func),
                     declared |-> Declared(Func), lines |-> ls]
<1>1. /\ pos > 0 /\ pos > Len(c)
      /\ js' = Append(js, [name |-> Func.name, machine |-> has_labels(Func),
                           declared |-> Declared(Func),
                           lines |-> out \o (IF has_labels(Func) /\ has_instructions
                                             THEN <<ln>> ELSE <<>>)])
      /\ out' = <<>> /\ pos' = 0 /\ fi' = fi + 1
      /\ UNCHANGED <<prog, has_instructions, last_was_br_or_ret>>
  BY DEF EndFunc
<1>2. /\ fi \in 1 .. Len(prog) /\ Len(prog) \in Nat
      /\ c \in Seq(IrInstr) /\ Len(c) \in Nat /\ DOMAIN c = 1 .. Len(c)
      /\ pos = Len(c) + 1
      /\ IsSeq(out) /\ Len(out) \in Nat /\ DOMAIN out = 1 .. Len(out)
      /\ IF has_labels(Func) THEN InMachine(c) ELSE InSequence(Func)
  BY <1>1, Current
<1>3. out \o (IF has_labels(Func) /\ has_instructions THEN <<ln>> ELSE <<>>) = ls
  BY <1>2, SeqAppend, SeqNone
<1>4. js' = Append(js, text) BY <1>1, <1>3
<1>5. IsSeq(ls) BY <1>2, SeqAppend
<1>6. ASSUME has_labels(Func)
      PROVE  /\ Follows(c, ls, Len(c) + 1) /\ SealedToEnd(c, ls)
             /\ Leaves(c) => Sealed(ls) /\ ls[Len(ls)].j \notin Falls
  <2>1. /\ Follows(c, out, pos) /\ Sealed(out) /\ Len(out) > 0
        /\ pos > 1 => (out[Len(out)].j \in Falls <=> c[pos - 1].op \notin Leaving)
    BY <1>2, <1>6 DEF InMachine, Follows, Lined
  <2>2. Leaves(c) => out[Len(out)].j \notin Falls BY <1>2, <2>1 DEF Leaves
  <2>5. AtEnd(c, ln) /\ ln.j = "break" /\ ln.src = pos BY <1>2, LineFields DEF AtEnd
  <2>6. SealedToEnd(c, out) /\ SealedToEnd(c, Append(out, ln))
    <3>. HIDE DEF c, ln
    <3>. QED BY <1>2, <2>1, <2>5, SealedToEndAppend
  <2>3. CASE ~has_instructions BY <1>2, <2>1, <2>2, <2>3, <2>6
  <2>4. CASE has_instructions
    <3>1. ls = Append(out, ln) BY <1>6, <2>4
    <3>2. ln.j = "break" /\ ln.src = pos BY <2>5
    <3>. HIDE DEF ln, ls
    <3>3. Stands(c, ln) /\ ln.j \notin Falls BY <1>2, <3>2 DEF Stands, Falls
    <3>4. Follows(c, ls, pos) BY <1>2, <2>1, <3>1, <3>2, <3>3, AddLine
    <3>5. Leaves(c) => Sealed(ls) BY <1>2, <2>1, <2>2, <3>1, SealedAppend
    <3>6. ls[Len(ls)] = ln BY <1>2, <3>1, SeqAppend
    <3>. QED BY <1>2, <2>6, <3>1, <3>3, <3>4, <3>5, <3>6
  <2>. QED BY <2>3, <2>4 DEF GInv
<1>7. ASSUME ~has_labels(Func) PROVE Sequential(Func, ls, Len(c) + 1)
  BY <1>2, <1>7 DEF InSequence
<1>8. PrintedAs(Func, text)
  <2>1. text.machine = has_labels(Func) /\ text.lines = ls OBVIOUS
  <2>. HIDE DEF text, ls
  <2>. QED BY <1>5, <1>6, <1>7, <2>1 DEF PrintedAs
<1>. HIDE DEF text, ls
<1>9. /\ IsSeq(js') /\ Len(js') = fi
      /\ \A k \in 1 .. fi - 1 : js'[k] = js[k]
      /\ js'[fi] = text
  BY <1>2, <1>4, SeqAppend DEF GInv
<1>10. ASSUME NEW k \in 1 .. fi' - 1 PROVE PrintedAs(prog'[k], js'[k])
  <2>1. CASE k = fi BY <1>1, <1>8, <1>9, <2>1 DEF Func
  <2>2. CASE k # fi
    <3>1. k \in 1 .. fi - 1 BY <1>1, <1>2, <2>2
    <3>. QED BY <1>1, <1>9, <3>1 DEF GInv
  <2>. QED BY <2>1, <2>2
<1>11. fi' \in 1 .. Len(prog') + 1 /\ fi' - 1 = fi
  <2>1. prog' = prog /\ fi' = fi + 1 BY <1>1
  <2>2. fi \in 1 .. Len(prog) /\ Len(prog) \in Nat BY <1>2
  <2>. HIDE DEF c, ln
  <2>. QED BY <2>1, <2>2
<1>12. IsSeq(out') BY <1>1, SeqShort
<1>13. GoodProgram(prog') /\ has_instructions' \in BOOLEAN /\ last_was_br_or_ret' \in BOOLEAN
  BY <1>1 DEF GInv
<1>14. pos' \in Nat /\ ~(pos' > 0) BY <1>1
<1>15. IsSeq(js') /\ Len(js') = fi' - 1 BY <1>9, <1>11
<1>. HIDE DEF c, ln
<1>. QED BY <1>10, <1>11, <1>12, <1>13, <1>14, <1>15 DEF GInv

-----------------------------------------------------------------------------
(* The cases of a state machine.                                           *)
LEMMA SameCase ==
    ASSUME NEW c, NEW n \in Nat, DOMAIN c = 1 .. n, NEW ls, NEW p, Lined(c, ls, p),
           NEW h \in 1 .. Len(ls), NEW i \in 1 .. Len(ls),
           ls[h].j = "case", ls[i].j = "case", ls[h].pc = ls[i].pc
    PROVE  ls[h].src = ls[i].src
<1>1. ls[1].pc = 0 BY DEF Lined
<1>2. ASSUME NEW k \in 2 .. Len(ls), ls[k].j = "case"
      PROVE  ls[k].src \in LabelPos(c) /\ ls[k].pc = CaseOf(c, ls[k].src) /\ ls[k].pc # 0
  <2>1. Stands(c, ls[k]) BY DEF Lined
  <2>2. ls[k].src \in LabelPos(c) /\ ls[k].pc = CaseOf(c, ls[k].src)
    BY <1>2, <2>1 DEF Stands, OpsOf, LabelPos
  <2>. QED BY <2>2, CaseNotZero
<1>3. CASE h = 1 \/ i = 1
  <2>1. h = 1 /\ i = 1 BY <1>1, <1>2, <1>3
  <2>. QED BY <2>1
<1>4. CASE h # 1 /\ i # 1
  <2>1. h \in 2 .. Len(ls) /\ i \in 2 .. Len(ls) BY <1>4
  <2>2. CaseOf(c, ls[h].src) = CaseOf(c, ls[i].src) BY <1>2, <2>1
  <2>3. ls[h].src \in LabelPos(c) /\ ls[i].src \in LabelPos(c) BY <1>2, <2>1
  <2>. QED BY <2>2, <2>3, CaseOnce
<1>. QED BY <1>3, <1>4

CaseLines(ls, n) == {i \in DOMAIN ls : ls[i].j = "case" /\ ls[i].pc = n}

(* Where a jump goes.                                                      *)
LEMMA JumpGoes ==
    ASSUME NEW c, NEW n \in Nat, DOMAIN c = 1 .. n, Len(c) = n, NEW ls, IsSeq(ls),
           Follows(c, ls, n + 1), NEW l, NEW k, Goes(c, l, k)
    PROVE  \E p \in LabelPos(c) :
              /\ c[p].label = l
              /\ CaseLines(ls, k) # {}
              /\ \A i \in CaseLines(ls, k) : ls[i].src = p
<1>1. PICK p \in LabelPos(c) : c[p].label = l /\ k = CaseOf(c, p) BY DEF Goes
<1>2. Lined(c, ls, n + 1) /\ Covered(c, ls, n + 1) BY DEF Follows
<1>3. p \in 1 .. n /\ p < n + 1 BY DEF LabelPos
<1>4. PICK i \in 2 .. Len(ls) : ls[i].j = "case" /\ ls[i].src = p BY <1>2, <1>3 DEF Covered
<1>5. Len(ls) \in Nat /\ DOMAIN ls = 1 .. Len(ls) BY SeqIs
<1>6. ls[i].pc = k BY <1>1, <1>2, <1>4 DEF Lined, Stands
<1>7. i \in CaseLines(ls, k) BY <1>4, <1>5, <1>6 DEF CaseLines
<1>8. ASSUME NEW h \in CaseLines(ls, k) PROVE ls[h].src = p
  <2>1. h \in 1 .. Len(ls) /\ ls[h].j = "case" /\ ls[h].pc = ls[i].pc
    BY <1>5, <1>6 DEF CaseLines
  <2>2. i \in 1 .. Len(ls) BY <1>5, <1>7 DEF CaseLines
  <2>3. ls[h].src = ls[i].src BY <1>2, <1>4, <2>1, <2>2, SameCase
  <2>. QED BY <1>4, <2>3
<1>. QED BY <1>1, <1>7, <1>8

(* A printed function.                                                     *)
LEMMA TextIs ==
    ASSUME GInv, Printed, NEW r \in DOMAIN js
    PROVE  /\ r \in 1 .. Len(prog) /\ r # 0 /\ PrintedAs(prog[r], js[r])
           /\ IsSeq(js[r].lines) /\ Len(js[r].lines) \in Nat
           /\ DOMAIN js[r].lines = 1 .. Len(js[r].lines)
           /\ prog[r].code \in Seq(IrInstr) /\ Len(prog[r].code) \in Nat
           /\ DOMAIN prog[r].code = 1 .. Len(prog[r].code)
           /\ js[r].machine = has_labels(prog[r])
           /\ js[r].machine =>
                 /\ Follows(prog[r].code, js[r].lines, Len(prog[r].code) + 1)
                 /\ Lined(prog[r].code, js[r].lines, Len(prog[r].code) + 1)
                 /\ SealedToEnd(prog[r].code, js[r].lines)
                 /\ Leaves(prog[r].code) =>
                       Sealed(js[r].lines) /\ js[r].lines[Len(js[r].lines)].j \notin Falls
           /\ ~js[r].machine => Sequential(prog[r], js[r].lines, Len(prog[r].code) + 1)
<1>1. prog \in Seq(IrFunc) /\ Len(prog) \in Nat BY LenProperties DEF GInv, GoodProgram
<1>2. fi = Len(prog) + 1 BY <1>1 DEF GInv, Printed
<1>3. Len(js) = Len(prog) /\ DOMAIN js = 1 .. Len(prog) BY <1>1, <1>2, SeqIs DEF GInv
<1>4. r \in 1 .. Len(prog) /\ r \in 1 .. fi - 1 BY <1>1, <1>2, <1>3
<1>5. PrintedAs(prog[r], js[r]) BY <1>4 DEF GInv
<1>6. r # 0 BY <1>1, <1>4
<1>7. IsSeq(js[r].lines) /\ js[r].machine = has_labels(prog[r]) BY <1>5 DEF PrintedAs
<1>8. js[r].machine =>
         /\ Follows(prog[r].code, js[r].lines, Len(prog[r].code) + 1)
         /\ Lined(prog[r].code, js[r].lines, Len(prog[r].code) + 1)
         /\ SealedToEnd(prog[r].code, js[r].lines)
         /\ Leaves(prog[r].code) =>
               Sealed(js[r].lines) /\ js[r].lines[Len(js[r].lines)].j \notin Falls
  BY <1>5 DEF PrintedAs, Follows
<1>9. ~js[r].machine => Sequential(prog[r], js[r].lines, Len(prog[r].code) + 1)
  BY <1>5 DEF PrintedAs
<1>. QED BY <1>4, <1>5, <1>6, <1>7, <1>8, <1>9, FuncIs, SeqIs

-----------------------------------------------------------------------------
(* The steps of the engine keep its invariant.                             *)
Runs == BInv /\ Execute /\ run \in DOMAIN js

(* What is known of the function that runs.                                *)
LEMMA RunningText ==
    ASSUME BInv, Printed, run \in DOMAIN js
    PROVE  /\ run \in 1 .. Len(prog) /\ run # 0
           /\ IsSeq(Lines) /\ Len(Lines) \in Nat /\ DOMAIN Lines = 1 .. Len(Lines)
           /\ Code \in Seq(IrInstr) /\ Len(Code) \in Nat /\ DOMAIN Code = 1 .. Len(Code)
           /\ LabelsOnce(prog[run]) /\ Targets(prog[run]) \subseteq Placed(prog[run])
           /\ js[run].machine = has_labels(prog[run])
           /\ js[run].machine =>
                 /\ Follows(Code, Lines, Len(Code) + 1) /\ Lined(Code, Lines, Len(Code) + 1)
                 /\ Len(Lines) > 0 /\ SealedToEnd(Code, Lines)
                 /\ Leaves(Code) => Sealed(Lines) /\ Lines[Len(Lines)].j \notin Falls
           /\ ~js[run].machine => Sequential(prog[run], Lines, Len(Code) + 1)
<1>1. GInv BY DEF BInv
<1>2. run \in 1 .. Len(prog) BY <1>1, TextIs
<1>3. LabelsOnce(prog[run]) /\ Targets(prog[run]) \subseteq Placed(prog[run]) BY <1>1, <1>2, FuncIs
<1>4. js[run].machine => Len(Lines) > 0 BY <1>1, TextIs DEF Lines, Lined
<1>. QED BY <1>1, <1>3, <1>4, TextIs DEF Lines, Code

(* A line of a machine that control is at, but the first, stands for an    *)
(* instruction; a line of any other function assigns or returns.           *)
LEMMA HereStands ==
    ASSUME BInv, Printed, run \in DOMAIN js, at \in DOMAIN Lines
    PROVE  /\ js[run].machine =>
                 /\ at = 1 => Here.j = "case" /\ Here.src = 1
                 /\ at # 1 => at \in 2 .. Len(Lines) /\ Stands(Code, Here)
           /\ ~js[run].machine => Here.j \in {"assign", "return"}
<1>1. /\ DOMAIN Lines = 1 .. Len(Lines)
      /\ js[run].machine => Lined(Code, Lines, Len(Code) + 1)
      /\ ~js[run].machine => Sequential(prog[run], Lines, Len(Code) + 1)
  BY RunningText
<1>2. at # 1 => at \in 2 .. Len(Lines) BY <1>1
<1>. QED BY <1>1, <1>2 DEF Lined, Sequential, Here

(* In a running function only run, pc and at matter.                       *)
Moves ==
    /\ BInv /\ Execute /\ status = "running"
    /\ run' = run /\ status' \in {"running", "returned"}

(* A line it may be at, and a case for pc, are all the invariant asks for. *)
LEMMA MovesKeep ==
    ASSUME Moves,
           at' \in 0 .. Len(Lines) + 1,
           js[run].machine => Cases(pc') # {},
           ~js[run].machine => at' > 0,
           js[run].machine /\ at' \in 2 .. Len(Lines) => AtEnd(Code, Lines[at']),
           js[run].machine /\ Leaves(Code) =>
              at' <= Len(Lines) /\ (at' > 0 => Lines[at'].j # "break")
    PROVE  EInv'
<1>1. Started BY DEF Moves, BInv, EInv
<1>2. /\ js' = js /\ prog' = prog /\ fi' = fi /\ pos' = pos /\ run' = run
      /\ status' \in {"running", "returned"}
  BY DEF Moves, Execute, cgvars
<1>3. Lines' = Lines /\ Code' = Code BY <1>2 DEF Lines, Code
<1>4. Cases(pc)' = Cases(pc') BY <1>3 DEF Cases
<1>5. Here' = Lines[at'] BY <1>3 DEF Here
<1>6. Printed' /\ run' \in DOMAIN js' BY <1>1, <1>2 DEF Started, Printed
<1>7. Started' BY <1>2, <1>3, <1>4, <1>5, <1>6 DEF Started
<1>. QED BY <1>2, <1>7 DEF EInv

(* What Started says when the engine moves.                                *)
LEMMA MovesFrom ==
    ASSUME BInv, status = "running"
    PROVE  /\ Printed /\ run \in DOMAIN js /\ at \in 0 .. Len(Lines) + 1
           /\ js[run].machine => Cases(pc) # {}
           /\ ~js[run].machine => at > 0
           /\ js[run].machine /\ at \in 2 .. Len(Lines) => AtEnd(Code, Here)
           /\ js[run].machine /\ Leaves(Code) => at <= Len(Lines) /\ (at > 0 => Here.j # "break")
BY DEF BInv, EInv, Started

(* The case found is a line.                                               *)
LEMMA SwitchKeeps == BInv /\ Execute /\ Switch => EInv'
<1>. SUFFICES ASSUME BInv, Execute, Switch PROVE EInv'
  OBVIOUS
<1>1. /\ status = "running" /\ at = 0 /\ at' \in Cases(pc)
      /\ run' = run /\ pc' = pc /\ status' = status
  BY DEF Switch, Running
<1>2. Moves BY <1>1 DEF Moves
<1>3. Printed /\ run \in DOMAIN js /\ js[run].machine /\ Cases(pc) # {} BY <1>1, MovesFrom
<1>4. Len(Lines) \in Nat /\ DOMAIN Lines = 1 .. Len(Lines) BY <1>3, RunningText
<1>5. at' \in 1 .. Len(Lines) /\ Lines[at'].j = "case" BY <1>1, <1>4 DEF Cases
<1>6. AtEnd(Code, Lines[at']) BY <1>5 DEF AtEnd
<1>. QED BY <1>1, <1>2, <1>3, <1>4, <1>5, <1>6, MovesKeep

(* Behind a line that control falls through is no break, but at the end.   *)
LEMMA FallThroughKeeps == BInv /\ Execute /\ FallThrough => EInv'
<1>. SUFFICES ASSUME BInv, Execute, FallThrough PROVE EInv'
  OBVIOUS
<1>1. /\ status = "running" /\ at \in DOMAIN Lines /\ Lines[at].j \in Falls /\ at' = at + 1
      /\ run' = run /\ pc' = pc /\ status' = status
  BY DEF FallThrough, OnLine, Running, Here, Falls
<1>2. Moves BY <1>1 DEF Moves
<1>3. Printed /\ run \in DOMAIN js /\ (js[run].machine => Cases(pc) # {}) BY <1>1, MovesFrom
<1>4. /\ Len(Lines) \in Nat /\ DOMAIN Lines = 1 .. Len(Lines)
      /\ js[run].machine => SealedToEnd(Code, Lines)
      /\ js[run].machine /\ Leaves(Code) => Sealed(Lines) /\ Lines[Len(Lines)].j \notin Falls
  BY <1>3, RunningText
<1>5. at' \in 2 .. Len(Lines) + 1 /\ at' - 1 = at BY <1>1, <1>4
<1>6. ASSUME js[run].machine, Leaves(Code)
      PROVE  at' <= Len(Lines) /\ (at' > 0 => Lines[at'].j # "break")
  <2>1. at # Len(Lines) BY <1>1, <1>4, <1>6
  <2>2. at' \in 2 .. Len(Lines) BY <1>4, <1>5, <2>1
  <2>3. Lines[at' - 1].j \in Falls BY <1>1, <1>5
  <2>4. Sealed(Lines) BY <1>4, <1>6
  <2>5. Lines[at'].j = "break" => Lines[at' - 1].j \notin Falls BY <2>2, <2>4 DEF Sealed
  <2>6. at' <= Len(Lines) BY <1>4, <2>2
  <2>. QED BY <2>3, <2>5, <2>6
<1>7. at' > 0 /\ at' \in 0 .. Len(Lines) + 1 BY <1>4, <1>5
<1>8. ASSUME js[run].machine, at' \in 2 .. Len(Lines) PROVE AtEnd(Code, Lines[at'])
  <2>1. Lines[at' - 1].j \in Falls BY <1>1, <1>5
  <2>2. SealedToEnd(Code, Lines) BY <1>4, <1>8
  <2>. QED BY <1>8, <2>1, <2>2 DEF SealedToEnd
<1>. QED BY <1>1, <1>2, <1>3, <1>6, <1>7, <1>8, MovesKeep

(* The pc of a jump has its case.                                          *)
LEMMA SetPcAndBreakKeeps == BInv /\ Execute /\ SetPcAndBreak => EInv'
<1>. SUFFICES ASSUME BInv, Execute, SetPcAndBreak PROVE EInv'
  OBVIOUS
<1>1. /\ status = "running" /\ at \in DOMAIN Lines /\ Here.j \in {"goto", "unless"}
      /\ pc' = Here.pc /\ at' = 0 /\ run' = run /\ status' = status
  BY DEF SetPcAndBreak, OnLine, Running
<1>2. Moves BY <1>1 DEF Moves
<1>3. Printed /\ run \in DOMAIN js BY <1>1, MovesFrom
<1>4. js[run].machine /\ Stands(Code, Here) BY <1>1, <1>3, HereStands
<1>5. /\ Len(Lines) \in Nat /\ IsSeq(Lines) /\ Len(Code) \in Nat /\ DOMAIN Code = 1 .. Len(Code)
      /\ Follows(Code, Lines, Len(Code) + 1)
  BY <1>3, <1>4, RunningText
<1>6. Goes(Code, Code[Here.src].label, Here.pc) BY <1>1, <1>4 DEF Stands
<1>7. CaseLines(Lines, Here.pc) # {} BY <1>5, <1>6, JumpGoes
<1>8. Cases(pc') # {} BY <1>1, <1>7 DEF Cases, CaseLines
<1>9. 0 \in 0 .. Len(Lines) + 1 /\ 0 <= Len(Lines) /\ ~(0 > 0) /\ 0 \notin 2 .. Len(Lines)
  BY <1>5
<1>. QED BY <1>1, <1>2, <1>4, <1>8, <1>9, MovesKeep

(* The end of the switch leaves pc alone.                                  *)
LEMMA EndOfSwitchKeeps == BInv /\ Execute /\ EndOfSwitch => EInv'
<1>. SUFFICES ASSUME BInv, Execute, EndOfSwitch PROVE EInv'
  OBVIOUS
<1>1. /\ status = "running" /\ at' = 0 /\ run' = run /\ pc' = pc /\ status' = status
      /\ (at \in DOMAIN Lines /\ Here.j = "break") \/ js[run].machine
  BY DEF EndOfSwitch, OnLine, Running, PastEnd
<1>2. Moves BY <1>1 DEF Moves
<1>3. Printed /\ run \in DOMAIN js /\ (js[run].machine => Cases(pc) # {}) BY <1>1, MovesFrom
<1>4. js[run].machine BY <1>1, <1>3, HereStands
<1>5. Len(Lines) \in Nat BY <1>3, RunningText
<1>6. 0 \in 0 .. Len(Lines) + 1 /\ 0 <= Len(Lines) /\ ~(0 > 0) /\ 0 \notin 2 .. Len(Lines)
  BY <1>5
<1>. QED BY <1>1, <1>2, <1>3, <1>4, <1>6, MovesKeep

(* A return leaves everything but status alone.                            *)
LEMMA JsReturnKeeps == BInv /\ Execute /\ JsReturn => EInv'
<1>. SUFFICES ASSUME BInv, Execute, JsReturn PROVE EInv'
  OBVIOUS
<1>1. /\ status = "running" /\ at' = at /\ run' = run /\ pc' = pc /\ status' = "returned"
  BY DEF JsReturn, OnLine, Running, PastEnd
<1>2. Moves BY <1>1 DEF Moves
<1>. QED BY <1>1, <1>2, MovesFrom, MovesKeep DEF Here

(* A call begins at case 0 or at the first line.                           *)
LEMMA JsCallKeeps == BInv /\ Execute /\ JsCall => EInv'
<1>. SUFFICES ASSUME BInv, Execute, JsCall PROVE EInv'
  OBVIOUS
<1>1. /\ status' = "running" /\ run' \in DOMAIN js /\ pc' = 0
      /\ at' = IF js[run'].machine THEN 0 ELSE 1
  BY DEF JsCall
<1>2. GInv /\ Printed BY DEF BInv, Execute
<1>3. js' = js /\ prog' = prog /\ fi' = fi /\ pos' = pos BY DEF Execute, cgvars
<1>. DEFINE ls == js[run'].lines
            c  == prog[run'].code
<1>4. /\ Len(ls) \in Nat /\ DOMAIN ls = 1 .. Len(ls)
      /\ js[run'].machine => Lined(c, ls, Len(c) + 1)
  BY <1>1, <1>2, TextIs
<1>5. Lines' = ls /\ Code' = c BY <1>3 DEF Lines, Code
<1>6. ASSUME js[run'].machine PROVE Cases(pc)' # {}
  <2>1. 1 \in DOMAIN ls /\ ls[1].j = "case" /\ ls[1].pc = 0 BY <1>4, <1>6 DEF Lined
  <2>. HIDE DEF ls
  <2>2. 1 \in Cases(pc)' BY <1>1, <1>5, <2>1 DEF Cases
  <2>. QED BY <2>2
<1>7. Printed' BY <1>2, <1>3 DEF Printed
<1>. HIDE DEF ls, c
<1>8. /\ at' \in 0 .. Len(ls) + 1
      /\ js[run'].machine => at' <= Len(ls) /\ ~(at' > 0) /\ at' \notin 2 .. Len(ls)
  BY <1>1, <1>4
<1>9. Started' BY <1>1, <1>3, <1>5, <1>6, <1>7, <1>8 DEF Started
<1>. QED BY <1>1, <1>9 DEF EInv

-----------------------------------------------------------------------------
(* The invariant of the back end.                                          *)
LEMMA StartBInv == GoodProgram(prog) /\ Start => BInv
<1>. SUFFICES ASSUME GoodProgram(prog), Start PROVE BInv
  OBVIOUS
<1>1. /\ fi = 1 /\ pos = 0
      /\ has_instructions = FALSE /\ last_was_br_or_ret = FALSE /\ out = <<>> /\ js = <<>>
      /\ run = 0 /\ pc = 0 /\ at = 0 /\ status = "idle"
  BY DEF Start, codegen_js_init, JsIdle
<1>2. Len(prog) \in Nat BY LenProperties DEF GoodProgram
<1>3. GInv
  <2>1. fi \in 1 .. Len(prog) + 1 /\ fi - 1 = 0 /\ pos \in Nat /\ ~(pos > 0) BY <1>1, <1>2
  <2>2. has_instructions \in BOOLEAN /\ last_was_br_or_ret \in BOOLEAN BY <1>1
  <2>3. IsSeq(js) /\ Len(js) = 0 /\ IsSeq(out) BY <1>1, SeqShort
  <2>4. \A k \in 1 .. 0 : PrintedAs(prog[k], js[k]) OBVIOUS
  <2>. QED BY <2>1, <2>2, <2>3, <2>4 DEF GInv
<1>4. EInv BY <1>1 DEF EInv
<1>. QED BY <1>3, <1>4 DEF BInv

(* The IR it is given has its labels in order.                             *)
LEMMA InitBInv == Init => BInv
BY StartBInv, IrAssumption DEF Init, GoodProgram

(* The generator prints before a function runs.                            *)
LEMMA GeneratorKeeps == BInv /\ codegen_js_func /\ UNCHANGED exec => BInv' /\ status = "idle"
<1>. SUFFICES ASSUME BInv, codegen_js_func, UNCHANGED exec PROVE BInv' /\ status = "idle"
  OBVIOUS
<1>1. GInv /\ EInv /\ Len(prog) \in Nat /\ pos \in Nat BY LenProperties DEF BInv, GInv, GoodProgram
<1>2. GInv'
  BY <1>1, BeginFuncKeeps, GenLabelKeeps, GenStateMachineInstrKeeps, GenSequentialInstrKeeps,
     EndFuncKeeps DEF codegen_js_func
<1>3. ~Printed
  <2>1. CASE BeginFunc
    <3>1. fi <= Len(prog) BY <2>1 DEF BeginFunc
    <3>2. fi \in Int BY <1>1 DEF GInv
    <3>. QED BY <1>1, <3>1, <3>2 DEF Printed
  <2>2. CASE GenLabel \/ GenStateMachineInstr \/ GenSequentialInstr \/ EndFunc
    <3>1. pos > 0 BY <2>2 DEF GenLabel, GenStateMachineInstr, GenSequentialInstr, EndFunc, InCode
    <3>. QED BY <3>1 DEF Printed
  <2>. QED BY <2>1, <2>2 DEF codegen_js_func
<1>4. status = "idle" /\ run = 0 /\ pc = 0 /\ at = 0 BY <1>1, <1>3 DEF EInv, Started
<1>5. EInv' BY <1>4 DEF EInv, exec
<1>. QED BY <1>2, <1>4, <1>5 DEF BInv

(* A step of the engine leaves what was printed alone.                     *)
LEMMA EngineKeeps == BInv /\ Execute => BInv'
<1>. SUFFICES ASSUME BInv, Execute PROVE BInv'
  OBVIOUS
<1>1. UNCHANGED cgvars BY DEF Execute
<1>2. GInv' BY <1>1 DEF BInv, GInv, cgvars, state, Func, InMachine, InSequence, has_labels
<1>3. EInv'
  BY JsCallKeeps, SwitchKeeps, FallThroughKeeps, SetPcAndBreakKeeps, EndOfSwitchKeeps,
     JsReturnKeeps DEF Execute, JsStep
<1>. QED BY <1>2, <1>3 DEF BInv

(* A step that changes nothing.                                            *)
LEMMA StutterKeeps == BInv /\ UNCHANGED vars => BInv'
<1>. SUFFICES ASSUME BInv, UNCHANGED vars PROVE BInv'
  OBVIOUS
<1>1. UNCHANGED cgvars /\ UNCHANGED exec BY DEF vars
<1>2. GInv' BY <1>1 DEF BInv, GInv, cgvars, state, Func, InMachine, InSequence, has_labels
<1>3. EInv'
  BY <1>1 DEF BInv, EInv, Started, Printed, Lines, Here, Cases, Code, cgvars, state, exec
<1>. QED BY <1>2, <1>3 DEF BInv

(* Every step.                                                             *)
LEMMA NextBInv == BInv /\ [Next]_vars => BInv'
BY GeneratorKeeps, EngineKeeps, StutterKeeps DEF Next, Finish

(* The invariant of the back end holds in every state.                     *)
LEMMA Invariant == Spec => []BInv
BY InitBInv, NextBInv, PTL DEF Spec

(* What was printed, where the invariant holds.                            *)
LEMMA JumpsPrinted == BInv => JumpsLand
<1>. SUFFICES ASSUME BInv, NEW k \in DOMAIN js
              PROVE  LET lines == js[k].lines
                         cases == {i \in DOMAIN lines : lines[i].j = "case"}
                     IN  /\ \A i \in cases : lines[i].pc = Cardinality({c \in cases : c < i})
                         /\ \A i \in DOMAIN lines : lines[i].j \in {"goto", "unless"} =>
                                \E c \in cases : lines[c].pc = lines[i].pc
  BY DEF JumpsLand
<1>. DEFINE ls == js[k].lines
            cases == {i \in DOMAIN ls : ls[i].j = "case"}
            c == prog[k].code
<1>1. GInv /\ fi - 1 \in Nat /\ DOMAIN js = 1 .. fi - 1
  BY SeqIs DEF BInv, GInv, GoodProgram
<1>2. k \in 1 .. fi - 1 /\ PrintedAs(prog[k], js[k]) BY <1>1 DEF GInv
<1>3. k \in 1 .. Len(prog)
  <2>1. Len(prog) \in Nat /\ fi \in 1 .. Len(prog) + 1
    BY <1>1, LenProperties DEF GInv, GoodProgram
  <2>. QED BY <1>2, <2>1
<1>4. Len(c) \in Nat /\ DOMAIN c = 1 .. Len(c) BY <1>1, <1>3, FuncIs
<1>5. IsSeq(ls) BY <1>2 DEF PrintedAs
<1>6. Len(ls) \in Nat /\ DOMAIN ls = 1 .. Len(ls) BY <1>5, SeqIs
<1>7. CASE has_labels(prog[k])
  <2>1. Follows(c, ls, Len(c) + 1) BY <1>2, <1>7 DEF PrintedAs
  <2>. HIDE DEF ls, c
  <2>2. ASSUME NEW i \in cases PROVE ls[i].pc = Cardinality({h \in cases : h < i})
    <3>1. i \in 1 .. Len(ls) /\ ls[i].j = "case" BY <1>6
    <3>2. ls[i].pc = Cardinality(CasesTo(ls, i - 1)) BY <2>1, <3>1 DEF Follows, Numbered
    <3>3. CasesTo(ls, i - 1) = {h \in cases : h < i} BY <1>6, <3>1 DEF CasesTo
    <3>. QED BY <3>2, <3>3
  <2>3. ASSUME NEW i \in DOMAIN ls, ls[i].j \in {"goto", "unless"}
        PROVE  \E h \in cases : ls[h].pc = ls[i].pc
    <3>1. Lined(c, ls, Len(c) + 1) BY <2>1 DEF Follows
    <3>2. i \in 2 .. Len(ls) BY <1>6, <2>3, <3>1 DEF Lined
    <3>3. Goes(c, c[ls[i].src].label, ls[i].pc) BY <2>3, <3>1, <3>2 DEF Lined, Stands
    <3>4. CaseLines(ls, ls[i].pc) # {} BY <1>4, <1>5, <2>1, <3>3, JumpGoes
    <3>. QED BY <3>4 DEF CaseLines
  <2>. QED BY <2>2, <2>3 DEF ls
<1>8. CASE ~has_labels(prog[k])
  <2>1. \A i \in DOMAIN ls : ls[i].j \in {"assign", "return"}
    BY <1>2, <1>8 DEF PrintedAs, Sequential
  <2>. QED BY <2>1
<1>. QED BY <1>7, <1>8

(* The names assigned so far are the ones declared.                        *)
LEMMA LetsPrinted == BInv => LetAtFirstAssignment
<1>. SUFFICES ASSUME BInv, NEW k \in DOMAIN js, NEW i \in DOMAIN js[k].lines,
                     js[k].lines[i].j = "assign", ~js[k].machine
              PROVE  js[k].lines[i].let <=>
                        \A h \in 1 .. i - 1 : js[k].lines[h].j = "assign" =>
                            js[k].lines[h].dst # js[k].lines[i].dst
  BY DEF LetAtFirstAssignment
<1>1. GInv /\ DOMAIN js = 1 .. fi - 1 BY SeqIs DEF BInv, GInv
<1>2. PrintedAs(prog[k], js[k]) BY <1>1 DEF GInv
<1>3. Lets(js[k].lines) BY <1>2 DEF PrintedAs, Sequential
<1>. QED BY <1>3 DEF Lets

(* The cases of a printed state machine are 0, 1, 2, ... and every "pc ="  *)
(* names one of them; other functions have neither cases nor jumps.        *)
THEOREM JumpsCorrect == Spec => []JumpsLand
BY Invariant, JumpsPrinted, PTL

(* In a sequential function "let" is on the first assignment of a name and *)
(* on no other.                                                            *)
THEOREM LetsCorrect == Spec => []LetAtFirstAssignment
BY Invariant, LetsPrinted, PTL

-----------------------------------------------------------------------------
(* The engine as the machine of IrMachine.                                 *)
EndOf(text, c) == IF ~text.machine /\ c # <<>> /\ c[Len(c)].op = "ret" THEN Len(c) ELSE Len(c) + 1

(* The instruction a printed function is at, its code being c.             *)
IpIn(text, c, n, i) ==
    IF i = 0 THEN text.lines[CHOOSE h \in CaseLines(text.lines, n) : TRUE].src
    ELSE IF i > Len(text.lines) THEN EndOf(text, c)
    ELSE text.lines[i].src

(* The instruction of the running function, by what was printed of it.     *)
LEMMA IpIs ==
    ASSUME run \in Nat \ {0}, at \in Nat, Len(Lines) \in Nat
    PROVE  IpOf = IpIn(js[run], Code, pc, at)
<1>1. EndIp = EndOf(js[run], Code) BY DEF EndIp, EndOf
<1>2. Cases(pc) = CaseLines(js[run].lines, pc) BY DEF Cases, CaseLines, Lines
<1>3. CASE at = 0 BY <1>2, <1>3 DEF IpOf, IpIn, Lines
<1>4. CASE at > Len(Lines) BY <1>1, <1>4 DEF IpOf, IpIn, Lines
<1>5. CASE at \in 1 .. Len(Lines) BY <1>5 DEF IpOf, IpIn, Lines, Here
<1>. QED BY <1>3, <1>4, <1>5

(* The same after a step.                                                  *)
LEMMA IpNext ==
    ASSUME run' \in Nat \ {0}, at' \in Nat, js' = js, prog' = prog, Len(js[run'].lines) \in Nat
    PROVE  IpOf' = IpIn(js[run'], prog[run'].code, pc', at')
<1>1. Lines' = js[run'].lines /\ Code' = prog[run'].code BY DEF Lines, Code
<1>2. EndIp' = EndOf(js[run'], prog[run'].code) BY <1>1 DEF EndIp, EndOf
<1>3. Cases(pc)' = CaseLines(js[run'].lines, pc') BY <1>1 DEF Cases, CaseLines
<1>4. CASE at' = 0 BY <1>1, <1>3, <1>4 DEF IpOf, IpIn
<1>5. CASE at' > Len(js[run'].lines) BY <1>1, <1>2, <1>5 DEF IpOf, IpIn
<1>6. CASE at' \in 1 .. Len(js[run'].lines) BY <1>1, <1>6 DEF IpOf, IpIn, Here
<1>. QED BY <1>4, <1>5, <1>6

(* The steps of IrMachine.                                                 *)
MachineStays == UNCHANGED Machine!vars
Same == run' = run /\ run # 0 /\ prog' = prog /\ status = "running"

(* No instruction.                                                         *)
LEMMA Stays ==
    ASSUME run' = run, prog' = prog, status' = status, IpOf' = IpOf
    PROVE  MachineStays
BY DEF MachineStays, Machine!vars, Code

(* The next instruction.                                                   *)
LEMMA Advances ==
    ASSUME Same, status' = status, IpOf \in DOMAIN Code, Code[IpOf].op \notin Leaving,
           IpOf' = IpOf + 1
    PROVE  Machine!Next
<1>1. Code' = Code BY DEF Same, Code
<1>. QED BY <1>1 DEF Same, Leaving, Machine!Next, Machine!Step, Machine!Advance

(* A branch taken.                                                         *)
LEMMA Jumps ==
    ASSUME Same, status' = status, IpOf \in DOMAIN Code, Code[IpOf].op \in {"br", "brfalse"},
           IpOf' \in LabelPos(Code), Code[IpOf'].label = Code[IpOf].label
    PROVE  Machine!Next
<1>1. Code' = Code BY DEF Same, Code
<1>2. IpOf' \in {i \in DOMAIN Code : Code[i].op = "label" /\ Code[i].label = Code[IpOf].label}
  BY DEF LabelPos
<1>. QED BY <1>1, <1>2 DEF Same, Machine!Next, Machine!Step, Machine!Jump, Machine!LabelAt

(* A ret, or the end of the code.                                          *)
LEMMA Returns ==
    ASSUME Same, status' = "returned", IpOf' = IpOf,
           (IpOf \in DOMAIN Code /\ Code[IpOf].op = "ret") \/ IpOf = Len(Code) + 1
    PROVE  Machine!Next
<1>1. Code' = Code BY DEF Same, Code
<1>. QED BY <1>1 DEF Same, Machine!Next, Machine!Step, Machine!Return

(* The machine has the instructions of this module.                        *)
LEMMA MachineInstr == Machine!IrInstr = IrInstr
<1>1. Machine!IrOps = IrOps
  BY DEF Machine!IrOps, IrOps, Machine!ArithOps, ArithOps, Machine!RelOps, RelOps
<1>2. Machine!Operand = Operand BY DEF Machine!Operand, Operand, Machine!Literals, Literals
<1>. QED BY <1>1, <1>2 DEF Machine!IrInstr, IrInstr

(* The first instruction of a function.                                    *)
LEMMA Starts ==
    ASSUME status = "idle", status' = "running", run' # 0, prog' = prog,
           prog[run'].code \in Seq(IrInstr), IpOf' = 1
    PROVE  Machine!Next
<1>1. Code' = prog[run'].code BY DEF Code
<1>2. (IF run = 0 THEN <<>> ELSE Code)' = prog[run'].code BY <1>1
<1>3. Seq(Machine!IrInstr) = Seq(IrInstr) BY MachineInstr
<1>4. (IF run = 0 THEN <<>> ELSE Code)' \in Seq(Machine!IrInstr) BY <1>2, <1>3
<1>. QED BY <1>4 DEF Machine!Next, Machine!Start

(* Where the engine is, before and after a step of a running function.     *)
LEMMA MoveIp ==
    ASSUME BInv, Execute, status = "running", run' = run, at' \in Nat
    PROVE  /\ Same /\ IpOf = IpIn(js[run], Code, pc, at) /\ IpOf' = IpIn(js[run], Code, pc', at')
           /\ Len(Lines) \in Nat /\ DOMAIN Lines = 1 .. Len(Lines)
<1>1. Printed /\ run \in DOMAIN js /\ at \in 0 .. Len(Lines) + 1 BY MovesFrom
<1>2. run # 0 /\ run \in 1 .. Len(prog) /\ Len(Lines) \in Nat /\ DOMAIN Lines = 1 .. Len(Lines)
  BY <1>1, RunningText
<1>3. js' = js /\ prog' = prog BY DEF Execute, cgvars
<1>4. run \in Nat \ {0} /\ at \in Nat /\ Len(js[run].lines) \in Nat
  BY <1>1, <1>2 DEF Lines
<1>5. IpOf = IpIn(js[run], Code, pc, at) BY <1>2, <1>4, IpIs
<1>6. run' \in Nat \ {0} /\ Len(js[run'].lines) \in Nat BY <1>4
<1>7. IpOf' = IpIn(js[run'], prog[run'].code, pc', at') BY <1>3, <1>6, IpNext
<1>. QED BY <1>2, <1>3, <1>5, <1>7 DEF Same, Code

(* All the lines of a case that "pc" names have the same label, which is   *)
(* where control is before and after the switch finds one of them.         *)
LEMMA SwitchStays ==
    ASSUME BInv, Execute, Switch
    PROVE  MachineStays
<1>1. /\ status = "running" /\ at = 0 /\ at' \in Cases(pc)
      /\ run' = run /\ pc' = pc /\ status' = status
  BY DEF Switch, Running
<1>2. Printed /\ run \in DOMAIN js /\ js[run].machine BY <1>1, MovesFrom
<1>3. /\ Len(Lines) \in Nat /\ DOMAIN Lines = 1 .. Len(Lines) /\ Len(Code) \in Nat
      /\ DOMAIN Code = 1 .. Len(Code) /\ Lined(Code, Lines, Len(Code) + 1)
  BY <1>2, RunningText
<1>4. at' \in 1 .. Len(Lines) /\ at' \in Nat BY <1>1, <1>3 DEF Cases
<1>5. /\ Same /\ IpOf = IpIn(js[run], Code, pc, 0) /\ IpOf' = IpIn(js[run], Code, pc, at')
  BY <1>1, <1>4, MoveIp
<1>. DEFINE h == CHOOSE i \in Cases(pc) : TRUE
<1>6. h \in Cases(pc) BY <1>1
<1>7. CaseLines(Lines, pc) = Cases(pc) BY DEF Cases, CaseLines
<1>8. IpOf = Lines[h].src BY <1>5, <1>7 DEF IpIn, Lines
<1>9. IpOf' = Lines[at'].src BY <1>3, <1>4, <1>5 DEF IpIn, Lines
<1>. HIDE DEF h
<1>10. /\ h \in 1 .. Len(Lines) /\ Lines[h].j = "case" /\ Lines[at'].j = "case"
       /\ Lines[h].pc = Lines[at'].pc
  BY <1>1, <1>3, <1>6 DEF Cases
<1>11. Lines[h].src = Lines[at'].src BY <1>3, <1>4, <1>10, SameCase
<1>12. IpOf' = IpOf BY <1>8, <1>9, <1>11
<1>. QED BY <1>1, <1>5, <1>12, Stays DEF Same

(* Behind a line that control falls through is the next instruction; the   *)
(* first case of a machine stands for none.                                *)
LEMMA FallsInMachine ==
    ASSUME BInv, Execute, FallThrough, js[run].machine
    PROVE  MachineStays \/ Machine!Next
<1>1. /\ status = "running" /\ at \in DOMAIN Lines /\ Here.j \in Falls /\ at' = at + 1
      /\ run' = run /\ pc' = pc /\ status' = status
  BY DEF FallThrough, OnLine, Running, Falls
<1>2. Printed /\ run \in DOMAIN js BY <1>1, MovesFrom
<1>3. /\ Len(Lines) \in Nat /\ DOMAIN Lines = 1 .. Len(Lines) /\ Len(Code) \in Nat
      /\ DOMAIN Code = 1 .. Len(Code) /\ Ordered(Lines, Len(Code) + 1)
  BY <1>2, RunningText DEF Follows
<1>4. at \in 1 .. Len(Lines) /\ at' \in Nat BY <1>1, <1>3
<1>5. Same /\ IpOf = IpIn(js[run], Code, pc, at) /\ IpOf' = IpIn(js[run], Code, pc, at')
  BY <1>1, <1>4, MoveIp
<1>6. IpOf = Here.src BY <1>3, <1>4, <1>5 DEF IpIn, Lines, Here
<1>7. IpOf' = NextSrc(Lines, at, Len(Code) + 1)
  <2>1. CASE at = Len(Lines)
    <3>1. EndOf(js[run], Code) = Len(Code) + 1 BY DEF EndOf
    <3>2. at' # 0 /\ at' > Len(Lines) BY <1>1, <1>3, <2>1
    <3>3. IpOf' = EndOf(js[run], Code) BY <1>5, <3>2 DEF IpIn, Lines
    <3>. QED BY <2>1, <3>1, <3>3 DEF NextSrc
  <2>2. CASE at # Len(Lines)
    <3>1. at' # 0 /\ ~(at' > Len(Lines)) BY <1>1, <1>3, <1>4, <2>2
    <3>2. IpOf' = Lines[at'].src BY <1>5, <3>1 DEF IpIn, Lines
    <3>. QED BY <1>1, <2>2, <3>2 DEF NextSrc
  <2>. QED BY <2>1, <2>2
<1>8. IpOf' = IpOf + (IF at = 1 THEN 0 ELSE 1)
  BY <1>1, <1>3, <1>4, <1>6, <1>7 DEF Ordered, Here
<1>9. CASE at = 1
  <2>1. IpOf = 1 BY <1>1, <1>2, <1>6, <1>9, HereStands
  <2>2. IpOf' = IpOf BY <1>8, <1>9, <2>1
  <2>. QED BY <1>1, <1>5, <2>2, Stays DEF Same
<1>10. CASE at # 1
  <2>1. Stands(Code, Here) BY <1>1, <1>2, <1>10, HereStands
  <2>2. Here.j \in {"case", "assign", "unless"} BY <1>1 DEF Falls
  <2>3. IpOf \in DOMAIN Code /\ Code[IpOf].op \in OpsOf(Here.j) BY <1>6, <2>1, <2>2 DEF Stands
  <2>4. Code[IpOf].op \notin Leaving BY <2>2, <2>3 DEF OpsOf, Leaving
  <2>5. IpOf' = IpOf + 1 BY <1>8, <1>10
  <2>. QED BY <1>1, <1>5, <2>3, <2>4, <2>5, Advances
<1>. QED BY <1>9, <1>10

(* A function without labels has no jumps.                                 *)
LEMMA NoJumps ==
    ASSUME NEW func, func.code \in Seq(IrInstr), ~has_labels(func),
           Targets(func) \subseteq Placed(func), NEW i \in DOMAIN func.code
    PROVE  func.code[i].op \notin {"br", "brfalse"}
<1>1. Placed(func) = {} BY DEF Placed, has_labels
<1>2. func.code[i].op \in {"br", "brfalse"} => func.code[i].label \in Targets(func) BY DEF Targets
<1>. QED BY <1>1, <1>2

(* The end of such a function is behind its lines.                         *)
LEMMA SequenceEnd ==
    ASSUME NEW text, ~text.machine, NEW c \in Seq(IrInstr), NEW ls, Len(ls) \in Nat,
           Counted(c, ls, Len(c) + 1), Len(ls) \in DOMAIN c => c[Len(ls)].op # "ret"
    PROVE  EndOf(text, c) = Len(ls) + 1
<1>1. Len(c) \in Nat /\ DOMAIN c = 1 .. Len(c) /\ (c = <<>> <=> Len(c) = 0)
  BY LenProperties, EmptySeq
<1>2. CASE Len(c) = Len(ls)
  <2>1. c # <<>> => c[Len(c)].op # "ret" BY <1>1, <1>2
  <2>. QED BY <1>2, <2>1 DEF EndOf
<1>3. CASE Len(ls) = Len(c) - 1 /\ c[Len(c)].op = "ret"
  <2>1. c # <<>> BY <1>1, <1>3
  <2>. QED BY <1>1, <1>3, <2>1 DEF EndOf
<1>4. \/ Len(c) + 1 = Len(ls) + 1
      \/ Len(c) + 1 = Len(c) + 1 /\ Len(ls) = Len(c) - 1 /\ c[Len(c)].op = "ret"
  BY DEF Counted
<1>5. Len(c) + 1 = Len(ls) + 1 => Len(c) = Len(ls) BY <1>1
<1>. QED BY <1>2, <1>3, <1>4, <1>5

(* What is known of a straight one that runs.                              *)
AllStraight == \A k \in DOMAIN prog : Straight(prog[k])

(* Its lines are its instructions, one by one.                             *)
LEMMA RunningSequence ==
    ASSUME BInv, Printed, NEW r \in DOMAIN js, AllStraight, ~js[r].machine
    PROVE  /\ OneByOne(prog[r].code, js[r].lines)
           /\ Counted(prog[r].code, js[r].lines, Len(prog[r].code) + 1)
<1>1. GInv BY DEF BInv
<1>2. r \in 1 .. Len(prog) /\ Sequential(prog[r], js[r].lines, Len(prog[r].code) + 1)
  BY <1>1, TextIs
<1>3. DOMAIN prog = 1 .. Len(prog) BY <1>1, LenProperties DEF GInv, GoodProgram
<1>4. Straight(prog[r]) BY <1>2, <1>3 DEF AllStraight
<1>. QED BY <1>2, <1>4 DEF Sequential

(* Behind an assignment is the next instruction, if printed.               *)
LEMMA FallsInSequence ==
    ASSUME BInv, Execute, FallThrough, ~js[run].machine, AllStraight
    PROVE  Machine!Next
<1>1. /\ status = "running" /\ at \in DOMAIN Lines /\ Here.j \in Falls /\ at' = at + 1
      /\ run' = run /\ pc' = pc /\ status' = status
  BY DEF FallThrough, OnLine, Running, Falls
<1>2. Printed /\ run \in DOMAIN js BY <1>1, MovesFrom
<1>3. /\ Len(Lines) \in Nat /\ DOMAIN Lines = 1 .. Len(Lines) /\ Len(Code) \in Nat
      /\ DOMAIN Code = 1 .. Len(Code) /\ Code \in Seq(IrInstr) /\ ~has_labels(prog[run])
      /\ Targets(prog[run]) \subseteq Placed(prog[run])
  BY <1>2, RunningText
<1>4. OneByOne(Code, Lines) /\ Counted(Code, Lines, Len(Code) + 1)
  BY <1>2, RunningSequence DEF Code, Lines
<1>5. at \in 1 .. Len(Lines) /\ at' \in Nat /\ at' # 0 BY <1>1, <1>3
<1>6. Same /\ IpOf = IpIn(js[run], Code, pc, at) /\ IpOf' = IpIn(js[run], Code, pc, at')
  BY <1>1, <1>5, MoveIp
<1>7. IpOf = at
  <2>1. Lines[at].src = at BY <1>1, <1>4 DEF OneByOne
  <2>. QED BY <1>3, <1>5, <1>6, <2>1 DEF IpIn, Lines
<1>8. at \in DOMAIN Code /\ Code[at].op # "ret"
  BY <1>1, <1>4 DEF OneByOne, Here, Falls
<1>9. Code[at].op \notin Leaving
  <2>1. Code[at].op \notin {"br", "brfalse"} BY <1>3, <1>8, NoJumps DEF Code
  <2>. QED BY <1>8, <2>1 DEF Leaving
<1>10. IpOf' = at + 1
  <2>1. CASE at = Len(Lines)
    <3>1. EndOf(js[run], Code) = Len(Lines) + 1 BY <1>3, <1>4, <1>8, <2>1, SequenceEnd
    <3>2. at' > Len(Lines) BY <1>1, <1>3, <2>1
    <3>. QED BY <1>5, <1>6, <2>1, <3>1, <3>2 DEF IpIn, Lines
  <2>2. CASE at # Len(Lines)
    <3>1. ~(at' > Len(Lines)) /\ at' \in DOMAIN Lines BY <1>1, <1>3, <1>5, <2>2
    <3>2. Lines[at'].src = at' BY <1>4, <3>1 DEF OneByOne
    <3>. QED BY <1>1, <1>5, <1>6, <3>1, <3>2 DEF IpIn, Lines
  <2>. QED BY <2>1, <2>2
<1>. QED BY <1>1, <1>6, <1>7, <1>8, <1>9, <1>10, Advances

-----------------------------------------------------------------------------
(* A jump goes to its label, which is where the case it names begins.      *)
LEMMA JumpsInMachine ==
    ASSUME BInv, Execute, SetPcAndBreak
    PROVE  MachineStays \/ Machine!Next
<1>1. /\ status = "running" /\ at \in DOMAIN Lines /\ Here.j \in {"goto", "unless"}
      /\ pc' = Here.pc /\ at' = 0 /\ run' = run /\ status' = status
  BY DEF SetPcAndBreak, OnLine, Running
<1>2. Printed /\ run \in DOMAIN js BY <1>1, MovesFrom
<1>3. js[run].machine /\ Stands(Code, Here) BY <1>1, <1>2, HereStands
<1>4. /\ Len(Lines) \in Nat /\ DOMAIN Lines = 1 .. Len(Lines) /\ IsSeq(Lines)
      /\ Len(Code) \in Nat /\ DOMAIN Code = 1 .. Len(Code)
      /\ LabelsOnce(prog[run]) /\ Follows(Code, Lines, Len(Code) + 1)
  BY <1>2, <1>3, RunningText
<1>5. at \in 1 .. Len(Lines) BY <1>1, <1>4
<1>6. Same /\ IpOf = IpIn(js[run], Code, pc, at) /\ IpOf' = IpIn(js[run], Code, Here.pc, 0)
  BY <1>1, MoveIp
<1>7. IpOf = Here.src BY <1>4, <1>5, <1>6 DEF IpIn, Lines, Here
<1>8. /\ IpOf \in DOMAIN Code /\ Code[IpOf].op \in OpsOf(Here.j)
      /\ Goes(Code, Code[IpOf].label, Here.pc)
  BY <1>1, <1>3, <1>7 DEF Stands
<1>9. PICK p \in LabelPos(Code) :
         /\ Code[p].label = Code[IpOf].label
         /\ CaseLines(Lines, Here.pc) # {}
         /\ \A i \in CaseLines(Lines, Here.pc) : Lines[i].src = p
  BY <1>4, <1>8, JumpGoes
<1>10. IpOf' = p
  <2>1. IpOf' = Lines[CHOOSE i \in CaseLines(Lines, Here.pc) : TRUE].src
    BY <1>6 DEF IpIn, Lines
  <2>. QED BY <1>9, <2>1
<1>11. CASE Code[IpOf].op = "label"
  <2>1. IpOf \in DOMAIN Code /\ p \in DOMAIN Code /\ Code[p].op = "label"
    BY <1>8, <1>9 DEF LabelPos
  <2>2. p = IpOf BY <1>4, <1>9, <1>11, <2>1 DEF LabelsOnce, Code
  <2>. QED BY <1>1, <1>6, <1>10, <2>2, Stays DEF Same
<1>12. CASE Code[IpOf].op \in {"br", "brfalse"}
  BY <1>1, <1>6, <1>8, <1>9, <1>10, <1>12, Jumps
<1>13. Code[IpOf].op \in {"label", "br", "brfalse"} BY <1>1, <1>8 DEF OpsOf
<1>. QED BY <1>11, <1>12, <1>13

(* A "return" line is a ret, and so is the end of a sequence.              *)
LEMMA ReturnsAtRet ==
    ASSUME BInv, Execute, JsReturn, AllStraight
    PROVE  Machine!Next
<1>1. /\ status = "running" /\ at' = at /\ run' = run /\ pc' = pc /\ status' = "returned"
      /\ \/ at \in DOMAIN Lines /\ Here.j = "return"
         \/ at > Len(Lines) /\ ~js[run].machine
  BY DEF JsReturn, OnLine, Running, PastEnd
<1>2. /\ Printed /\ run \in DOMAIN js /\ at \in 0 .. Len(Lines) + 1
  BY <1>1, MovesFrom
<1>3. /\ Len(Lines) \in Nat /\ DOMAIN Lines = 1 .. Len(Lines)
      /\ Len(Code) \in Nat /\ DOMAIN Code = 1 .. Len(Code) /\ Code \in Seq(IrInstr)
  BY <1>2, RunningText
<1>4. at \in Nat BY <1>2, <1>3
<1>5. Same /\ IpOf = IpIn(js[run], Code, pc, at) /\ IpOf' = IpIn(js[run], Code, pc, at)
  BY <1>1, <1>4, MoveIp
<1>6. CASE at \in DOMAIN Lines /\ Here.j = "return"
  <2>1. IpOf = Here.src BY <1>3, <1>5, <1>6 DEF IpIn, Lines, Here
  <2>2. CASE js[run].machine
    <3>1. Stands(Code, Here) BY <1>2, <1>6, <2>2, HereStands
    <3>2. Here.src \in DOMAIN Code /\ Code[Here.src].op = "ret"
      BY <1>6, <3>1 DEF Stands, OpsOf
    <3>. QED BY <1>1, <1>5, <2>1, <3>2, Returns
  <2>3. CASE ~js[run].machine
    <3>1. OneByOne(Code, Lines) BY <1>2, <2>3, RunningSequence DEF Code, Lines
    <3>2. Here.src \in DOMAIN Code /\ Code[Here.src].op = "ret"
      BY <1>6, <3>1 DEF OneByOne, Here
    <3>. QED BY <1>1, <1>5, <2>1, <3>2, Returns
  <2>. QED BY <2>2, <2>3
<1>7. CASE at > Len(Lines) /\ ~js[run].machine
  <2>1. IpOf = EndOf(js[run], Code) BY <1>3, <1>4, <1>5, <1>7 DEF IpIn, Lines
  <2>2. (IpOf \in DOMAIN Code /\ Code[IpOf].op = "ret") \/ IpOf = Len(Code) + 1
    <3>1. Code # <<>> => Len(Code) \in DOMAIN Code BY <1>3, EmptySeq
    <3>. QED BY <2>1, <3>1 DEF EndOf
  <2>. QED BY <1>1, <1>5, <2>2, Returns
<1>. QED BY <1>1, <1>6, <1>7

(* A call is at the first instruction.                                     *)
LEMMA CallStarts ==
    ASSUME BInv, Execute, JsCall, AllStraight
    PROVE  Machine!Next
<1>1. /\ status = "idle" /\ status' = "running" /\ run' \in DOMAIN js /\ pc' = 0
      /\ at' = IF js[run'].machine THEN 0 ELSE 1
  BY DEF JsCall
<1>2. GInv /\ Printed /\ js' = js /\ prog' = prog BY DEF BInv, Execute, cgvars
<1>. DEFINE r  == run'
            ls == js[r].lines
            c  == prog[r].code
<1>3. /\ r \in 1 .. Len(prog) /\ r # 0 /\ Len(ls) \in Nat /\ DOMAIN ls = 1 .. Len(ls)
      /\ c \in Seq(IrInstr) /\ Len(c) \in Nat /\ DOMAIN c = 1 .. Len(c)
      /\ js[r].machine => Lined(c, ls, Len(c) + 1)
  BY <1>1, <1>2, TextIs
<1>4. r \in Nat \ {0} /\ at' \in Nat BY <1>1, <1>3
<1>5. IpOf' = IpIn(js[r], c, 0, at') BY <1>1, <1>2, <1>3, <1>4, IpNext
<1>6. CASE js[r].machine
  <2>1. /\ Lined(c, ls, Len(c) + 1) /\ 1 \in 1 .. Len(ls)
        /\ ls[1].j = "case" /\ ls[1].pc = 0 /\ ls[1].src = 1
    BY <1>3, <1>6 DEF Lined
  <2>. DEFINE h == CHOOSE i \in CaseLines(ls, 0) : TRUE
  <2>2. IpOf' = ls[h].src BY <1>1, <1>5, <1>6 DEF IpIn
  <2>3. h \in CaseLines(ls, 0)
    <3>1. 1 \in CaseLines(ls, 0) BY <1>3, <2>1 DEF CaseLines
    <3>. QED BY <3>1
  <2>. HIDE DEF h
  <2>4. h \in 1 .. Len(ls) /\ ls[h].j = "case" /\ ls[h].pc = ls[1].pc
    BY <1>3, <2>1, <2>3 DEF CaseLines
  <2>. HIDE DEF ls, c, r
  <2>5. ls[h].src = ls[1].src BY <1>3, <2>1, <2>4, SameCase
  <2>6. IpOf' = 1 BY <2>1, <2>2, <2>5
  <2>. QED BY <1>1, <1>2, <1>3, <2>6, Starts DEF r, c
<1>7. CASE ~js[r].machine
  <2>1. OneByOne(c, ls) /\ Counted(c, ls, Len(c) + 1)
    BY <1>1, <1>2, <1>7, RunningSequence
  <2>2. at' = 1 BY <1>1, <1>7
  <2>3. IpOf' = 1
    <3>1. CASE Len(ls) = 0
      <4>1. EndOf(js[r], c) = 1
        <5>1. Len(ls) \notin DOMAIN c BY <1>3, <3>1
        <5>. HIDE DEF ls, c, r
        <5>2. EndOf(js[r], c) = Len(ls) + 1 BY <1>3, <1>7, <2>1, <5>1, SequenceEnd
        <5>. QED BY <3>1, <5>2
      <4>. QED BY <1>5, <2>2, <3>1, <4>1 DEF IpIn
    <3>2. CASE Len(ls) # 0
      <4>1. 1 \in DOMAIN ls /\ ~(1 > Len(ls)) BY <1>3, <3>2
      <4>2. ls[1].src = 1 BY <2>1, <4>1 DEF OneByOne
      <4>. QED BY <1>5, <2>2, <4>1, <4>2 DEF IpIn
    <3>. QED BY <3>1, <3>2
  <2>. QED BY <1>1, <1>2, <1>3, <2>3, Starts
<1>. QED BY <1>6, <1>7

-----------------------------------------------------------------------------
(* The steps of the printed function are those of its IR.                  *)

(* The program stays as it is, and so does what holds of all of it.        *)
LEMMA ProgramStays == [Next]_vars => prog' = prog
<1>1. codegen_js_func => prog' = prog
  BY DEF codegen_js_func, BeginFunc, GenLabel, GenStateMachineInstr, GenSequentialInstr, EndFunc
<1>2. UNCHANGED cgvars => prog' = prog BY DEF cgvars
<1>3. UNCHANGED vars => UNCHANGED cgvars BY DEF vars
<1>. QED BY <1>1, <1>2, <1>3 DEF Next, Execute, Finish

AllLeave == \A k \in DOMAIN prog : Leaves(prog[k].code)

(* No function runs.                                                       *)
LEMMA IdleStays == run = 0 /\ UNCHANGED exec => MachineStays
<1>. SUFFICES ASSUME run = 0, UNCHANGED exec PROVE MachineStays
  OBVIOUS
<1>1. run' = 0 /\ status' = status BY DEF exec
<1>2. IpOf = 0 BY DEF IpOf
<1>3. IpOf' = 0 BY <1>1 DEF IpOf
<1>4. (IF run = 0 THEN <<>> ELSE Code)' = (IF run = 0 THEN <<>> ELSE Code) BY <1>1
<1>. QED BY <1>1, <1>2, <1>3, <1>4 DEF MachineStays, Machine!vars

(* While the generator prints, none does.                                  *)
LEMMA PrintingStays ==
    ASSUME BInv, codegen_js_func, UNCHANGED exec
    PROVE  MachineStays
<1>1. status = "idle" /\ run = 0 BY GeneratorKeeps DEF BInv, EInv
<1>. QED BY <1>1, IdleStays

(* A step that changes nothing.                                            *)
LEMMA StutterStays == UNCHANGED vars => MachineStays
<1>. SUFFICES ASSUME UNCHANGED vars PROVE MachineStays
  OBVIOUS
<1>1. /\ prog' = prog /\ js' = js /\ run' = run /\ pc' = pc /\ at' = at /\ status' = status
  BY DEF vars, cgvars, exec
<1>2. Lines' = Lines /\ Code' = Code BY <1>1 DEF Lines, Code
<1>3. Here' = Here /\ EndIp' = EndIp BY <1>1, <1>2 DEF Here, EndIp
<1>4. Cases(pc)' = Cases(pc) BY <1>1, <1>2 DEF Cases
<1>5. IpOf' = IpOf BY <1>1, <1>2, <1>3, <1>4 DEF IpOf
<1>. QED BY <1>1, <1>5, Stays

(* When no code runs past its end, the end of the switch is not reached.   *)
LEMMA NoEndOfSwitch == BInv /\ AllLeave => ~EndOfSwitch
<1>. SUFFICES ASSUME BInv, AllLeave, EndOfSwitch PROVE FALSE
  OBVIOUS
<1>1. /\ status = "running"
      /\ (at \in DOMAIN Lines /\ Here.j = "break") \/ (at > Len(Lines) /\ js[run].machine)
  BY DEF EndOfSwitch, OnLine, Running, PastEnd
<1>2. Printed /\ run \in DOMAIN js /\ at \in 0 .. Len(Lines) + 1 BY <1>1, MovesFrom
<1>3. run \in 1 .. Len(prog) /\ Len(Lines) \in Nat /\ DOMAIN Lines = 1 .. Len(Lines)
  BY <1>2, RunningText
<1>4. js[run].machine BY <1>1, <1>2, HereStands
<1>5. Leaves(Code)
  <2>1. DOMAIN prog = 1 .. Len(prog) BY LenProperties DEF BInv, GInv, GoodProgram
  <2>. QED BY <1>3, <2>1 DEF AllLeave, Code
<1>6. at <= Len(Lines) /\ (at > 0 => Here.j # "break") BY <1>1, <1>4, <1>5, MovesFrom
<1>. QED BY <1>1, <1>2, <1>3, <1>6

(* The end of the switch is reached behind the last instruction only: by   *)
(* the "break" printed there, or by running past the last line.            *)
LEMMA EndOfSwitchIsEnd == BInv /\ EndOfSwitch => TurnsPastCode
<1>. SUFFICES ASSUME BInv, EndOfSwitch PROVE IpOf = Len(Code) + 1
  BY DEF TurnsPastCode
<1>1. /\ status = "running"
      /\ (at \in DOMAIN Lines /\ Here.j = "break") \/ (at > Len(Lines) /\ js[run].machine)
  BY DEF EndOfSwitch, OnLine, Running, PastEnd
<1>2. /\ Printed /\ run \in DOMAIN js /\ at \in 0 .. Len(Lines) + 1
      /\ js[run].machine /\ at \in 2 .. Len(Lines) => AtEnd(Code, Here)
  BY <1>1, MovesFrom
<1>3. run \in 1 .. Len(prog) /\ Len(Lines) \in Nat /\ DOMAIN Lines = 1 .. Len(Lines)
  BY <1>2, RunningText
<1>4. js[run].machine BY <1>1, <1>2, HereStands
<1>5. run \in Nat \ {0} /\ at \in Nat
  <2>1. Len(prog) \in Nat BY LenProperties DEF BInv, GInv, GoodProgram
  <2>. QED BY <1>2, <1>3, <2>1
<1>6. IpOf = IpIn(js[run], Code, pc, at) BY <1>3, <1>5, IpIs
<1>7. CASE at \in DOMAIN Lines /\ Here.j = "break"
  <2>1. at # 1 BY <1>2, <1>4, <1>7, HereStands
  <2>2. at \in 2 .. Len(Lines) BY <1>3, <1>7, <2>1
  <2>3. Here.src = Len(Code) + 1 BY <1>2, <1>4, <1>7, <2>2 DEF AtEnd
  <2>4. IpOf = Here.src BY <1>3, <1>6, <2>2 DEF IpIn, Lines, Here
  <2>. QED BY <2>3, <2>4
<1>8. CASE at > Len(Lines)
  <2>1. at # 0 BY <1>3, <1>8
  <2>2. IpOf = EndOf(js[run], Code) BY <1>6, <1>8, <2>1 DEF IpIn, Lines
  <2>. QED BY <1>4, <2>2 DEF EndOf
<1>. QED BY <1>1, <1>7, <1>8

(* Every step of the back end, as one of the machine.                      *)
LEMMA StepFollows ==
    ASSUME BInv, AllStraight, [Next]_vars
    PROVE  TurnsPastCode \/ Machine!Next \/ MachineStays
<1>1. CASE codegen_js_func /\ UNCHANGED exec BY <1>1, PrintingStays
<1>2. CASE Execute
  <2>1. CASE JsCall BY <1>2, <2>1, CallStarts
  <2>2. CASE Switch BY <1>2, <2>2, SwitchStays
  <2>3. CASE FallThrough BY <1>2, <2>3, FallsInMachine, FallsInSequence
  <2>4. CASE SetPcAndBreak BY <1>2, <2>4, JumpsInMachine
  <2>5. CASE JsReturn BY <1>2, <2>5, ReturnsAtRet
  <2>6. CASE EndOfSwitch BY <2>6, EndOfSwitchIsEnd
  <2>. QED BY <1>2, <2>1, <2>2, <2>3, <2>4, <2>5, <2>6 DEF Execute, JsStep
<1>3. CASE UNCHANGED vars BY <1>3, StutterStays
<1>. QED BY <1>1, <1>2, <1>3 DEF Next, Finish

(* What holds of the whole program holds of it in every state.             *)
LEMMA InvariantStraight == Spec /\ AllStraight => [](BInv /\ AllStraight)
<1>1. AllStraight /\ [Next]_vars => AllStraight' BY ProgramStays DEF AllStraight
<1>. QED BY <1>1, InitBInv, NextBInv, PTL DEF Spec

(* The same.                                                               *)
LEMMA InvariantLeave == Spec /\ AllLeave => []AllLeave
<1>1. AllLeave /\ [Next]_vars => AllLeave' BY ProgramStays DEF AllLeave
<1>. QED BY <1>1, PTL DEF Spec

(* Every step of a printed function is one of its IR, or none, but for a   *)
(* turn of the loop when control is behind the last instruction: no other  *)
(* "break" is reached unless pc was set.  "Straight" leaves out a program  *)
(* without labels that returns before its end: codegen_js_instr prints     *)
(* nothing for that.                                                       *)
THEOREM StepsCorrect == Spec /\ AllStraight => StepsFollowIr
<1>1. BInv /\ AllStraight /\ [Next]_vars
      => [TurnsPastCode \/ [Machine!Next]_(Machine!vars)]_vars
  BY StepFollows DEF MachineStays
<1>. QED BY <1>1, InvariantStraight, PTL DEF Spec, StepsFollowIr

(* When, besides, the code of every function ends with a ret or a br, the  *)
(* printed functions implement the machine of the IR (but for its          *)
(* fairness): the end of the switch, where they would turn for ever and    *)
(* the machine returns, is never reached.                                  *)
THEOREM Refinement ==
    Spec /\ AllStraight /\ AllLeave => Machine!Init /\ [][Machine!Next]_(Machine!vars)
<1>1. Init => Machine!Init
  <2>. SUFFICES ASSUME Init PROVE Machine!Init
    OBVIOUS
  <2>1. run = 0 /\ status = "idle" BY DEF Init, Start, JsIdle
  <2>2. IpOf = 0 BY <2>1 DEF IpOf
  <2>. QED BY <2>1, <2>2 DEF Machine!Init
<1>2. BInv /\ AllStraight /\ AllLeave /\ [Next]_vars => [Machine!Next]_(Machine!vars)
  BY StepFollows, NoEndOfSwitch DEF MachineStays, TurnsPastCode
<1>. QED BY <1>1, <1>2, InvariantStraight, InvariantLeave, PTL DEF Spec

==============================================================================
